----------------------------- MODULE DwipeMethod -----------------------------
(***************************************************************************)
(* One wipe process: dwipe_runmethod of dwipe/method.c and the four pass   *)
(* functions of dwipe/pass.c, at the granularity of one system call on the *)
(* device.  The record c is the part of dwipe_context_t that lives in      *)
(* shared memory and that the parent reads while the wipe runs.            *)
(***************************************************************************)
EXTENDS DwipePatterns, FiniteSets

CONSTANTS
  Size,       \* device_size, in bytes
  Blk,        \* st_blksize, the I/O size, in bytes
  Options,    \* the option records a run considers
  MaxFaults   \* how many times the device or the kernel misbehaves

Offsets == 0 .. Size - 1

ASSUME MethodAssumption ==
  /\ Size \in Nat \ {0}
  /\ Blk \in Nat \ {0}
  /\ MaxFaults \in Nat
  /\ Options \subseteq
       [method : {"zero", "random", "dodshort", "dod522022m", "ops2", "gutmann"},
        verify : {"none", "last", "all"},
        rounds : Nat \ {0},
        prng   : {"twister", "isaac"}]

VARIABLES
  opt,       \* dwipe_options, fixed before the fork
  patterns,  \* the pattern array the method built
  pc,        \* where the process is
  c,         \* its context in shared memory
  i,         \* the index of the current pattern
  fin,       \* TRUE from the final pass on
  z,         \* bytes remaining in the pass
  w,         \* window offset of a static pass, stream offset of a random one
  seed,      \* how often the PRNG seed was drawn: names the current stream
  junk,      \* what malloc left in the buffer of the running pass
  offset,    \* the file offset of device_fd
  dev,       \* the content of the device
  dirty,     \* some write is not flushed yet
  result,    \* exit value, or the signal that killed the process
  faults,    \* faults so far
  ghost      \* history, read by the properties only

vars == <<opt, patterns, pc, c, i, fin, z, w, seed, junk, offset, dev, dirty,
          result, faults, ghost>>

-----------------------------------------------------------------------------
\* Device contents.
Old         == [src |-> "old",  val |-> 0, at |-> 0]
Chr(b)      == [src |-> "chr",  val |-> b, at |-> 0]
Rnd(sd, at) == [src |-> "rnd",  val |-> sd, at |-> at]
Junk(v)     == [src |-> "junk", val |-> v, at |-> 0]
JunkValues  == {0, 1}
Segv        == 11

Lower(a, b)    == IF a < b THEN a ELSE b
VerifyLast     == opt.verify \in {"last", "all"}
VerifyAll      == opt.verify = "all"
ReadBack       == IF fin THEN VerifyLast ELSE VerifyAll
FinalPattern   == IF opt.method = "ops2" THEN Stream ELSE Static(<<0>>)
Pattern        == IF fin THEN FinalPattern ELSE patterns[i + 1]

\* The next I/O is a block, or all that remains of the pass.
Blocksize == IF Blk < z THEN Blk ELSE z

\* The block a static pass takes from its pattern buffer at the window offset,
\* and the block the PRNG returns.  dwipe_isaac_read returns without touching
\* the buffer, which keeps what malloc left there.
StaticBlock == [k \in 0 .. Blocksize - 1 |->
                  Chr(Pattern.s[((w + k) % Pattern.length) + 1])]
RandomBlock == [k \in 0 .. Blocksize - 1 |->
                  IF opt.prng = "isaac" THEN Junk(junk) ELSE Rnd(seed, w + k)]
Block       == IF Pattern.length > 0 THEN StaticBlock ELSE RandomBlock

\* Mutants: the window never moves, and it is not wrapped.
NextWindowStuck == 0
NextWindowUnwrapped == w + Blk

\* The window of a static pass moves by a whole st_blksize; a PRNG stream by
\* what was read from it, which the device size bounds.
NextWindow  == IF Pattern.length > 0 THEN (Blk + w) % Pattern.length
                                     ELSE Lower(w + Blocksize, Size)

\* The kernel: a short count, a failing call, a lost write each cost one fault.
Fault     == /\ faults < MaxFaults
             /\ faults' = faults + 1
Room      == Size - offset

\* A transfer takes the bytes it moved off the pass, and no more.
Remaining(r) == z - r

\* Leave the method with an exit value.
Return(r) ==
  /\ pc' = "done"
  /\ result' = r
  /\ UNCHANGED ghost

-----------------------------------------------------------------------------
Init ==
  /\ opt \in Options
  /\ patterns = <<>>
  /\ pc = "method"
  /\ c = [pass_count |-> 0, pass_done |-> 0, pass_errors |-> 0, pass_size |-> 0,
          pass_type |-> "none", pass_working |-> 0, round_count |-> 0,
          round_done |-> 0, round_size |-> 0, round_working |-> 0,
          sync_status |-> 0, verify_errors |-> 0]
  /\ i = 0 /\ fin = FALSE /\ z = 0 /\ w = 0 /\ seed = 0 /\ junk = 0
  /\ offset = 0
  /\ dev = [x \in Offsets |-> Old]
  /\ dirty = FALSE
  /\ result = 0
  /\ faults = 0
  /\ ghost = [unflushed |-> FALSE, lost |-> {}, short |-> FALSE,
              overwrites |-> [x \in Offsets |-> 0]]

\* Mutant: reading every pass back is forgotten in the plan.
PassBytesUnread(n) == n * Size

\* The bytes one round of n passes transfers, and all that the method does.
PassBytes(n)  == n * Size * (IF VerifyAll THEN 2 ELSE 1)
RoundBytes(n) == opt.rounds * PassBytes(n) + Size + (IF VerifyLast THEN Size ELSE 0)

\* The method builds its patterns and enters dwipe_runmethod, which counts them
\* and tells the parent the sizes.
StartMethod ==
  /\ pc = "method"
  /\ patterns' \in PatternsOf(opt.method, opt.rounds)
  /\ LET n == Len(patterns')
     IN  /\ c' = [c EXCEPT !.pass_count  = n,
                           !.pass_size   = PassBytes(n),
                           !.round_count = opt.rounds,
                           !.round_size  = RoundBytes(n)]
         /\ i' = n
  /\ pc' = "rounds"
  /\ UNCHANGED <<opt, fin, z, w, seed, junk, offset, dev, dirty, result, faults, ghost>>

\* The entropy source is short for the method's characters, or malloc fails; the
\* array of complements of OPS-II is used without a check of its own.
MethodFails ==
  /\ pc = "method"
  /\ Fault
  /\ \/ Return(-1)
     \/ opt.method = "ops2" /\ Return(Segv)
  /\ UNCHANGED <<opt, patterns, c, i, fin, z, w, seed, junk, offset, dev, dirty>>

\* The head of the round loop: the previous round has run out of patterns.
StartRound ==
  /\ pc = "rounds" /\ i = c.pass_count
  /\ c.round_working < c.round_count
  /\ c' = [c EXCEPT !.round_working = @ + 1, !.pass_working = 0]
  /\ i' = 0
  /\ UNCHANGED <<opt, patterns, pc, fin, z, w, seed, junk, offset, dev, dirty,
                 result, faults, ghost>>

\* A pass function before its loop: buffers, PRNG seeded, offset rewound.
Rewind ==
  /\ z' = Size
  /\ w' = 0
  /\ offset' = 0
  /\ junk' \in (IF opt.prng = "isaac" THEN JunkValues ELSE {0})

\* One turn of the pass loop: a static pattern, or a stream with a fresh seed.
StartPass ==
  /\ pc = "rounds" /\ i < c.pass_count
  /\ Pattern # Wild
  /\ c' = [c EXCEPT !.pass_working = @ + 1, !.pass_type = "write"]
  /\ seed' = IF Pattern.length < 0 THEN seed + 1 ELSE seed
  /\ Rewind
  /\ pc' = "write"
  /\ UNCHANGED <<opt, patterns, i, fin, dev, dirty, result, faults, ghost>>

\* Copying a pattern through a stale pointer.
StartWildPass ==
  /\ pc = "rounds" /\ i < c.pass_count
  /\ Pattern = Wild
  /\ c' = [c EXCEPT !.pass_working = @ + 1, !.pass_type = "write"]
  /\ Return(Segv)
  /\ UNCHANGED <<opt, patterns, i, fin, z, w, seed, junk, offset, dev, dirty, faults>>

\* After the rounds: the zero fill, or the random fill of OPS-II.
StartFinal ==
  /\ pc = "rounds" /\ i = c.pass_count
  /\ c.round_working = c.round_count
  /\ fin' = TRUE
  /\ c' = [c EXCEPT !.pass_type = IF opt.method = "ops2" THEN "final_ops2"
                                                         ELSE "final_blank"]
  /\ seed' = IF opt.method = "ops2" THEN seed + 1 ELSE seed
  /\ Rewind
  /\ pc' = "write"
  /\ UNCHANGED <<opt, patterns, i, dev, dirty, result, faults, ghost>>

\* The entropy cannot be read, or a pass function gives up before its loop for
\* want of memory or of a rewind.  The final passes never reset pass_type.
PassFails ==
  /\ pc = "verify" \/ (pc = "write" /\ z = Size /\ offset = 0)
  /\ Fault
  /\ Return(-1)
  /\ c' = [c EXCEPT !.pass_type = IF fin THEN @ ELSE "none"]
  /\ UNCHANGED <<opt, patterns, i, fin, z, w, seed, junk, offset, dev, dirty>>

\* The entropy read is short: pass_type keeps saying that the process writes.
NoEntropy ==
  /\ pc = "write" /\ z = Size /\ offset = 0 /\ Pattern.length < 0
  /\ Fault
  /\ Return(-1)
  /\ UNCHANGED <<opt, patterns, c, i, fin, z, w, seed, junk, offset, dev, dirty>>

-----------------------------------------------------------------------------
\* The loop bodies.  After a transfer of r bytes the offset has moved by r; a
\* short one is counted, and the file pointer is bumped over what is missing,
\* which lseek refuses beyond the end of the device.
BumpIgnored(r) == TRUE      \* Mutant: the result of lseek is not checked.
Bump(r)      == offset + Blocksize <= Size \/ r = Blocksize
AfterBump    == Lower(offset + Blocksize, Size)
ShortCounts(full) == {full} \union
                     (IF faults < MaxFaults THEN 0 .. full - 1 ELSE {})
MaxErrors    == 2      \* bounds the error counters: only > 0 is ever asked
More(n, e)   == Lower(n + e, MaxErrors)
Progress(r)  == [c EXCEPT !.round_done = @ + r, !.pass_done = @ + r]
PassOver     == IF fin THEN c ELSE [c EXCEPT !.pass_type = "none"]

\* write() fails: a device error, or no space when the offset is at the end.
WriteError ==
  /\ pc = "write" /\ z > 0
  /\ \/ Room = 0 /\ UNCHANGED faults /\ Return(-1)
     \/ Room > 0 /\ Fault /\ Return(-1)
  /\ c' = PassOver
  /\ UNCHANGED <<opt, patterns, i, fin, z, w, seed, junk, offset, dev, dirty>>

\* write() transfers r bytes; the device may silently lose one of them.
WriteBlock ==
  /\ pc = "write" /\ z > 0 /\ Room > 0
  /\ \E r \in ShortCounts(Lower(Blocksize, Room)),
        lost \in {{}} \union {{x} : x \in offset .. offset + Blocksize - 1} :
       LET range == offset .. offset + r - 1
           short == Blocksize - r
           gone  == {x \in lost : dev[x] # Block[x - offset]}
       IN  /\ lost \subseteq range
           /\ IF r < Lower(Blocksize, Room) \/ lost # {} THEN Fault ELSE UNCHANGED faults
           /\ dev' = [x \in Offsets |-> IF x \in range \ lost THEN Block[x - offset]
                                                             ELSE dev[x]]
           /\ dirty' = TRUE
           /\ IF Bump(r)
              THEN /\ c' = [Progress(r) EXCEPT !.pass_errors = More(@, short)]
                   /\ offset' = AfterBump
                   /\ z' = Remaining(r)
                   /\ w' = NextWindow
                   /\ ghost' = [ghost EXCEPT
                        !.lost = @ \union gone,
                        !.short = @ \/ short > 0,
                        !.overwrites = [x \in Offsets |->
                                          IF x \in range THEN @[x] + 1 ELSE @[x]]]
                   /\ UNCHANGED <<pc, result>>
              ELSE /\ c' = [PassOver EXCEPT !.pass_errors = More(@, short)]
                   /\ Return(-1)
                   /\ UNCHANGED <<offset, z, w>>
  /\ UNCHANGED <<opt, patterns, i, fin, seed, junk>>

\* The write loop is over: flush, with the flag up for the parent to see.
SyncAfterWrite ==
  /\ pc = "write" /\ z = 0
  /\ c' = [c EXCEPT !.sync_status = 1]
  /\ pc' = "wsync"
  /\ UNCHANGED <<opt, patterns, i, fin, z, w, seed, junk, offset, dev, dirty, result,
                 faults, ghost>>

\* Mutant: the flush after a pass is left out.
NotFlushed == UNCHANGED <<dirty, faults, ghost>>

\* fdatasync returns; a failure is only logged.
Flushed ==
  \/ dirty' = FALSE /\ UNCHANGED <<faults, ghost>>
  \/ Fault /\ UNCHANGED dirty /\ ghost' = [ghost EXCEPT !.unflushed = TRUE]

\* Mutant: the rounds loop forgets the pass it has just finished.
AfterPassTwice ==
  /\ pc' = IF ReadBack THEN "verify" ELSE IF fin THEN "end" ELSE "rounds"
  /\ i' = IF fin \/ ReadBack THEN i ELSE c.pass_count

\* What follows a write pass: its verification, the next pattern, or the end.
AfterPass ==
  /\ pc' = IF ReadBack THEN "verify" ELSE IF fin THEN "end" ELSE "rounds"
  /\ i' = IF fin \/ ReadBack THEN i ELSE i + 1

EndPass ==
  /\ pc = "wsync"
  /\ Flushed
  /\ c' = [PassOver EXCEPT !.sync_status = 0]
  /\ AfterPass
  /\ UNCHANGED <<opt, patterns, fin, z, w, seed, junk, offset, dev, result>>

\* A verification flushes again, rewinds and reseeds with the seed of the pass.
StartVerify ==
  /\ pc = "verify"
  /\ Rewind
  /\ c' = [c EXCEPT !.pass_type = IF fin THEN @ ELSE "verify", !.sync_status = 1]
  /\ pc' = "vsync"
  /\ UNCHANGED <<opt, patterns, i, fin, seed, dev, dirty, result, faults, ghost>>

EndVerifySync ==
  /\ pc = "vsync"
  /\ Flushed
  /\ c' = [c EXCEPT !.sync_status = 0]
  /\ pc' = "read"
  /\ UNCHANGED <<opt, patterns, i, fin, z, w, seed, junk, offset, dev, result>>

ReadError ==
  /\ pc = "read" /\ z > 0
  /\ Fault /\ Return(-1)
  /\ c' = PassOver
  /\ UNCHANGED <<opt, patterns, i, fin, z, w, seed, junk, offset, dev, dirty>>

\* Mutant: the buffers are never compared.
MismatchesUnseen(r) == {0}

\* The bytes read differ from those expected.  A random verification compares
\* the whole buffer even when the read was short, and what the buffer held
\* before decides; a static one compares full blocks only.
Mismatches(r) ==
  LET differ == \E k \in 0 .. r - 1 : dev[offset + k] # Block[k]
  IN  IF r = Blocksize THEN {IF differ THEN 1 ELSE 0}
      ELSE IF Pattern.length > 0 THEN {1}
      ELSE IF differ THEN {2} ELSE {1, 2}

ReadBlock ==
  /\ pc = "read" /\ z > 0
  /\ \E r \in ShortCounts(Lower(Blocksize, Room)) :
       /\ IF r < Lower(Blocksize, Room) THEN Fault ELSE UNCHANGED faults
       /\ \E e \in Mismatches(r) :
            IF Bump(r)
            THEN /\ c' = [Progress(r) EXCEPT !.verify_errors = More(@, e)]
                 /\ offset' = AfterBump
                 /\ z' = Remaining(r)
                 /\ w' = NextWindow
                 /\ ghost' = [ghost EXCEPT !.short = @ \/ r < Blocksize]
                 /\ UNCHANGED <<pc, result>>
            ELSE /\ c' = [PassOver EXCEPT !.verify_errors = More(@, 1)]
                 /\ Return(-1)
                 /\ UNCHANGED <<offset, z, w>>
  /\ UNCHANGED <<opt, patterns, i, fin, seed, junk, dev, dirty>>

EndVerify ==
  /\ pc = "read" /\ z = 0
  /\ c' = PassOver
  /\ IF fin THEN pc' = "end" /\ UNCHANGED i
            ELSE pc' = "rounds" /\ i' = i + 1
  /\ UNCHANGED <<opt, patterns, fin, z, w, seed, junk, offset, dev, dirty, result,
                 faults, ghost>>

\* dwipe_runmethod returns 1 after non-fatal errors and 0 without any.
Finish ==
  /\ pc = "end"
  /\ c' = [c EXCEPT !.pass_type = "none"]
  /\ Return(IF c.pass_errors > 0 \/ c.verify_errors > 0 THEN 1 ELSE 0)
  /\ UNCHANGED <<opt, patterns, i, fin, z, w, seed, junk, offset, dev, dirty, faults>>

\* The process is gone.
Gone == pc = "done" /\ UNCHANGED vars

Next ==
  \/ StartMethod \/ MethodFails
  \/ StartRound \/ StartPass \/ StartWildPass \/ StartFinal \/ PassFails \/ NoEntropy
  \/ WriteBlock \/ WriteError \/ SyncAfterWrite \/ EndPass
  \/ StartVerify \/ EndVerifySync \/ ReadBlock \/ ReadError \/ EndVerify
  \/ Finish \/ Gone

\* The process is never descheduled for ever: a system call returns.
Spec     == Init /\ [][Next]_vars
FairSpec == Spec /\ WF_vars(Next)

-----------------------------------------------------------------------------
(***************************************************************************)
(* Properties.                                                             *)
(***************************************************************************)

\* The types; the window of a static pass stays inside one pattern, so that the
\* block taken at it ends inside the buffer of a pattern and two blocks.
TypeOK ==
  /\ opt \in Options
  /\ pc \in {"method", "rounds", "write", "wsync", "verify", "vsync", "read",
             "end", "done"}
  /\ c.pass_type \in {"none", "write", "verify", "final_blank", "final_ops2"}
  /\ \A f \in DOMAIN c \ {"pass_type"} : c[f] \in Nat
  /\ i \in 0 .. Len(patterns) /\ fin \in BOOLEAN
  /\ z \in 0 .. Size /\ seed \in Nat /\ junk \in JunkValues
  /\ w \in Nat
  /\ pc \in {"write", "read"} /\ Pattern.length > 0 => w < Pattern.length
  /\ offset \in 0 .. Size
  /\ dev \in [Offsets -> {Old} \union {Chr(b) : b \in Byte}
                        \union {Junk(v) : v \in JunkValues}
                        \union {Rnd(sd, x) : sd \in 0 .. seed, x \in Offsets}]
  /\ dirty \in BOOLEAN
  /\ result \in {-1, 0, 1, Segv}
  /\ faults \in 0 .. MaxFaults

Exited(rs) == pc = "done" /\ result \in rs

\* What the byte at x holds once the current pattern is on the device.
Wanted(x) == IF Pattern.length > 0 THEN Chr(Pattern.s[(x % Pattern.length) + 1])
                                   ELSE Rnd(seed, x)

\* However the pattern length and the I/O size divide each other, a complete
\* write pass leaves the pattern, in phase, on every byte (the window
\* arithmetic of dwipe_static_pass, the stream of dwipe_random_pass).
PassWritesPattern ==
  pc = "wsync" /\ ghost.lost = {} => \A x \in Offsets : dev[x] = Wanted(x)

\* Exit value 0 with the last pass verified: every byte of the device holds the
\* final pattern, whatever writes the device lost.  Without a verification the
\* same holds of a device that lost none.
SuccessMeansFinalPattern ==
  Exited({0}) /\ (VerifyLast \/ ghost.lost = {}) =>
    \A x \in Offsets : dev[x] = Wanted(x)

\* With every pass verified, exit value 0 means that no write of any pass was
\* lost: verify_errors of an early pass survives until the return value.
VerifyAllCatchesLoss == Exited({0}) /\ VerifyAll => ghost.lost = {}

\* A method that returns 0 or 1 has overwritten every byte once per pattern and
\* round, and once more in the final pass.
PromisedOverwrites ==
  Exited({0, 1}) =>
    \A x \in Offsets : ghost.overwrites[x] = opt.rounds * Len(patterns) + 1

\* Unless fdatasync itself failed, no written byte is still unflushed when the
\* method returns 0 or 1.
FlushedAtExit == Exited({0, 1}) /\ dirty => ghost.unflushed

\* The Gutmann wipe makes a pass with every pattern of the book, each as often as
\* the book has it: the shuffle (method.c:295) neither repeats an element nor
\* runs off the end of the book.
GutmannUsesBookOnce ==
  opt.method = "gutmann" /\ patterns # <<>> =>
    \A p \in Range(patterns) \union Range(Book) :
      Cardinality({k \in DOMAIN patterns : patterns[k] = p})
        = Cardinality({k \in DOMAIN Book : Book[k] = p})

\* The method implements what the parent relies on: the progress it shows never
\* passes the plan it announced (round_size counts the reads of every verify
\* option and the final pass), and is exactly complete when it returns 0 or 1.
Process == INSTANCE WipeProcess WITH
             Fatal   <- {-1, Segv},
             running <- pc # "done",
             plan    <- c.round_size,
             done    <- c.round_done,
             exit    <- result

ImplementsWipeProcess == Process!Spec

\* Whatever the device does, the process comes to its exit.
WipeEnds == <>(pc = "done")

(***************************************************************************)
(* What comments of the source say and the code does not do.               *)
(***************************************************************************)

\* A random pass without losses leaves the PRNG stream on the device, for each
\* PRNG offered (pass.c:288, "Fill the output buffer with the random pattern").
RandomPassWritesStream ==
  pc = "wsync" /\ ghost.lost = {} /\ Pattern.length < 0 =>
    \A x \in Offsets : dev[x] = Wanted(x)

\* "We need eight pattern elements per round" (method.c:390): OPS-II passes use
\* initialised elements only.
Ops2PatternsFilled ==
  opt.method = "ops2" /\ pc # "method" => Len(patterns) = 8 * opt.rounds

\* "We finished, but with non-fatal wipe errors" (method.c:777): a transfer that was
\* short, as "TODO: Handle a partial write" (pass.c:305) counts it, is not fatal when
\* nothing else went wrong, and the method returns 1.
ShortTransferIsNonFatal == pc = "done" /\ ghost.short /\ faults = 1 => result = 1

\* What the code does instead: the bytes a short transfer skipped stay in z, so that
\* the pass runs into the end of the device and the method returns -1.
ShortTransferIsFatal == pc = "done" /\ ghost.short => result = -1
=============================================================================
