----------------------------- MODULE DwipeStatus -----------------------------
(***************************************************************************)
(* dwipe_gui_status and dwipe_update_speedring of dwipe/gui.c: what the     *)
(* parent computes, between two sweeps, from the progress a running process *)
(* leaves in shared memory.  One device stands for all: each has a ring of  *)
(* its own.  The clock and the process move on between the reads of a call. *)
(***************************************************************************)
EXTENDS Integers, Sequences, FiniteSetsExt

CONSTANTS
  RingSize,      \* DWIPE_KNOB_SPEEDRING_SIZE (30 in C)
  Granularity,   \* DWIPE_KNOB_SPEEDRING_GRANULARITY, in seconds (10 in C)
  RoundSize,     \* round_size of the device, in bytes
  Rate,          \* the most bytes a process moves in a second
  Count,         \* the contexts in the array
  Slots,         \* how many of them the window shows
  MaxTime        \* bounds the clock

ASSUME StatusAssumption ==
  /\ RingSize \in Nat \ {0}
  /\ Granularity \in Nat \ {0}
  /\ RoundSize \in Nat /\ Rate \in 0 .. RoundSize
  /\ Count \in Nat \ {0} /\ Slots \in Nat \ {0}
  /\ MaxTime \in Nat \ {0}

VARIABLES
  time,        \* the clock, one second per step, never zero
  round_done,  \* the progress in shared memory
  running,     \* pid > 0
  pc,          \* clock, sample or estimate: what the call does next; or dead
  now,         \* dwipe_time_now
  speedring,
  throughput,
  eta,
  offset,      \* how many devices are scrolled off the top
  samples      \* history: the remembered samples, read by the properties only

vars == <<time, round_done, running, pc, now, speedring, throughput, eta, offset,
          samples>>

Positions == 0 .. RingSize - 1

Init ==
  /\ time = 1
  /\ round_done \in 0 .. Rate
  /\ running = TRUE
  /\ pc = "clock"
  /\ now = 0
  /\ speedring = [bytes |-> [k \in Positions |-> 0], bytestotal |-> 0, byteslast |-> 0,
                  times |-> [k \in Positions |-> 0], timestotal |-> 0, timeslast |-> 0,
                  position |-> 0]
  /\ throughput = 0 /\ eta = 0 /\ offset = 0
  /\ samples = <<>>

\* A second goes by; the process moves some bytes, or none.
Tick ==
  /\ time < MaxTime /\ pc # "dead"
  /\ time' = time + 1
  /\ round_done' \in {b \in round_done .. round_done + Rate :
                        b <= RoundSize /\ (running \/ b = round_done)}
  /\ UNCHANGED <<running, pc, now, speedring, throughput, eta, offset, samples>>

\* The process is reaped, between two calls.
Reaped ==
  /\ pc = "clock" /\ running
  /\ running' = FALSE
  /\ UNCHANGED <<time, round_done, pc, now, speedring, throughput, eta, offset, samples>>

ReadClock ==
  /\ pc = "clock"
  /\ now' = time
  /\ pc' = "key"
  /\ UNCHANGED <<time, round_done, running, speedring, throughput, eta, offset, samples>>

-----------------------------------------------------------------------------
\* Mutant: the window may scroll past the last device.
ScrolledDownFar ==
  IF Count < Slots THEN 0
  ELSE IF offset + 1 + Slots > Count + 1 THEN Count - Slots ELSE offset + 1

ScrolledDown ==
  IF Count < Slots THEN 0
  ELSE IF offset + 1 + Slots > Count THEN Count - Slots ELSE offset + 1

ScrolledUp == IF offset = 0 THEN 0 ELSE offset - 1

\* getch() waits up to a second for a key.
Key ==
  /\ pc = "key"
  /\ offset' \in {offset, ScrolledDown, ScrolledUp}
  /\ pc' = IF running THEN "sample" ELSE "clock"
  /\ UNCHANGED <<time, round_done, running, now, speedring, throughput, eta, samples>>

\* Mutants: the last slot is never used; the position is not wrapped; the oldest
\* sample stays in the totals.
FollowingShort(p)     == IF p + 1 >= RingSize - 1 THEN 0 ELSE p + 1
FollowingUnwrapped(p) == p + 1
RecordedOver(s, b, t) ==
  LET p == s.position
  IN  [s EXCEPT !.bytes[p] = b - s.byteslast, !.times[p] = t - s.timeslast,
                !.bytestotal = @ + (b - s.byteslast), !.timestotal = @ + (t - s.timeslast),
                !.byteslast = b, !.timeslast = t]

\* The slot after p.
Following(p) == IF p + 1 >= RingSize THEN 0 ELSE p + 1

\* The new sample takes the place of the oldest one, in the ring and in the totals.
Recorded(s, b, t) ==
  LET p == s.position
      d == b - s.byteslast
      e == t - s.timeslast
  IN  [s EXCEPT !.bytes[p] = d, !.times[p] = e,
                !.bytestotal = (@ - s.bytes[p]) + d, !.timestotal = (@ - s.times[p]) + e,
                !.byteslast = b, !.timeslast = t]

\* dwipe_update_speedring.  The bytes are read later than the clock.
Sample ==
  /\ pc = "sample"
  /\ LET s == speedring
     IN  IF s.timeslast = 0
         THEN /\ speedring' = [s EXCEPT !.timeslast = now]
              /\ samples' = <<[at |-> now, bytes |-> 0]>>
         ELSE IF now - s.timeslast < Granularity
         THEN UNCHANGED <<speedring, samples>>
         ELSE /\ speedring' = [Recorded(s, round_done, now) EXCEPT !.position = Following(@)]
              /\ samples' = Append(samples, [at |-> now, bytes |-> round_done])
  /\ pc' = "estimate"
  /\ UNCHANGED <<time, round_done, running, now, throughput, eta, offset>>

Average == speedring.bytestotal \div speedring.timestotal

\* The average throughput and the time left; with a throughput of zero the second
\* division traps, and the parent is gone.
Estimate ==
  /\ pc = "estimate"
  /\ IF speedring.timestotal = 0 THEN pc' = "clock" /\ UNCHANGED <<throughput, eta>>
     ELSE /\ throughput' = Average
          /\ IF Average = 0 THEN pc' = "dead" /\ UNCHANGED eta
             ELSE pc' = "clock" /\ eta' = (RoundSize - round_done) \div Average
  /\ UNCHANGED <<time, round_done, running, now, speedring, offset, samples>>

Stopped == (pc = "dead" \/ time = MaxTime) /\ UNCHANGED vars

Next == Tick \/ Reaped \/ ReadClock \/ Key \/ Sample \/ Estimate \/ Stopped

Spec == Init /\ [][Next]_vars

-----------------------------------------------------------------------------
(***************************************************************************)
(* Properties.                                                             *)
(***************************************************************************)

\* The types; the totals, which are unsigned in C, never go below zero.
TypeOK ==
  /\ time \in 1 .. MaxTime /\ now \in 0 .. time
  /\ round_done \in 0 .. RoundSize
  /\ running \in BOOLEAN
  /\ pc \in {"clock", "key", "sample", "estimate", "dead"}
  /\ speedring \in [bytes : [Positions -> Nat], bytestotal : Nat, byteslast : Nat,
                    times : [Positions -> Nat], timestotal : Nat, timeslast : Nat,
                    position : Positions]
  /\ throughput \in Nat /\ eta \in Nat
  /\ offset \in 0 .. Count
  /\ samples \in Seq([at : Nat, bytes : Nat])

\* The accumulators, which are never recomputed, equal the sums of the ring,
\* however often it has wrapped.
TotalsAreSums ==
  /\ speedring.bytestotal = MapThenSumSet(LAMBDA k : speedring.bytes[k], Positions)
  /\ speedring.timestotal = MapThenSumSet(LAMBDA k : speedring.times[k], Positions)

\* The totals span exactly the last RingSize samples, or all there are: the
\* average is of the recent past, and no second is counted twice or lost.
TotalsSpanWindow ==
  samples # <<>> =>
    LET n      == Len(samples)
        oldest == samples[IF n > RingSize THEN n - RingSize ELSE 1]
    IN  /\ speedring.bytestotal = samples[n].bytes - oldest.bytes
        /\ speedring.timestotal = samples[n].at - oldest.at

\* No line is drawn from beyond the array, and no key scrolls a list that fits.
ScrollInRange == offset = 0 \/ offset + Slots <= Count
=============================================================================
