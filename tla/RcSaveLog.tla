------------------------------ MODULE RcSaveLog ------------------------------
(***************************************************************************)
(* What goes on once in.root/rc has told the outcome: at each ENTER it saves *)
(* the log on a diskette (dbanSaveLog), and the user changes diskettes in    *)
(* between.  Wipe processes that outlived dwipe go on appending lines with   *)
(* dwipe_log of dwipe/logging.c while the script moves their log directory.  *)
(***************************************************************************)
EXTENDS Integers, Sequences, FiniteSets

CONSTANTS
  MaxSuffix,   \* the last number of an archive: 9999, for 8.3 names
  Writers,     \* the wipe processes that are still running
  MaxLines,    \* bounds the log calls of one process
  LogMayFill,  \* whether the scratch file system of /log may run out of space
  Diskettes    \* the diskettes the user may put into the drive

Names == 0 .. MaxSuffix

\* What a name on a diskette stands for: nothing, an archive cut short, or one
\* with the first n lines of the log.
Free     == -2
CutShort == -1

ASSUME SaveLogAssumption ==
  /\ MaxSuffix \in Nat
  /\ MaxLines \in Nat
  /\ LogMayFill \in BOOLEAN
  /\ Diskettes \subseteq
       [dos   : BOOLEAN,                     \* a DOS file system is on it
        tab   : BOOLEAN,                     \* the write-protect tab is set
        space : Nat,                         \* how many archives still fit
        dir   : {"none", "dir", "file"},     \* what has the name dbanlog
        files : [Names -> {Free, CutShort}]]
  /\ Diskettes # {}

VARIABLES
  diskette,   \* the diskette in the drive
  mounted,    \* what /proc/mounts says of /floppy: no, ro, rw
  pc,         \* where dbanSaveLog is; "prompt" when it waits for ENTER
  suffix,     \* DBAN_LOG_SUFFIX
  moved,      \* whether /log/dban has been renamed
  log,        \* the lines in dwipe's log file, by the process that wrote them
  tar, gz,    \* the archives left in /log under each name: Free or lines
  told,       \* what the last save told the user
  before,     \* history: how long the log was at the last ENTER
  failed,     \* history: tar or gzip failed in the save under way or the last one
  call,       \* where each process is in dwipe_log
  lock,       \* the holders of the flock
  calls,      \* history: how many calls of dwipe_log each process finished...
  reported    \* ... and how many of them complained on stderr instead

saveVars == <<diskette, mounted, pc, suffix, moved, tar, gz, told, before, failed>>
logVars  == <<log, call, lock, calls, reported>>
vars     == <<saveVars, logVars>>

-----------------------------------------------------------------------------
\* The seed search at boot may have left the floppy mounted (rc:322).
Init ==
  /\ diskette \in Diskettes
  /\ mounted \in {"no", "rw"}
  /\ pc = "prompt"
  /\ suffix = 0
  /\ moved = FALSE
  /\ log = <<>>
  /\ tar = [n \in Names |-> Free]
  /\ gz = [n \in Names |-> Free]
  /\ told = "nothing"
  /\ before = 0
  /\ failed = FALSE
  /\ call = [p \in Writers |-> "out"]
  /\ lock = {}
  /\ calls = [p \in Writers |-> 0]
  /\ reported = [p \in Writers |-> 0]

\* The user takes the diskette out and puts another one in, or moves its tab.
SwapDiskette ==
  /\ pc = "prompt"
  /\ \E d \in Diskettes \union {[diskette EXCEPT !.tab = ~@]} : diskette' = d
  /\ UNCHANGED <<mounted, pc, suffix, moved, tar, gz, told, before, failed, logVars>>

Say(what) == told' = what /\ pc' = "prompt"

\* ENTER.  A floppy that is still mounted is not mounted again.
Mount ==
  /\ pc = "prompt"
  /\ before' = Len(log)
  /\ failed' = FALSE
  /\ IF diskette.dos /\ mounted = "no"
     THEN /\ mounted' = (IF diskette.tab THEN "ro" ELSE "rw")
          /\ pc' = "check"
          /\ UNCHANGED told
     ELSE Say("no DOS diskette") /\ UNCHANGED mounted
  /\ UNCHANGED <<diskette, suffix, moved, tar, gz, logVars>>

\* A read-only floppy is told, and left mounted; so is one on which the name of
\* the directory is a file's, or the directory does not fit.
CheckFloppy ==
  /\ pc = "check"
  /\ LET dir == IF diskette.dir = "none" /\ diskette.space > 0 THEN "dir"
                ELSE diskette.dir
     IN  IF mounted = "ro" THEN Say("read-only") /\ UNCHANGED <<diskette, suffix>>
         ELSE /\ diskette' = [diskette EXCEPT !.dir = dir]
              /\ IF dir = "dir" THEN pc' = "name" /\ suffix' = 0 /\ UNCHANGED told
                                ELSE Say("a file is in the way") /\ UNCHANGED suffix
  /\ UNCHANGED <<mounted, moved, tar, gz, before, failed, logVars>>

\* Mutant: the number after the last one is used too.
TooManyLate(n) == n > MaxSuffix + 1

\* "Check the corner case of the 8.3 msdos filesystem."
TooMany(n) == n > MaxSuffix

\* Mutant: the first name is used without a look at the diskette.
TakenNever(n) == FALSE

\* test -f, on the diskette that is mounted.
Taken(n) == n \in Names /\ diskette.files[n] # Free

\* One turn of the loop that looks for a free name, or its end.
FindName ==
  /\ pc = "name"
  /\ IF Taken(suffix)
     THEN /\ suffix' = suffix + 1
          /\ IF TooMany(suffix + 1) THEN Say("too many log files")
                                    ELSE UNCHANGED <<told, pc>>
     ELSE pc' = "rename" /\ UNCHANGED <<suffix, told>>
  /\ UNCHANGED <<diskette, mounted, moved, tar, gz, before, failed, logVars>>

\* The log directory gets the name of the archive.
Rename ==
  /\ pc = "rename"
  /\ moved' = TRUE
  /\ pc' = "tar"
  /\ UNCHANGED <<diskette, mounted, suffix, tar, gz, told, before, failed, logVars>>

\* tar reads the log as it is now.  If /log is full it cannot create the archive, or
\* goes on with the next file and leaves one cut short; its status is not looked at.
Tar ==
  /\ pc = "tar"
  /\ \/ tar' = [tar EXCEPT ![suffix] = Len(log)] /\ UNCHANGED failed
     \/ /\ LogMayFill /\ failed' = TRUE
        /\ \/ tar' = [tar EXCEPT ![suffix] = CutShort]
           \/ tar[suffix] = Free /\ UNCHANGED tar
  /\ pc' = "gzip"
  /\ UNCHANGED <<diskette, mounted, suffix, moved, gz, told, before, logVars>>

\* gzip needs its input, and creates its output with O_EXCL.
CanCompress == tar[suffix] # Free /\ gz[suffix] = Free

\* An archive that could not be moved in an earlier save stays what it was, and the
\* new one stays uncompressed beside it; so it does if /log is full, with no output
\* or one cut short.  The status is not looked at either.
Gzip ==
  /\ pc = "gzip"
  /\ \/ /\ CanCompress
        /\ gz' = [gz EXCEPT ![suffix] = tar[suffix]]
        /\ tar' = [tar EXCEPT ![suffix] = Free]
        /\ UNCHANGED failed
     \/ /\ ~CanCompress \/ LogMayFill
        /\ failed' = TRUE
        /\ UNCHANGED <<tar, gz>>
     \/ /\ CanCompress /\ LogMayFill
        /\ gz' = [gz EXCEPT ![suffix] = CutShort]
        /\ failed' = TRUE
        /\ UNCHANGED tar
  /\ pc' = "move"
  /\ UNCHANGED <<diskette, mounted, suffix, moved, told, before, logVars>>

\* mv copies to the diskette and removes the source; a copy that runs out of space
\* leaves what it has written, and the source.  Without a source it fails alike.
Move ==
  /\ pc = "move"
  /\ IF gz[suffix] # Free /\ diskette.space > 0
     THEN /\ diskette' = [diskette EXCEPT !.files[suffix] = gz[suffix], !.space = @ - 1]
          /\ gz' = [gz EXCEPT ![suffix] = Free]
          /\ told' = "saved"
     ELSE /\ diskette' = IF gz[suffix] = Free THEN diskette
                         ELSE [diskette EXCEPT !.files[suffix] = CutShort]
          /\ told' = "full"
          /\ UNCHANGED gz
  /\ pc' = "umount"
  /\ UNCHANGED <<mounted, suffix, moved, tar, before, failed, logVars>>

\* Mutant: the archive was moved, so it is told to be saved.
ToldUnmounted == told

\* What is told when umount fails.
ToldMounted == IF told = "saved" THEN "failed" ELSE told

\* Either branch unmounts; if that fails it warns and forces it, and ignores
\* whether that worked.
Umount ==
  /\ pc = "umount"
  /\ \/ mounted' = "no" /\ UNCHANGED told
     \/ mounted' \in {"no", mounted} /\ told' = ToldMounted
  /\ pc' = "restore"
  /\ UNCHANGED <<diskette, suffix, moved, tar, gz, before, failed, logVars>>

\* Mutant: the directory keeps the name of an archive that was not saved.
RenamedBackIfSaved == moved' = (told # "saved")

\* "Change the log directory name back in case we get called again."
RenamedBack == moved' = FALSE

Restore ==
  /\ pc = "restore"
  /\ RenamedBack
  /\ pc' = "prompt"
  /\ UNCHANGED <<diskette, mounted, suffix, tar, gz, told, before, failed, logVars>>

Script == \/ Mount \/ CheckFloppy \/ FindName \/ Rename \/ Tar \/ Gzip \/ Move
          \/ Umount \/ Restore

-----------------------------------------------------------------------------
\* dwipe_log returns; a call that could not log complains on stderr.
LeaveLog(p, complaints) ==
  /\ call' = [call EXCEPT ![p] = "out"]
  /\ calls' = [calls EXCEPT ![p] = @ + 1]
  /\ reported' = [reported EXCEPT ![p] = @ + complaints]

\* fopen finds the file under /log/dban, or nothing at all.
OpenLog(p) ==
  /\ call[p] = "out" /\ calls[p] < MaxLines
  /\ IF moved THEN LeaveLog(p, 1)
              ELSE call' = [call EXCEPT ![p] = "opened"] /\ UNCHANGED <<calls, reported>>
  /\ UNCHANGED <<saveVars, log, lock>>

\* flock waits for the lock, or fails, which abandons the stream.
LockLog(p) ==
  /\ call[p] = "opened"
  /\ \/ lock = {} /\ lock' = {p} /\ call' = [call EXCEPT ![p] = "locked"]
        /\ UNCHANGED <<calls, reported>>
     \/ LeaveLog(p, 1) /\ UNCHANGED lock
  /\ UNCHANGED <<saveVars, log>>

\* The line is printed into the buffer of the stream, and the lock given back.
UnlockLog(p) ==
  /\ call[p] = "locked"
  /\ lock' = lock \ {p}
  /\ call' = [call EXCEPT ![p] = "unlocked"]
  /\ UNCHANGED <<saveVars, log, calls, reported>>

\* fclose appends the buffered line to the file, whatever name that has now, or
\* finds the scratch file system full.
FlushedLog(p) ==
  \/ log' = Append(log, p) /\ LeaveLog(p, 0)
  \/ LogMayFill /\ log' = log /\ LeaveLog(p, 1)

CloseLog(p) ==
  /\ call[p] = "unlocked"
  /\ FlushedLog(p)
  /\ UNCHANGED <<saveVars, lock>>

Writer(p) == OpenLog(p) \/ LockLog(p) \/ UnlockLog(p) \/ CloseLog(p)

Next == SwapDiskette \/ Script \/ (\E p \in Writers : Writer(p))

Spec == Init /\ [][Next]_vars

-----------------------------------------------------------------------------
(***************************************************************************)
(* Properties.                                                             *)
(***************************************************************************)
Contents == {Free, CutShort} \union 0 .. Len(log)

\* The types; every name the script uses fits in four digits, and an archive
\* never holds more than was logged.
TypeOK ==
  /\ diskette.files \in [Names -> Contents]
  /\ diskette.space \in Nat /\ diskette.dir \in {"none", "dir", "file"}
  /\ diskette.dos \in BOOLEAN /\ diskette.tab \in BOOLEAN
  /\ mounted \in {"no", "ro", "rw"}
  /\ pc \in {"prompt", "check", "name", "rename", "tar", "gzip", "move", "umount",
             "restore"}
  /\ suffix \in Nat
  /\ pc \notin {"prompt", "check"} => suffix \in Names
  /\ moved \in BOOLEAN /\ failed \in BOOLEAN
  /\ log \in Seq(Writers)
  /\ tar \in [Names -> Contents] /\ gz \in [Names -> Contents]
  /\ before \in 0 .. Len(log)
  /\ call \in [Writers -> {"out", "opened", "locked", "unlocked"}]
  /\ lock \in SUBSET Writers
  /\ calls \in [Writers -> Nat] /\ reported \in [Writers -> Nat]

\* When a log is told to be saved, the diskette is unmounted; and if tar and gzip
\* did not fail in this save, which the script does not ask (rc:97-98), it holds
\* under the name told every line logged up to the ENTER, however processes logged
\* meanwhile and whatever earlier saves left in /log.
SavedUnlessFailed ==
  pc = "restore" /\ told = "saved" =>
    /\ mounted = "no"
    /\ ~failed => diskette.files[suffix] >= before

\* No save touches an archive that the diskette has, complete or cut short.
ArchivesAreKept ==
  [][\A n \in Names :
       pc # "prompt" /\ diskette.files[n] # Free =>
         diskette'.files[n] = diskette.files[n]]_vars

\* Every line that a process logged is in the log file or was complained of, in
\* whatever way calls, saves and failures interleave; and the directory is back
\* at each prompt, so that a line finds no file only while a save is going on.
NoLineLost ==
  /\ \A p \in Writers :
       calls[p] = reported[p] + Cardinality({k \in DOMAIN log : log[k] = p})
  /\ pc = "prompt" => ~moved

(***************************************************************************)
(* What a message of the script says and the code does not do.             *)
(***************************************************************************)

\* "saved dbanNNNN.tgz" (rc:102): the archive of that name has the log, with every
\* line logged up to the ENTER.
SavedIsComplete == pc = "restore" /\ told = "saved" => diskette.files[suffix] >= before
=============================================================================
