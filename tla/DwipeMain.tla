------------------------------ MODULE DwipeMain ------------------------------
(***************************************************************************)
(* main() of dwipe/dwipe.c: it enumerates the devices, lets the user select *)
(* some, forks one wipe process per selected device, polls them with        *)
(* waitpid(WNOHANG), draws the status and returns an exit value.  The       *)
(* processes run concurrently with the parent.  What a process may do is    *)
(* the specification WipeProcess, which DwipeMethod implements.             *)
(***************************************************************************)
EXTENDS Integers, FiniteSets

CONSTANTS
  N,             \* the number of devices named or scanned
  Named,         \* whether the devices are named on the command line
  Signals,       \* the signals that may kill a process
  ForkMayFail,   \* whether fork() may run out of processes or memory
  WaitMayFail,   \* whether waitpid() may return an error
  MayStall       \* whether the status window may divide by a zero throughput

Devices == 1 .. N

ASSUME MainAssumption ==
  /\ N \in Nat
  /\ Signals \subseteq 1 .. 126
  /\ Named \in BOOLEAN
  /\ ForkMayFail \in BOOLEAN
  /\ WaitMayFail \in BOOLEAN
  /\ MayStall \in BOOLEAN

VARIABLES
  probe,     \* what enumeration finds at each device
  autonuke,  \* dwipe_options.autonuke
  pc,        \* where the parent is
  todo,      \* the devices the running loop has still to visit
  select,    \* the select member of each context
  err,       \* dwipe_error > 0
  pid,       \* the pid member: 0, -1, or positive
  child,     \* each device's process: none, running, exited (a zombie), reaped
  exit,      \* how the process ended: its return value, or minus its signal
  res,       \* the result member
  sig,       \* the signal member
  wait,      \* dwipe_wait
  shown,     \* what the status window says of each device
  code       \* the exit status the shell sees

vars == <<probe, autonuke, pc, todo, select, err, pid, child, exit, res, sig,
          wait, shown, code>>

-----------------------------------------------------------------------------
Probes  == {"disk", "partition", "unopenable", "broken"}
Choices == {"TRUE", "TRUE_PARENT", "FALSE", "FALSE_CHILD"}
Selects == Choices \union {"NONE", "DISABLED"}

\* The return values of a wipe method, and how exits are kept apart here.
MethodResults == {-1, 0, 1}
Killed(s)     == -(s + 1)            \* below -1, so that no return value is one
Exits         == MethodResults \union {Killed(s) : s \in Signals}
WasKilled(e)  == e < -1

\* exit() keeps eight bits of a return value.
ExitStatus(r) == r % 256

\* What a shell reports of a process that a signal killed.
ShellStatus(s) == 128 + s
SIGABRT == 6
SIGFPE  == 8
SIGSEGV == 11

\* The errno values main() returns: no entropy source, no child, no memory, and a
\* shared segment of no bytes.
ENOENT == 2
ECHILD == 10
ENOMEM == 12
EINVAL == 22

\* Every process has a positive number; the parent never compares two.
Pid == 1

Selected == {d \in Devices : select[d] = "TRUE"}

\* The loops visit their devices in the order of the array.
First(S) == CHOOSE d \in S : \A e \in S : d <= e

Exit(status) ==
  /\ pc' = "done"
  /\ code' = status

-----------------------------------------------------------------------------
Init ==
  /\ probe \in [Devices -> Probes]
  /\ autonuke \in BOOLEAN
  /\ pc = "enumerate"
  /\ todo = Devices
  /\ select = [d \in Devices |-> "NONE"]
  /\ err = FALSE
  /\ pid = [d \in Devices |-> 0]
  /\ child = [d \in Devices |-> "none"]
  /\ exit = [d \in Devices |-> 0]
  /\ res = [d \in Devices |-> 0]
  /\ sig = [d \in Devices |-> 0]
  /\ wait = 0
  /\ shown = [d \in Devices |-> "nothing"]
  /\ code = 0

\* The entropy source cannot be opened, or the contexts not allocated.
SetupFails ==
  /\ pc = "enumerate" /\ todo = Devices
  /\ \E errno \in {ENOENT, ENOMEM} : Exit(errno)
  /\ UNCHANGED <<probe, autonuke, todo, select, err, pid, child, exit, res, sig,
                 wait, shown>>

\* The select member enumeration gives to a device.
Selection(p) ==
  CASE p = "unopenable"             -> "DISABLED"
    [] p = "broken"                 -> "NONE"
    [] p = "disk" /\ autonuke       -> "TRUE"
    [] p = "partition" /\ autonuke  -> "TRUE_PARENT"
    [] OTHER                        -> "FALSE"

\* One turn of the enumeration loop.  A device that cannot be opened is only
\* disabled; one that opens but has no usable type or size counts an error.
Enumerate ==
  /\ pc = "enumerate" /\ todo # {}
  /\ LET d == First(todo)
     IN  /\ select' = [select EXCEPT ![d] = Selection(probe[d])]
         /\ err' = (err \/ probe[d] = "broken")
         /\ todo' = todo \ {d}
  /\ UNCHANGED <<probe, autonuke, pc, pid, child, exit, res, sig, wait, shown, code>>

\* Mutant: the error count is not looked at.
MayGoOnAnyway == N > 0

\* No device at all, or any enumeration error, ends the program.
MayGoOn == N > 0 /\ ~err

EnumerationFails ==
  /\ pc = "enumerate" /\ todo = {} /\ ~MayGoOn
  /\ Exit(ExitStatus(-1))
  /\ UNCHANGED <<probe, autonuke, todo, select, err, pid, child, exit, res, sig,
                 wait, shown>>

\* The user selects devices, unless autonuke did; a disabled one stays so.
Choose ==
  /\ pc = "enumerate" /\ todo = {} /\ MayGoOn
  /\ IF autonuke THEN UNCHANGED select
     ELSE /\ select' \in [Devices -> Choices \union {"DISABLED"}]
          /\ \A d \in Devices : select'[d] = "DISABLED" <=> select[d] = "DISABLED"
  /\ pc' = "share"
  /\ UNCHANGED <<probe, autonuke, todo, err, pid, child, exit, res, sig, wait, shown,
                 code>>

\* A shared segment for no contexts is refused, which ends the program.
ShareNothing ==
  /\ pc = "share" /\ Selected = {}
  /\ Exit(EINVAL)
  /\ UNCHANGED <<probe, autonuke, todo, select, err, pid, child, exit, res, sig,
                 wait, shown>>

\* The segment is refused for want of memory; or it cannot be attached, which the
\* comparison c2 < 0 of a pointer never notices.
ShareFails ==
  /\ pc = "share" /\ Selected # {}
  /\ \E status \in {ENOMEM, ShellStatus(SIGSEGV)} : Exit(status)
  /\ UNCHANGED <<probe, autonuke, todo, select, err, pid, child, exit, res, sig,
                 wait, shown>>

\* The name of a device that was not selected is freed, although a name from the
\* command line was never allocated: undefined behaviour, caught or not.
FreeTraps ==
  /\ Named
  /\ pc = "share" /\ Selected \notin {{}, Devices}
  /\ Exit(ShellStatus(SIGABRT))
  /\ UNCHANGED <<probe, autonuke, todo, select, err, pid, child, exit, res, sig,
                 wait, shown>>

Share ==
  /\ pc = "share" /\ Selected # {}
  /\ pc' = "fork"
  /\ todo' = Selected
  /\ UNCHANGED <<probe, autonuke, select, err, pid, child, exit, res, sig, wait,
                 shown, code>>

-----------------------------------------------------------------------------
\* fork() makes the process of the next device...
Fork ==
  /\ pc = "fork" /\ todo # {}
  /\ LET d == First(todo)
     IN  /\ pid' = [pid EXCEPT ![d] = Pid]
         /\ child' = [child EXCEPT ![d] = "running"]
         /\ todo' = todo \ {d}
  /\ UNCHANGED <<probe, autonuke, pc, select, err, exit, res, sig, wait, shown, code>>

\* ... or returns -1, which the parent stores as if it were a process.
ForkFails ==
  /\ ForkMayFail
  /\ pc = "fork" /\ todo # {}
  /\ LET d == First(todo)
     IN  /\ pid' = [pid EXCEPT ![d] = -1]
         /\ todo' = todo \ {d}
  /\ UNCHANGED <<probe, autonuke, pc, select, err, child, exit, res, sig, wait,
                 shown, code>>

ForkedAll ==
  /\ pc = "fork" /\ todo = {}
  /\ pc' = "loop"
  /\ UNCHANGED <<probe, autonuke, todo, select, err, pid, child, exit, res, sig, wait,
                 shown, code>>

\* A wipe process returns from its method, or is killed.
ChildExits(d) ==
  /\ child[d] = "running"
  /\ child' = [child EXCEPT ![d] = "exited"]
  /\ \E e \in Exits : exit' = [exit EXCEPT ![d] = e]
  /\ UNCHANGED <<probe, autonuke, pc, todo, select, err, pid, res, sig, wait, shown,
                 code>>

-----------------------------------------------------------------------------
\* Mutant: one process may be left.
AllReturnedButOne == wait + 1 >= Cardinality(Selected)

\* The polling loop runs until every selected process was reaped.
AllReturned == wait >= Cardinality(Selected)

Sweep ==
  /\ pc = "loop" /\ ~AllReturned
  /\ pc' = "sweep"
  /\ todo' = Selected
  /\ UNCHANGED <<probe, autonuke, select, err, pid, child, exit, res, sig, wait,
                 shown, code>>

Finished ==
  /\ pc = "loop" /\ AllReturned
  /\ pc' = "report"
  /\ UNCHANGED <<probe, autonuke, todo, select, err, pid, child, exit, res, sig, wait,
                 shown, code>>

\* Mutants: a killed process has no result; a return value keeps its sign.
ReapedResultSigned(e) == IF WasKilled(e) THEN Pid ELSE e
ReapedResultUnkilled(e) == IF WasKilled(e) THEN 0 ELSE ExitStatus(e)

\* What a reaped process leaves in the result member: WEXITSTATUS of a return,
\* and of a killed process the number waitpid returned, that is its pid.
ReapedResult(e) == IF WasKilled(e) THEN Pid ELSE ExitStatus(e)

\* Mutant: a process that was already reaped is polled again.
PollableEver(d) == pid[d] >= 0

\* Only a process that is not reaped yet is polled.
Pollable(d) == pid[d] > 0

\* Mutant: the killed are not counted.
CountedReturns(d) == IF WasKilled(exit[d]) THEN wait ELSE wait + 1

\* Each reaped process counts once.
Counted(d) == wait + 1

\* waitpid(WNOHANG) finds the process alive: the result member becomes 0.
PollAlive ==
  /\ pc = "sweep" /\ todo # {}
  /\ LET d == First(todo)
     IN  /\ Pollable(d) /\ child[d] # "exited"
         /\ res' = [res EXCEPT ![d] = 0]
         /\ todo' = todo \ {d}
  /\ UNCHANGED <<probe, autonuke, pc, select, err, pid, child, exit, sig, wait, shown,
                 code>>

\* waitpid returns its number: it is reaped and its end decoded.
Reap ==
  /\ pc = "sweep" /\ todo # {}
  /\ LET d == First(todo)
     IN  /\ Pollable(d) /\ child[d] = "exited"
         /\ child' = [child EXCEPT ![d] = "reaped"]
         /\ pid' = [pid EXCEPT ![d] = 0]
         /\ res' = [res EXCEPT ![d] = ReapedResult(exit[d])]
         /\ sig' = [sig EXCEPT ![d] = IF WasKilled(exit[d]) THEN -exit[d] - 1 ELSE @]
         /\ wait' = Counted(d)
         /\ todo' = todo \ {d}
  /\ UNCHANGED <<probe, autonuke, pc, select, err, exit, shown, code>>

\* An error of waitpid ends the program at once.
PollFails ==
  /\ WaitMayFail
  /\ pc = "sweep" /\ todo # {} /\ Pollable(First(todo))
  /\ Exit(ECHILD)
  /\ UNCHANGED <<probe, autonuke, todo, select, err, pid, child, exit, res, sig,
                 wait, shown>>

PassOver ==
  /\ pc = "sweep" /\ todo # {}
  /\ LET d == First(todo)
     IN  /\ ~Pollable(d)
         /\ todo' = todo \ {d}
  /\ UNCHANGED <<probe, autonuke, pc, select, err, pid, child, exit, res, sig, wait,
                 shown, code>>

\* Mutant: the window takes the signal for the only sign of failure.
ShownOfSignal(d) ==
  CASE pid[d] > 0 -> "running"
    [] pid[d] <= 0 /\ sig[d] = 0 -> "success"
    [] OTHER -> "failure"

\* What dwipe_gui_status prints next to a device.
ShownOf(d) ==
  CASE pid[d] > 0 -> "running"
    [] pid[d] <= 0 /\ res[d] = 0 -> "success"
    [] OTHER -> "failure"

DrawStatus ==
  /\ pc = "sweep" /\ todo = {}
  /\ shown' = [d \in Devices |-> IF d \in Selected THEN ShownOf(d) ELSE shown[d]]
  /\ pc' = "loop"
  /\ UNCHANGED <<probe, autonuke, todo, select, err, pid, child, exit, res, sig, wait,
                 code>>

\* A device under way moved no byte for a whole ring of samples: its throughput
\* is zero and the estimate of the time left divides by it.
DrawStatusTraps ==
  /\ MayStall
  /\ pc = "sweep" /\ todo = {}
  /\ \E d \in Selected : pid[d] > 0
  /\ Exit(ShellStatus(SIGFPE))
  /\ UNCHANGED <<probe, autonuke, todo, select, err, pid, child, exit, res, sig, wait,
                 shown>>

\* Mutant: the second loop over the results stops at the first device.
TroubleFirst == Selected # {} /\ res[First(Selected)] > 0

\* The non-fatal errors main() looks for before it returns 0.
Trouble == \E d \in Selected : res[d] > 0

\* The return value of main(), after the results have been logged.
ReturnValue == IF \E d \in Selected : res[d] < 0 THEN -1
               ELSE IF Trouble THEN 1 ELSE 0

Report ==
  /\ pc = "report"
  /\ Exit(ExitStatus(ReturnValue))
  /\ UNCHANGED <<probe, autonuke, todo, select, err, pid, child, exit, res, sig, wait,
                 shown>>

Gone == pc = "done" /\ UNCHANGED vars

Parent ==
  \/ SetupFails \/ Enumerate \/ EnumerationFails \/ Choose \/ ShareNothing \/ ShareFails \/ FreeTraps \/ Share
  \/ Fork \/ ForkFails \/ ForkedAll
  \/ Sweep \/ PollAlive \/ Reap \/ PollFails \/ PassOver
  \/ DrawStatus \/ DrawStatusTraps \/ Finished \/ Report

Next == Parent \/ (\E d \in Devices : ChildExits(d)) \/ Gone

Spec == Init /\ [][Next]_vars

\* The kernel schedules the parent, whose getch() and waitpid() never block for
\* ever, and every wipe process comes to its exit (WipeEnds of DwipeMethod).
Fairness == WF_vars(Parent) /\ \A d \in Devices : WF_vars(ChildExits(d))
FairSpec == Spec /\ Fairness

-----------------------------------------------------------------------------
(***************************************************************************)
(* Properties.                                                             *)
(***************************************************************************)

\* The types; results and statuses are bytes, whatever their sources were.
TypeOK ==
  /\ probe \in [Devices -> Probes]
  /\ autonuke \in BOOLEAN
  /\ pc \in {"enumerate", "share", "fork", "loop", "sweep", "report", "done"}
  /\ todo \in SUBSET Devices
  /\ select \in [Devices -> Selects]
  /\ err \in BOOLEAN
  /\ pid \in [Devices -> {-1, 0, Pid}]
  /\ child \in [Devices -> {"none", "running", "exited", "reaped"}]
  /\ exit \in [Devices -> Exits \union {0}]
  /\ res \in [Devices -> 0 .. 255]
  /\ sig \in [Devices -> Signals \union {0}]
  /\ wait \in Nat
  /\ shown \in [Devices -> {"nothing", "running", "success", "failure"}]
  /\ code \in 0 .. 255

Reaped == {d \in Devices : child[d] = "reaped"}

\* dwipe_wait, which ends the polling loop, is the number of processes reaped:
\* no process is counted twice or missed, however exits and polls interleave.
WaitCountsReaped == wait = Cardinality(Reaped)

\* Exit status 0 is the truth: something was selected, and the process of every
\* selected device has run, was reaped and returned 0.  (dwipe.c:516)
SuccessIsTrue ==
  pc = "done" /\ code = 0 =>
    /\ Selected # {}
    /\ \A d \in Selected : child[d] = "reaped" /\ exit[d] = 0

\* The statuses main() computes from the results (0 and 1) are returned only
\* when no wipe process is left behind.
NoProcessLeft ==
  pc = "done" /\ code \in {0, 1} => \A d \in Devices : child[d] \in {"none", "reaped"}

\* One device that enumeration cannot make sense of stops the program before any
\* device is touched; one that cannot be opened is never wiped.
BrokenDeviceStopsAll ==
  \A d \in Devices :
    child[d] # "none" => /\ probe[d] # "unopenable"
                         /\ \A e \in Devices : probe[e] # "broken"

\* With autonuke, exit status 0 means that every disk that could be opened has a
\* process that was reaped and returned 0.
AutonukeWipesAllDisks ==
  pc = "done" /\ code = 0 /\ autonuke =>
    \A d \in Devices : probe[d] = "disk" => child[d] = "reaped" /\ exit[d] = 0

\* When the polling is over, the window's last picture is the final state: the
\* picture is drawn after the sweep that reaped the last process.
LastPictureIsFinal ==
  pc = "report" => \A d \in Selected : shown[d] = (IF exit[d] = 0 THEN "success"
                                                                ELSE "failure")

\* A result, once decoded, is never overwritten by a later poll.
ResultsAreFinal ==
  [][\A d \in Devices : child[d] = "reaped" =>
       /\ child'[d] = "reaped" /\ res'[d] = res[d] /\ sig'[d] = sig[d]]_vars

\* The program implements the abstract wipe job.
Job == INSTANCE WipeJob WITH
         Items   <- Devices,
         chosen  <- Selected,
         state   <- [d \in Devices |->
                       CASE child[d] = "none"    -> "idle"
                         [] child[d] = "running" -> "wiping"
                         [] OTHER -> IF exit[d] = 0 THEN "wiped" ELSE "unwiped"],
         verdict <- IF pc # "done" THEN "none" ELSE IF code = 0 THEN "good" ELSE "bad"

ImplementsWipeJob == Job!Spec

(***************************************************************************)
(* What a comment of the source says and the code does not do.             *)
(***************************************************************************)

\* The polling loop waits for "the number of child processes that have returned"
\* (dwipe.c:61): when all of them have, the program returns.
ReturnsOnceChildrenHave == <>(pc = "done")
=============================================================================
