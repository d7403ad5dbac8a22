--------------------------- MODULE DwipeMainProofs ---------------------------
(***************************************************************************)
(* The parent process for every number of devices and signals, with fork,  *)
(* waitpid and the status window failing or not: proofs of the invariants  *)
(* of DwipeMain, up to the truth of exit status 0.                         *)
(***************************************************************************)
EXTENDS DwipeMain, FiniteSetTheorems, WellFoundedInduction, TLAPS

\* A loop that has devices left to visit has a first one.
LEMMA FirstInTodo ==
  ASSUME NEW S \in SUBSET Devices, S # {}
  PROVE  First(S) \in S
<1> DEFINE R == OpToRel(<, Nat)
<1>1. IsWellFoundedOn(R, Nat)
  BY NatLessThanWellFounded
<1>2. S \subseteq Nat
  BY MainAssumption DEF Devices
<1>3. \E x \in S : \A y \in S : ~ (<<y, x>> \in R)
  <2> HIDE DEF R
  <2> QED BY <1>1, <1>2, WFMin
<1>4. \A x, y \in S : ~ (<<y, x>> \in R) => x <= y
  BY <1>2 DEF OpToRel
<1>5. \E x \in S : \A y \in S : x <= y
  BY <1>3, <1>4
<1> QED
  BY <1>5 DEF First

\* What the kinds of exits become: bytes, and zero for a return of zero only.
LEMMA ResultOfExit ==
  ASSUME NEW e \in Exits
  PROVE  /\ ReapedResult(e) \in 0 .. 255
         /\ ReapedResult(e) = 0 <=> e = 0
<1>1. CASE e \in MethodResults
  BY <1>1 DEF MethodResults, ReapedResult, WasKilled, ExitStatus, Pid
<1>2. CASE e \in {Killed(s) : s \in Signals}
  BY <1>2, MainAssumption DEF Killed, ReapedResult, WasKilled, ExitStatus, Pid
<1> QED
  BY <1>1, <1>2 DEF Exits

\* The signal decoded from the exit of a killed process.
LEMMA SignalOfExit ==
  ASSUME NEW e \in Exits, WasKilled(e)
  PROVE  -e - 1 \in Signals
  BY MainAssumption DEF Exits, MethodResults, Killed, WasKilled

\* Every status a shell is shown is a byte.
LEMMA StatusTypes ==
  /\ \A s \in 1 .. 126 : ShellStatus(s) \in 0 .. 255
  /\ ExitStatus(ReturnValue) \in 0 .. 255
  /\ ExitStatus(-1) = 255
<1>1. ReturnValue \in {-1, 0, 1}
  BY DEF ReturnValue
<1>2. \A r \in {-1, 0, 1} : ExitStatus(r) \in 0 .. 255
  BY DEF ExitStatus
<1> QED
  BY <1>1, <1>2 DEF ShellStatus, ExitStatus

\* Storing a byte in an array of bytes leaves an array of bytes.
LEMMA ByteExcept ==
  ASSUME NEW f \in [Devices -> 0 .. 255], NEW d, NEW b \in 0 .. 255
  PROVE  [f EXCEPT ![d] = b] \in [Devices -> 0 .. 255]
OBVIOUS

LEMMA ZeroIsByte == 0 \in 0 .. 255
OBVIOUS

-----------------------------------------------------------------------------
\* A process that has ended did so in one of the ways it can; without this the
\* type of its result cannot be known when it is reaped.
EndedHasExit == \A d \in Devices : child[d] \in {"exited", "reaped"} => exit[d] \in Exits

TypeInv == TypeOK /\ EndedHasExit

LEMMA TypeInit == Init => TypeInv
<1> SUFFICES ASSUME Init PROVE TypeInv
  OBVIOUS
<1>1. TypeOK
  <2>1. select \in [Devices -> Selects] /\ todo \in SUBSET Devices
    BY DEF Init, Selects
  <2>2. /\ pid \in [Devices -> {-1, 0, Pid}]
        /\ res \in [Devices -> 0 .. 255]
        /\ sig \in [Devices -> Signals \union {0}]
        /\ exit \in [Devices -> Exits \union {0}]
    BY DEF Init
  <2>3. /\ child \in [Devices -> {"none", "running", "exited", "reaped"}]
        /\ shown \in [Devices -> {"nothing", "running", "success", "failure"}]
    BY DEF Init
  <2>4. /\ probe \in [Devices -> Probes]
        /\ autonuke \in BOOLEAN /\ err \in BOOLEAN
    BY DEF Init
  <2>5. /\ pc \in {"enumerate", "share", "fork", "loop", "sweep", "report", "done"}
        /\ wait \in Nat /\ code \in 0 .. 255
    BY DEF Init
  <2> QED
    BY <2>1, <2>2, <2>3, <2>4, <2>5 DEF TypeOK
<1>2. EndedHasExit
  BY DEF Init, EndedHasExit
<1> QED
  BY <1>1, <1>2 DEF TypeInv

LEMMA TypeStep == TypeInv /\ [Next]_vars => TypeInv'
<1> SUFFICES ASSUME TypeInv, [Next]_vars PROVE TypeInv'
  OBVIOUS
<1> USE DEF TypeInv, TypeOK, EndedHasExit
<1>1. CASE SetupFails
  BY <1>1 DEF SetupFails, Exit, ENOENT, ENOMEM
<1>2. CASE Enumerate
  <2>1. First(todo) \in Devices
    BY <1>2, FirstInTodo DEF Enumerate
  <2>2. \A p \in Probes : Selection(p) \in Selects
    BY DEF Probes, Selection, Selects, Choices
  <2> QED
    BY <1>2, <2>1, <2>2 DEF Enumerate
<1>3. CASE EnumerationFails
  <2>1. code' \in 0 .. 255 /\ pc' = "done"
    <3>1. code' = ExitStatus(-1) /\ pc' = "done"
      BY <1>3 DEF EnumerationFails, Exit
    <3> QED
      BY <3>1, StatusTypes
  <2> QED
    BY <1>3, <2>1 DEF EnumerationFails
<1>4. CASE Choose
  BY <1>4 DEF Choose, Selects
<1>5. CASE ShareNothing
  BY <1>5 DEF ShareNothing, Exit, EINVAL
<1>6. CASE ShareFails
  BY <1>6 DEF ShareFails, Exit, ENOMEM, ShellStatus, SIGSEGV
<1>7. CASE FreeTraps
  BY <1>7 DEF FreeTraps, Exit, ShellStatus, SIGABRT
<1>8. CASE Share
  BY <1>8 DEF Share, Selected
<1>9. CASE Fork
  BY <1>9 DEF Fork
<1>10. CASE ForkFails
  BY <1>10 DEF ForkFails
<1>11. CASE ForkedAll
  BY <1>11 DEF ForkedAll
<1>12. CASE Sweep
  BY <1>12 DEF Sweep, Selected
<1>13. CASE Finished
  BY <1>13 DEF Finished
<1>14. CASE PollAlive
  <2>1. res' \in [Devices -> 0 .. 255]
    <3>1. res' = [res EXCEPT ![First(todo)] = 0] /\ res \in [Devices -> 0 .. 255]
      BY <1>14 DEF PollAlive
    <3>2. [res EXCEPT ![First(todo)] = 0] \in [Devices -> 0 .. 255]
      BY <3>1, ByteExcept, ZeroIsByte
    <3> QED
      BY <3>1, <3>2
  <2>2. todo' \in SUBSET Devices
    BY <1>14 DEF PollAlive
  <2> QED
    BY <1>14, <2>1, <2>2 DEF PollAlive
<1>15. CASE Reap
  <2> DEFINE d == First(todo)
  <2>1. d \in Devices
    BY <1>15, FirstInTodo DEF Reap
  <2> HIDE DEF d
  <2>2. exit[d] \in Exits
    BY <1>15, <2>1 DEF Reap, d
  <2>3. ReapedResult(exit[d]) \in 0 .. 255
    BY <2>2, ResultOfExit
  <2>4. (IF WasKilled(exit[d]) THEN -exit[d] - 1 ELSE sig[d]) \in Signals \union {0}
    BY <2>1, <2>2, SignalOfExit
  <2>5. res' \in [Devices -> 0 .. 255] /\ sig' \in [Devices -> Signals \union {0}]
    BY <1>15, <2>3, <2>4 DEF Reap, d
  <2>6. wait' \in Nat
    BY <1>15 DEF Reap, Counted
  <2>7. /\ pid' \in [Devices -> {-1, 0, Pid}]
        /\ child' \in [Devices -> {"none", "running", "exited", "reaped"}]
        /\ todo' \in SUBSET Devices
    BY <1>15 DEF Reap
  <2>8. EndedHasExit'
    BY <1>15, <2>2 DEF Reap, d
  <2> QED
    BY <1>15, <2>5, <2>6, <2>7, <2>8 DEF Reap
<1>16. CASE PollFails
  BY <1>16 DEF PollFails, Exit, ECHILD
<1>17. CASE PassOver
  BY <1>17 DEF PassOver
<1>18. CASE DrawStatus
  BY <1>18 DEF DrawStatus, ShownOf
<1>19. CASE DrawStatusTraps
  BY <1>19 DEF DrawStatusTraps, Exit, ShellStatus, SIGFPE
<1>20. CASE Report
  <2>1. code' \in 0 .. 255 /\ pc' = "done"
    BY <1>20, StatusTypes DEF Report, Exit
  <2> QED
    BY <1>20, <2>1 DEF Report
<1>21. ASSUME NEW d \in Devices, ChildExits(d) PROVE TypeInv'
  BY <1>21 DEF ChildExits
<1>22. CASE Gone \/ UNCHANGED vars
  BY <1>22 DEF Gone, vars
<1> QED
  BY <1>1, <1>2, <1>3, <1>4, <1>5, <1>6, <1>7, <1>8, <1>9, <1>10, <1>11, <1>12, <1>13,
     <1>14, <1>15, <1>16, <1>17, <1>18, <1>19, <1>20, <1>21, <1>22 DEF Next, Parent

\* The types of the parent's variables: results and exit statuses are bytes,
\* however the processes end (dwipe.c:447-462).
THEOREM TypeCorrect == Spec => []TypeOK
<1>1. TypeInv => TypeOK
  BY DEF TypeInv
<1> QED
  BY <1>1, TypeInit, TypeStep, PTL DEF Spec

-----------------------------------------------------------------------------
\* Only a selected device ever has a process...
OnlySelected == \A d \in Devices : child[d] # "none" => d \in Selected

\* ... none before the selection is over, ...
NothingForked == pc \in {"enumerate", "share"} => \A d \in Devices : child[d] = "none"

\* ... none is reaped while others are still to be forked, ...
NothingReaped == pc \in {"enumerate", "share", "fork"} => Reaped = {}

\* ... and the loops after the selection visit selected devices only.
LoopsOverSelected ==
  pc \in {"fork", "loop", "sweep", "report"} =>
    Selected # {} /\ (pc \in {"fork", "sweep"} => todo \subseteq Selected)

\* A pid that is still polled belongs to a process that is not reaped.
PidIsOfLive == \A d \in Devices : Pollable(d) => child[d] \in {"running", "exited"}

\* The result member of a reaped process is what its exit decodes to.
ResultDecoded == \A d \in Devices : child[d] = "reaped" => res[d] = ReapedResult(exit[d])

\* The parent reports only when every selected process was reaped.
ReportsLast == pc = "report" => Selected \subseteq Reaped

MainInv ==
  /\ TypeInv
  /\ OnlySelected /\ NothingForked /\ NothingReaped /\ LoopsOverSelected
  /\ PidIsOfLive /\ ResultDecoded
  /\ WaitCountsReaped /\ ReportsLast
  /\ SuccessIsTrue /\ NoProcessLeft

LEMMA ReapedFinite == IsFiniteSet(Devices) /\ IsFiniteSet(Reaped) /\ IsFiniteSet(Selected)
<1>1. IsFiniteSet(Devices)
  BY FS_Interval, MainAssumption DEF Devices
<1>2. Reaped \subseteq Devices /\ Selected \subseteq Devices
  BY DEF Reaped, Selected
<1> QED
  BY <1>1, <1>2, FS_Subset

LEMMA MainInit == Init => MainInv
<1> SUFFICES ASSUME Init PROVE MainInv
  OBVIOUS
<1>1. Reaped = {}
  BY DEF Init, Reaped
<1>2. WaitCountsReaped
  BY <1>1, FS_EmptySet DEF Init, WaitCountsReaped
<1>3. OnlySelected /\ NothingForked /\ NothingReaped /\ LoopsOverSelected
  BY <1>1 DEF Init, OnlySelected, NothingForked, NothingReaped, LoopsOverSelected
<1>4. PidIsOfLive /\ ResultDecoded
  BY DEF Init, PidIsOfLive, ResultDecoded, Pollable
<1>5. ReportsLast /\ SuccessIsTrue /\ NoProcessLeft
  BY DEF Init, ReportsLast, SuccessIsTrue, NoProcessLeft
<1> QED
  BY <1>2, <1>3, <1>4, <1>5, TypeInit DEF MainInv

\* A step that exits with a status no report gives, and touches no process.
LEMMA AbnormalExit ==
  ASSUME MainInv, TypeInv', NEW status, status \notin {0, 1}, Exit(status),
         UNCHANGED <<select, pid, child, exit, res, wait>>
  PROVE  MainInv'
<1>1. pc' = "done" /\ code' = status
  BY DEF Exit
<1>2. Selected' = Selected /\ Reaped' = Reaped
  BY DEF Selected, Reaped
<1>3. /\ OnlySelected' /\ NothingForked' /\ NothingReaped' /\ LoopsOverSelected'
  BY <1>1, <1>2 DEF MainInv, OnlySelected, NothingForked, NothingReaped, LoopsOverSelected
<1>4. PidIsOfLive' /\ ResultDecoded'
  BY DEF MainInv, PidIsOfLive, ResultDecoded, Pollable
<1>5. WaitCountsReaped'
  BY <1>2 DEF MainInv, WaitCountsReaped
<1>6. ReportsLast' /\ SuccessIsTrue' /\ NoProcessLeft'
  BY <1>1 DEF ReportsLast, SuccessIsTrue, NoProcessLeft
<1> QED
  BY <1>3, <1>4, <1>5, <1>6 DEF MainInv

\* A step of the parent that moves on to another loop and touches no process.
LEMMA ControlStep ==
  ASSUME MainInv, TypeInv', pc' # "done",
         UNCHANGED <<select, pid, child, exit, res, wait>>,
         pc' \in {"enumerate", "share"} => pc \in {"enumerate", "share"},
         pc' = "fork" => pc \in {"enumerate", "share", "fork"},
         LoopsOverSelected', ReportsLast'
  PROVE  MainInv'
<1>1. Selected' = Selected /\ Reaped' = Reaped
  BY DEF Selected, Reaped
<1>2. OnlySelected' /\ NothingForked' /\ NothingReaped'
  BY <1>1 DEF MainInv, OnlySelected, NothingForked, NothingReaped
<1>3. PidIsOfLive' /\ ResultDecoded'
  BY DEF MainInv, PidIsOfLive, ResultDecoded, Pollable
<1>4. WaitCountsReaped'
  BY <1>1 DEF MainInv, WaitCountsReaped
<1>5. SuccessIsTrue' /\ NoProcessLeft'
  BY DEF SuccessIsTrue, NoProcessLeft
<1> QED
  BY <1>2, <1>3, <1>4, <1>5 DEF MainInv

\* A step that changes the selection while no device has a process.
LEMMA SelectionStep ==
  ASSUME MainInv, TypeInv', pc \in {"enumerate", "share"}, pc' \in {"enumerate", "share"},
         UNCHANGED <<pid, child, exit, res, wait>>
  PROVE  MainInv'
<1>1. \A d \in Devices : child'[d] = "none"
  BY DEF MainInv, NothingForked
<1>2. Reaped' = Reaped /\ Reaped = {}
  BY DEF MainInv, NothingReaped, Reaped
<1>3. OnlySelected' /\ NothingForked' /\ NothingReaped' /\ LoopsOverSelected'
  BY <1>1, <1>2 DEF OnlySelected, NothingForked, NothingReaped, LoopsOverSelected
<1>4. PidIsOfLive' /\ ResultDecoded'
  BY DEF MainInv, PidIsOfLive, ResultDecoded, Pollable
<1>5. WaitCountsReaped'
  BY <1>2 DEF MainInv, WaitCountsReaped
<1>6. ReportsLast' /\ SuccessIsTrue' /\ NoProcessLeft'
  BY DEF ReportsLast, SuccessIsTrue, NoProcessLeft
<1> QED
  BY <1>3, <1>4, <1>5, <1>6 DEF MainInv

\* All selected processes are reaped as soon as dwipe_wait has reached their
\* number: the reaped are selected, and as many as the selected.
LEMMA AllReapedAtLast ==
  ASSUME MainInv, AllReturned
  PROVE  Selected \subseteq Reaped
<1>1. Reaped \subseteq Selected
  BY DEF MainInv, OnlySelected, Reaped
<1>2. Cardinality(Reaped) >= Cardinality(Selected)
  BY DEF AllReturned, MainInv, WaitCountsReaped
<1>3. Cardinality(Reaped) <= Cardinality(Selected) /\ (Cardinality(Reaped) = Cardinality(Selected) => Reaped = Selected)
  BY <1>1, ReapedFinite, FS_Subset
<1>4. Cardinality(Reaped) \in Nat /\ Cardinality(Selected) \in Nat
  BY ReapedFinite, FS_CardinalityType
<1> QED
  BY <1>2, <1>3, <1>4

\* The fork of a process: it was not reaped, and it is selected.
LEMMA ForkStep ==
  ASSUME MainInv, TypeInv', Fork
  PROVE  MainInv'
<1> DEFINE d == First(todo)
<1>1. d \in todo /\ d \in Devices
  BY FirstInTodo DEF Fork, MainInv, TypeInv, TypeOK
<1> HIDE DEF d
<1>2. d \in Selected /\ Selected' = Selected /\ Selected # {}
  BY <1>1 DEF Fork, MainInv, LoopsOverSelected, Selected
<1>3. child' = [child EXCEPT ![d] = "running"] /\ pid' = [pid EXCEPT ![d] = Pid]
  BY DEF Fork, d
<1>4. Reaped = {} /\ Reaped' = {}
  BY <1>1, <1>3 DEF Fork, MainInv, NothingReaped, Reaped, TypeInv, TypeOK
<1>5. OnlySelected' /\ PidIsOfLive'
  BY <1>1, <1>2, <1>3 DEF MainInv, OnlySelected, PidIsOfLive, Pollable, TypeInv, TypeOK
<1>6. NothingForked' /\ NothingReaped' /\ LoopsOverSelected'
  BY <1>2, <1>4 DEF Fork, MainInv, NothingForked, NothingReaped, LoopsOverSelected
<1>7. ResultDecoded' /\ WaitCountsReaped'
  BY <1>4 DEF Fork, MainInv, ResultDecoded, WaitCountsReaped, Reaped
<1>8. ReportsLast' /\ SuccessIsTrue' /\ NoProcessLeft'
  BY DEF Fork, ReportsLast, SuccessIsTrue, NoProcessLeft
<1> QED
  BY <1>5, <1>6, <1>7, <1>8 DEF MainInv

\* A fork that fails leaves a pid that is never polled.
LEMMA ForkFailsStep ==
  ASSUME MainInv, TypeInv', ForkFails
  PROVE  MainInv'
<1> DEFINE d == First(todo)
<1>1. pid' = [pid EXCEPT ![d] = -1] /\ UNCHANGED <<pc, select, child, exit, res, wait>>
  BY DEF ForkFails
<1> HIDE DEF d
<1>2. Selected' = Selected /\ Reaped' = Reaped /\ todo' \subseteq todo
  BY <1>1 DEF ForkFails, Selected, Reaped
<1>3. PidIsOfLive'
  BY <1>1 DEF MainInv, PidIsOfLive, Pollable, TypeInv, TypeOK
<1>4. /\ OnlySelected' /\ NothingForked' /\ NothingReaped' /\ LoopsOverSelected'
      /\ ResultDecoded' /\ WaitCountsReaped' /\ ReportsLast'
  BY <1>1, <1>2 DEF MainInv, OnlySelected, NothingForked, NothingReaped, LoopsOverSelected,
     ResultDecoded, WaitCountsReaped, ReportsLast
<1>5. SuccessIsTrue' /\ NoProcessLeft'
  BY <1>1 DEF ForkFails, SuccessIsTrue, NoProcessLeft
<1> QED
  BY <1>3, <1>4, <1>5 DEF MainInv

\* The reaping of a process: it was not reaped before, so it counts once, and its
\* result is decoded from its exit.
LEMMA ReapStep ==
  ASSUME MainInv, TypeInv', Reap
  PROVE  MainInv'
<1> DEFINE d == First(todo)
<1>1. d \in todo /\ d \in Devices
  BY FirstInTodo DEF Reap, MainInv, TypeInv, TypeOK
<1> HIDE DEF d
<1>2. Selected' = Selected /\ Selected # {} /\ todo' \subseteq todo
  BY DEF Reap, MainInv, LoopsOverSelected, Selected
<1>3. /\ child[d] = "exited" /\ child' = [child EXCEPT ![d] = "reaped"]
      /\ pid' = [pid EXCEPT ![d] = 0]
      /\ res' = [res EXCEPT ![d] = ReapedResult(exit[d])]
      /\ wait' = wait + 1
  BY DEF Reap, Counted, d
<1>4. d \notin Reaped /\ Reaped' = Reaped \union {d}
  BY <1>1, <1>3 DEF Reaped, MainInv, TypeInv, TypeOK
<1>5. WaitCountsReaped'
  BY <1>3, <1>4, ReapedFinite, FS_AddElement DEF MainInv, WaitCountsReaped
<1>6. OnlySelected' /\ PidIsOfLive'
  BY <1>1, <1>2, <1>3 DEF MainInv, OnlySelected, PidIsOfLive, Pollable, TypeInv, TypeOK
<1>7. ResultDecoded'
  BY <1>1, <1>3 DEF Reap, MainInv, ResultDecoded, TypeInv, TypeOK
<1>8. NothingForked' /\ NothingReaped' /\ LoopsOverSelected'
  BY <1>2 DEF Reap, MainInv, NothingForked, NothingReaped, LoopsOverSelected
<1>9. ReportsLast' /\ SuccessIsTrue' /\ NoProcessLeft'
  BY DEF Reap, ReportsLast, SuccessIsTrue, NoProcessLeft
<1> QED
  BY <1>5, <1>6, <1>7, <1>8, <1>9 DEF MainInv

\* The poll of a process that runs: its result is not decoded yet.
LEMMA PollAliveStep ==
  ASSUME MainInv, TypeInv', PollAlive
  PROVE  MainInv'
<1> DEFINE d == First(todo)
<1>1. d \in todo /\ d \in Devices
  BY FirstInTodo DEF PollAlive, MainInv, TypeInv, TypeOK
<1> HIDE DEF d
<1>2. Selected' = Selected /\ Reaped' = Reaped /\ Selected # {} /\ todo' \subseteq todo
  BY DEF PollAlive, MainInv, LoopsOverSelected, Selected, Reaped
<1>3. child[d] # "reaped" /\ res' = [res EXCEPT ![d] = 0]
  BY <1>1 DEF PollAlive, MainInv, PidIsOfLive, d
<1>4. ResultDecoded'
  BY <1>3 DEF PollAlive, MainInv, ResultDecoded, TypeInv, TypeOK
<1>5. OnlySelected' /\ PidIsOfLive'
  BY <1>2 DEF PollAlive, MainInv, OnlySelected, PidIsOfLive, Pollable
<1>6. NothingForked' /\ NothingReaped' /\ LoopsOverSelected' /\ WaitCountsReaped'
  BY <1>2 DEF PollAlive, MainInv, NothingForked, NothingReaped, LoopsOverSelected, WaitCountsReaped
<1>7. ReportsLast' /\ SuccessIsTrue' /\ NoProcessLeft'
  BY DEF PollAlive, ReportsLast, SuccessIsTrue, NoProcessLeft
<1> QED
  BY <1>4, <1>5, <1>6, <1>7 DEF MainInv

\* The end of a process: it was not reaped, so no verdict can rest on it.
LEMMA ChildExitsStep ==
  ASSUME MainInv, TypeInv', NEW d \in Devices, ChildExits(d)
  PROVE  MainInv'
<1>1. Selected' = Selected
  BY DEF ChildExits, Selected
<1>2. /\ child[d] = "running" /\ child' = [child EXCEPT ![d] = "exited"]
      /\ \A x \in Devices \ {d} : exit'[x] = exit[x]
  BY DEF ChildExits, MainInv, TypeInv, TypeOK
<1>3. Reaped' = Reaped
  BY <1>2 DEF Reaped, MainInv, TypeInv, TypeOK
<1>4. OnlySelected' /\ PidIsOfLive'
  BY <1>1, <1>2 DEF ChildExits, MainInv, OnlySelected, PidIsOfLive, Pollable, TypeInv, TypeOK
<1>5. ResultDecoded'
  BY <1>2 DEF ChildExits, MainInv, ResultDecoded, TypeInv, TypeOK
<1>6. NothingForked' /\ NothingReaped' /\ LoopsOverSelected' /\ WaitCountsReaped' /\ ReportsLast'
  BY <1>1, <1>2, <1>3 DEF ChildExits, MainInv, NothingForked, NothingReaped, LoopsOverSelected,
     WaitCountsReaped, ReportsLast
<1>7. SuccessIsTrue'
  <2> SUFFICES ASSUME pc = "done", code = 0 PROVE SuccessIsTrue'
    BY DEF SuccessIsTrue, ChildExits
  <2>1. Selected # {} /\ \A x \in Selected : child[x] = "reaped" /\ exit[x] = 0
    BY DEF MainInv, SuccessIsTrue
  <2>2. \A x \in Selected : x \in Devices /\ x # d
    BY <1>2, <2>1 DEF Selected
  <2> QED
    BY <1>1, <1>2, <2>1, <2>2 DEF SuccessIsTrue, MainInv, TypeInv, TypeOK
<1>8. NoProcessLeft'
  BY <1>2 DEF ChildExits, MainInv, NoProcessLeft
<1> QED
  BY <1>4, <1>5, <1>6, <1>7, <1>8 DEF MainInv

\* The report: every selected process is reaped, and the exit status is 0 only if
\* no result is above zero, that is if every process returned 0.
LEMMA ReportStep ==
  ASSUME MainInv, TypeInv', Report
  PROVE  MainInv'
<1>1. /\ pc = "report" /\ pc' = "done" /\ code' = ExitStatus(ReturnValue)
      /\ UNCHANGED <<select, pid, child, exit, res, wait>>
  BY DEF Report, Exit
<1>2. Selected' = Selected /\ Reaped' = Reaped
  BY <1>1 DEF Selected, Reaped
<1>3. Selected # {} /\ Selected \subseteq Reaped
  BY <1>1 DEF MainInv, LoopsOverSelected, ReportsLast
<1>4. \A d \in Selected :
        /\ d \in Devices /\ child[d] = "reaped" /\ exit[d] \in Exits
        /\ res[d] = ReapedResult(exit[d]) /\ res[d] \in 0 .. 255
        /\ res[d] = 0 => exit[d] = 0
  <2> SUFFICES ASSUME NEW d \in Selected
               PROVE  /\ d \in Devices /\ child[d] = "reaped" /\ exit[d] \in Exits
                      /\ res[d] = ReapedResult(exit[d]) /\ res[d] \in 0 .. 255
                      /\ res[d] = 0 => exit[d] = 0
    OBVIOUS
  <2>1. d \in Devices /\ child[d] = "reaped"
    BY <1>3 DEF Reaped
  <2>2. exit[d] \in Exits /\ res[d] = ReapedResult(exit[d])
    BY <2>1 DEF MainInv, TypeInv, EndedHasExit, ResultDecoded
  <2> QED
    BY <2>1, <2>2, ResultOfExit
<1>5. code' = 0 => \A d \in Selected : res[d] = 0
  <2>1. \A d \in Selected : res[d] \in 0 .. 255
    BY <1>4
  <2>2. ReturnValue = IF Trouble THEN 1 ELSE 0
    BY <2>1 DEF ReturnValue
  <2>3. code' = 0 => ~Trouble
    BY <1>1, <2>2 DEF ExitStatus
  <2> QED
    BY <2>1, <2>3 DEF Trouble
<1>6. SuccessIsTrue'
  BY <1>1, <1>2, <1>3, <1>4, <1>5 DEF SuccessIsTrue
<1>7. NoProcessLeft'
  <2>1. \A d \in Devices : child[d] \in {"none", "reaped"}
    BY <1>3 DEF MainInv, OnlySelected, Reaped
  <2> QED
    BY <1>1, <2>1 DEF NoProcessLeft
<1>8. OnlySelected' /\ NothingForked' /\ NothingReaped' /\ LoopsOverSelected' /\ ReportsLast'
  BY <1>1, <1>2 DEF MainInv, OnlySelected, NothingForked, NothingReaped, LoopsOverSelected, ReportsLast
<1>9. PidIsOfLive' /\ ResultDecoded'
  BY <1>1 DEF MainInv, PidIsOfLive, ResultDecoded, Pollable
<1>10. WaitCountsReaped'
  BY <1>1, <1>2 DEF MainInv, WaitCountsReaped
<1> QED
  BY <1>6, <1>7, <1>8, <1>9, <1>10 DEF MainInv

LEMMA MainStep == MainInv /\ [Next]_vars => MainInv'
<1> SUFFICES ASSUME MainInv, [Next]_vars PROVE MainInv'
  OBVIOUS
<1> TypeInv'
  BY TypeStep DEF MainInv
<1>1. CASE SetupFails
  <2> PICK errno \in {ENOENT, ENOMEM} : Exit(errno)
    BY <1>1 DEF SetupFails
  <2> QED
    BY <1>1, AbnormalExit DEF SetupFails, ENOENT, ENOMEM
<1>2. CASE Enumerate
  BY <1>2, SelectionStep DEF Enumerate
<1>3. CASE EnumerationFails
  <2>1. Exit(ExitStatus(-1)) /\ ExitStatus(-1) \notin {0, 1}
    BY <1>3, StatusTypes DEF EnumerationFails
  <2> QED
    BY <1>3, <2>1, AbnormalExit DEF EnumerationFails
<1>4. CASE Choose
  BY <1>4, SelectionStep DEF Choose
<1>5. CASE ShareNothing
  BY <1>5, AbnormalExit DEF ShareNothing, EINVAL
<1>6. CASE ShareFails
  <2> PICK status \in {ENOMEM, ShellStatus(SIGSEGV)} : Exit(status)
    BY <1>6 DEF ShareFails
  <2> QED
    BY <1>6, AbnormalExit DEF ShareFails, ENOMEM, ShellStatus, SIGSEGV
<1>7. CASE FreeTraps
  BY <1>7, AbnormalExit DEF FreeTraps, ShellStatus, SIGABRT
<1>8. CASE Share
  BY <1>8, ControlStep DEF Share, LoopsOverSelected, ReportsLast, Selected
<1>9. CASE Fork
  BY <1>9, ForkStep
<1>10. CASE ForkFails
  BY <1>10, ForkFailsStep
<1>11. CASE ForkedAll
  BY <1>11, ControlStep DEF ForkedAll, MainInv, LoopsOverSelected, ReportsLast, Selected
<1>12. CASE Sweep
  BY <1>12, ControlStep DEF Sweep, MainInv, LoopsOverSelected, ReportsLast, Selected
<1>13. CASE Finished
  <2>1. ReportsLast'
    BY <1>13, AllReapedAtLast DEF Finished, ReportsLast, Selected, Reaped
  <2> QED
    BY <1>13, <2>1, ControlStep DEF Finished, MainInv, LoopsOverSelected, Selected
<1>14. CASE PollAlive
  BY <1>14, PollAliveStep
<1>15. CASE Reap
  BY <1>15, ReapStep
<1>16. CASE PollFails
  BY <1>16, AbnormalExit DEF PollFails, ECHILD
<1>17. CASE PassOver
  BY <1>17, ControlStep DEF PassOver, MainInv, LoopsOverSelected, ReportsLast, Selected
<1>18. CASE DrawStatus
  BY <1>18, ControlStep DEF DrawStatus, MainInv, LoopsOverSelected, ReportsLast, Selected
<1>19. CASE DrawStatusTraps
  BY <1>19, AbnormalExit DEF DrawStatusTraps, ShellStatus, SIGFPE
<1>20. CASE Report
  BY <1>20, ReportStep
<1>21. ASSUME NEW d \in Devices, ChildExits(d) PROVE MainInv'
  BY <1>21, ChildExitsStep
<1>22. CASE Gone \/ UNCHANGED vars
  <2>1. UNCHANGED vars
    BY <1>22 DEF Gone
  <2>2. Selected' = Selected /\ Reaped' = Reaped
    BY <2>1 DEF vars, Selected, Reaped
  <2> QED
    BY <2>1, <2>2 DEF vars, MainInv, OnlySelected, NothingForked, NothingReaped, LoopsOverSelected,
       PidIsOfLive, Pollable, ResultDecoded, WaitCountsReaped, ReportsLast, SuccessIsTrue, NoProcessLeft
<1> QED
  BY <1>1, <1>2, <1>3, <1>4, <1>5, <1>6, <1>7, <1>8, <1>9, <1>10, <1>11, <1>12, <1>13,
     <1>14, <1>15, <1>16, <1>17, <1>18, <1>19, <1>20, <1>21, <1>22 DEF Next, Parent

LEMMA MainAlways == Spec => []MainInv
<1> QED
  BY MainInit, MainStep, PTL DEF Spec

\* The polling loop counts every process once, however exits and polls
\* interleave (dwipe.c:437-465).
THEOREM WaitAlwaysCountsReaped == Spec => []WaitCountsReaped
<1>1. MainInv => WaitCountsReaped
  BY DEF MainInv
<1> QED
  BY <1>1, MainAlways, PTL

\* Exit status 0 of the program is true for any number of devices: each selected
\* one was wiped by a process that was reaped and returned 0 (dwipe.c:498-516).
THEOREM SuccessAlwaysTrue == Spec => []SuccessIsTrue
<1>1. MainInv => SuccessIsTrue
  BY DEF MainInv
<1> QED
  BY <1>1, MainAlways, PTL

\* Statuses 0 and 1 are returned only when no wipe process is left running, or
\* ended and not reaped (dwipe.c:425).
THEOREM NeverProcessLeft == Spec => []NoProcessLeft
<1>1. MainInv => NoProcessLeft
  BY DEF MainInv
<1> QED
  BY <1>1, MainAlways, PTL

\* A decoded result is never overwritten: by a later poll, whose success branch
\* stores 0 in the result member, or by anything else (dwipe.c:435-462).
THEOREM ResultsAlwaysFinal == Spec => ResultsAreFinal
<1>1. MainInv /\ [Next]_vars =>
       [\A d \in Devices : child[d] = "reaped" =>
          /\ child'[d] = "reaped" /\ res'[d] = res[d] /\ sig'[d] = sig[d]]_vars
  <2> SUFFICES ASSUME MainInv, Next, NEW x \in Devices, child[x] = "reaped"
               PROVE  child'[x] = "reaped" /\ res'[x] = res[x] /\ sig'[x] = sig[x]
    OBVIOUS
  <2> DEFINE d == First(todo)
  <2>1. pc \notin {"enumerate", "share", "fork"}
    BY DEF MainInv, NothingReaped, Reaped
  <2>2. CASE PollAlive \/ Reap
    <3>1. x # d
      BY <2>2 DEF PollAlive, Reap, MainInv, PidIsOfLive
    <3> HIDE DEF d
    <3>2. UNCHANGED child \/ child' = [child EXCEPT ![d] = "reaped"]
      BY <2>2 DEF PollAlive, Reap, d
    <3>3. \E r : res' = [res EXCEPT ![d] = r]
      BY <2>2 DEF PollAlive, Reap, d
    <3>4. UNCHANGED sig \/ \E s : sig' = [sig EXCEPT ![d] = s]
      BY <2>2 DEF PollAlive, Reap, d
    <3> QED
      BY <3>1, <3>2, <3>3, <3>4 DEF MainInv, TypeInv, TypeOK
  <2>3. ASSUME NEW e \in Devices, ChildExits(e)
        PROVE  child'[x] = "reaped" /\ res'[x] = res[x] /\ sig'[x] = sig[x]
    BY <2>3 DEF ChildExits, MainInv, TypeInv, TypeOK
  <2>4. CASE UNCHANGED <<child, res, sig>>
    BY <2>4
  <2>5. Next => \/ PollAlive \/ Reap \/ UNCHANGED <<child, res, sig>>
                \/ \E e \in Devices : ChildExits(e)
    BY <2>1 DEF Next, Parent, SetupFails, Enumerate, EnumerationFails, Choose, ShareNothing,
       ShareFails, FreeTraps, Share, Fork, ForkFails, ForkedAll, Sweep, PollFails, PassOver,
       DrawStatus, DrawStatusTraps, Finished, Report, Gone, vars
  <2> QED
    BY <2>2, <2>3, <2>4, <2>5
<1> QED
  BY <1>1, MainAlways, PTL DEF Spec, ResultsAreFinal

-----------------------------------------------------------------------------
\* The parent went past enumeration, or ended after it had done so.
Going ==
  \/ pc \notin {"enumerate", "done"}
  \/ pc = "done" /\ (code = 0 \/ \E d \in Devices : child[d] # "none")

\* What the enumeration leaves behind for the rest of the program.
ProperlySelected ==
  \A d \in Devices :
    /\ probe[d] # "broken"
    /\ probe[d] = "unopenable" => select[d] = "DISABLED"
    /\ autonuke => select[d] = Selection(probe[d])

\* The loop has recorded each device it has visited, and counts the broken ones.
EnumeratedSoFar ==
  pc = "enumerate" =>
    \A d \in Devices \ todo : select[d] = Selection(probe[d]) /\ (probe[d] = "broken" => err)

EnumerationInv == EnumeratedSoFar /\ (Going => ProperlySelected)

LEMMA EnumerationInit == Init => EnumerationInv
BY DEF Init, EnumerationInv, EnumeratedSoFar, Going

\* A step after the enumeration that leaves the selection alone.
LEMMA SelectionStays ==
  ASSUME EnumerationInv, UNCHANGED <<probe, autonuke, select>>, pc' # "enumerate", Going' => Going
  PROVE  EnumerationInv'
<1>1. ProperlySelected => ProperlySelected'
  BY DEF ProperlySelected, Selection
<1> QED
  BY <1>1 DEF EnumerationInv, EnumeratedSoFar

LEMMA EnumerationStep ==
  ASSUME MainInv, EnumerationInv, [Next]_vars
  PROVE  EnumerationInv'
<1>1. CASE Enumerate
  <2> DEFINE d == First(todo)
  <2>1. /\ pc = "enumerate" /\ pc' = "enumerate" /\ UNCHANGED <<probe, autonuke>>
        /\ select' = [select EXCEPT ![d] = Selection(probe[d])]
        /\ err' = (err \/ probe[d] = "broken") /\ todo' = todo \ {d}
    BY <1>1 DEF Enumerate
  <2> HIDE DEF d
  <2>2. select \in [Devices -> Selects] /\ \A p \in Probes : Selection(p)' = Selection(p)
    BY <2>1 DEF MainInv, TypeInv, TypeOK, Selection
  <2>3. ASSUME NEW x \in Devices \ todo'
        PROVE  select'[x] = Selection(probe[x]) /\ (probe[x] = "broken" => err')
    <3>1. CASE x = d
      BY <2>1, <2>2, <3>1
    <3>2. CASE x # d
      BY <2>1, <2>2, <2>3, <3>2 DEF EnumerationInv, EnumeratedSoFar
    <3> QED
      BY <3>1, <3>2
  <2>4. EnumeratedSoFar'
    BY <2>1, <2>3 DEF EnumeratedSoFar, Selection
  <2> QED
    BY <2>1, <2>4 DEF EnumerationInv, Going
<1>2. CASE Choose
  <2>1. \A d \in Devices : select[d] = Selection(probe[d]) /\ probe[d] # "broken"
    BY <1>2 DEF Choose, MayGoOn, EnumerationInv, EnumeratedSoFar
  <2>2. UNCHANGED <<probe, autonuke>> /\ pc' = "share"
    BY <1>2 DEF Choose
  <2>3. \A d \in Devices : probe[d] = "unopenable" => select'[d] = "DISABLED"
    <3>1. \A d \in Devices : probe[d] = "unopenable" => select[d] = "DISABLED"
      BY <2>1 DEF Selection
    <3> QED
      BY <1>2, <3>1 DEF Choose
  <2>4. autonuke => select' = select
    BY <1>2 DEF Choose
  <2>5. ProperlySelected'
    BY <2>1, <2>2, <2>3, <2>4 DEF ProperlySelected, Selection
  <2> QED
    BY <2>2, <2>5 DEF EnumerationInv, EnumeratedSoFar
<1>3. CASE SetupFails \/ EnumerationFails
  <2>1. pc = "enumerate" /\ pc' = "done" /\ code' # 0 /\ UNCHANGED <<probe, autonuke, select, child>>
    BY <1>3, StatusTypes DEF SetupFails, EnumerationFails, Exit, ENOENT, ENOMEM
  <2>2. ~Going'
    BY <2>1 DEF Going, MainInv, NothingForked
  <2> QED
    BY <2>1, <2>2, SelectionStays
<1>4. ASSUME NEW d \in Devices, ChildExits(d) PROVE EnumerationInv'
  <2>1. child[d] = "running" /\ UNCHANGED <<pc, probe, autonuke, select>>
    BY <1>4 DEF ChildExits
  <2>2. pc # "enumerate" /\ Going
    BY <2>1 DEF MainInv, NothingForked, Going
  <2> QED
    BY <2>1, <2>2, SelectionStays
<1>5. CASE /\ UNCHANGED <<probe, autonuke, select>>
           /\ pc \notin {"enumerate", "done"} /\ pc' # "enumerate"
  BY <1>5, SelectionStays DEF Going
<1>6. CASE UNCHANGED vars
  BY <1>6 DEF vars, EnumerationInv, EnumeratedSoFar, Going, ProperlySelected, Selection
<1>7. \/ Enumerate \/ Choose \/ SetupFails \/ EnumerationFails \/ UNCHANGED vars
      \/ \E d \in Devices : ChildExits(d)
      \/ /\ UNCHANGED <<probe, autonuke, select>>
         /\ pc \notin {"enumerate", "done"} /\ pc' # "enumerate"
  BY DEF Next, Parent, ShareNothing, ShareFails, FreeTraps, Share, Fork, ForkFails, ForkedAll,
     Sweep, PollAlive, Reap, PollFails, PassOver, DrawStatus, DrawStatusTraps, Finished, Report,
     Gone, Exit
<1> QED
  BY <1>1, <1>2, <1>3, <1>4, <1>5, <1>6, <1>7

LEMMA EnumerationAlways == Spec => []EnumerationInv
BY EnumerationInit, EnumerationStep, MainAlways, PTL DEF Spec

\* A device that enumeration cannot make sense of stops the program before any
\* process is forked, and what cannot be opened is never wiped (dwipe.c:315).
THEOREM BrokenAlwaysStopsAll == Spec => []BrokenDeviceStopsAll
<1>1. MainInv /\ EnumerationInv => BrokenDeviceStopsAll
  <2> SUFFICES ASSUME MainInv, EnumerationInv, NEW d \in Devices, child[d] # "none"
               PROVE  probe[d] # "unopenable" /\ \A e \in Devices : probe[e] # "broken"
    BY DEF BrokenDeviceStopsAll
  <2>1. Going /\ select[d] = "TRUE"
    BY DEF MainInv, NothingForked, OnlySelected, Selected, Going
  <2> QED
    BY <2>1 DEF EnumerationInv, ProperlySelected
<1> QED
  BY <1>1, MainAlways, EnumerationAlways, PTL

\* With autonuke, exit status 0 means that every disk that could be opened was
\* wiped, for any number of disks, partitions and failures (dwipe.c:293-298).
THEOREM AutonukeAlwaysWipesAll == Spec => []AutonukeWipesAllDisks
<1>1. MainInv /\ EnumerationInv => AutonukeWipesAllDisks
  <2> SUFFICES ASSUME MainInv, EnumerationInv, pc = "done", code = 0, autonuke,
                      NEW d \in Devices, probe[d] = "disk"
               PROVE  child[d] = "reaped" /\ exit[d] = 0
    BY DEF AutonukeWipesAllDisks
  <2>1. select[d] = "TRUE"
    BY DEF EnumerationInv, Going, ProperlySelected, Selection
  <2> QED
    BY <2>1 DEF MainInv, SuccessIsTrue, Selected
<1> QED
  BY <1>1, MainAlways, EnumerationAlways, PTL

-----------------------------------------------------------------------------
\* Whenever a sweep is over, the window has told the end of all that were reaped:
\* processes are reaped in sweeps only, and each sweep ends in a picture.
PictureInv ==
  pc \in {"loop", "report"} =>
    \A d \in Reaped : shown[d] = (IF exit[d] = 0 THEN "success" ELSE "failure")

\* The picture of a device that was reaped.
LEMMA ReapedIsShown ==
  ASSUME MainInv, NEW d \in Reaped
  PROVE  ShownOf(d) = (IF exit[d] = 0 THEN "success" ELSE "failure")
<1>1. d \in Devices /\ child[d] = "reaped" /\ exit[d] \in Exits
  BY DEF Reaped, MainInv, TypeInv, EndedHasExit
<1>2. ~(pid[d] > 0) /\ pid[d] <= 0
  BY <1>1 DEF MainInv, PidIsOfLive, Pollable, TypeInv, TypeOK, Pid
<1>3. res[d] = 0 <=> exit[d] = 0
  BY <1>1, ResultOfExit DEF MainInv, ResultDecoded
<1> QED
  BY <1>2, <1>3 DEF ShownOf

LEMMA PictureStep ==
  ASSUME MainInv, PictureInv, [Next]_vars
  PROVE  PictureInv'
<1>1. CASE DrawStatus
  <2>1. /\ shown' = [d \in Devices |-> IF d \in Selected THEN ShownOf(d) ELSE shown[d]]
        /\ UNCHANGED <<select, child, exit>>
    BY <1>1 DEF DrawStatus
  <2>2. Reaped' = Reaped /\ \A d \in Reaped : d \in Devices /\ d \in Selected
    BY <2>1 DEF Reaped, MainInv, OnlySelected
  <2>3. \A d \in Reaped : shown'[d] = ShownOf(d)
    BY <2>1, <2>2
  <2> QED
    BY <2>1, <2>2, <2>3, ReapedIsShown DEF PictureInv
<1>2. CASE ForkedAll
  <2>1. Reaped' = {}
    BY <1>2 DEF ForkedAll, MainInv, NothingReaped, Reaped
  <2> QED
    BY <2>1 DEF PictureInv
<1>3. CASE Finished \/ UNCHANGED vars
  BY <1>3 DEF Finished, vars, PictureInv, Reaped
<1>4. ASSUME NEW d \in Devices, ChildExits(d) PROVE PictureInv'
  <2>1. /\ child[d] = "running" /\ child' = [child EXCEPT ![d] = "exited"]
        /\ \E e \in Exits : exit' = [exit EXCEPT ![d] = e]
        /\ UNCHANGED <<pc, shown>>
    BY <1>4 DEF ChildExits
  <2>2. child \in [Devices -> {"none", "running", "exited", "reaped"}]
        /\ exit \in [Devices -> Exits \union {0}]
    BY DEF MainInv, TypeInv, TypeOK
  <2>3. Reaped' = Reaped /\ d \notin Reaped
    BY <2>1, <2>2 DEF Reaped
  <2>4. \A x \in Reaped : exit'[x] = exit[x]
    BY <2>1, <2>2, <2>3 DEF Reaped
  <2> QED
    BY <2>1, <2>3, <2>4 DEF PictureInv
<1>5. CASE pc' \notin {"loop", "report"}
  BY <1>5 DEF PictureInv
<1>6. \/ DrawStatus \/ ForkedAll \/ Finished \/ UNCHANGED vars
      \/ \E d \in Devices : ChildExits(d)
      \/ pc' \notin {"loop", "report"}
  BY DEF Next, Parent, SetupFails, Enumerate, EnumerationFails, Choose, ShareNothing,
     ShareFails, FreeTraps, Share, Fork, ForkFails, Sweep, PollAlive, Reap, PollFails, PassOver,
     DrawStatusTraps, Report, Gone, Exit
<1> QED
  BY <1>1, <1>2, <1>3, <1>4, <1>5, <1>6

\* When the polling is over the window shows each selected device as it ended,
\* however exits, polls and pictures interleave (dwipe.c:425-470).
THEOREM LastPictureAlwaysFinal == Spec => []LastPictureIsFinal
<1>1. Init => PictureInv
  BY DEF Init, PictureInv
<1>2. MainInv /\ PictureInv => LastPictureIsFinal
  BY DEF MainInv, ReportsLast, PictureInv, LastPictureIsFinal
<1> QED
  BY <1>1, <1>2, PictureStep, MainAlways, PTL DEF Spec

-----------------------------------------------------------------------------
\* The refinement needs to know that no process is forked twice.
NotYetForked == pc = "fork" => \A d \in todo : child[d] = "none"

LEMMA NotYetForkedStep ==
  ASSUME MainInv, NotYetForked, [Next]_vars
  PROVE  NotYetForked'
<1>1. CASE Share
  BY <1>1 DEF Share, MainInv, NothingForked, NotYetForked, Selected
<1>2. CASE Fork
  <2> DEFINE d == First(todo)
  <2>1. child' = [child EXCEPT ![d] = "running"] /\ todo' = todo \ {d} /\ pc = "fork"
    BY <1>2 DEF Fork
  <2> HIDE DEF d
  <2> QED
    BY <2>1 DEF NotYetForked, MainInv, TypeInv, TypeOK
<1>3. CASE ForkFails
  BY <1>3 DEF ForkFails, NotYetForked
<1>4. ASSUME NEW d \in Devices, ChildExits(d) PROVE NotYetForked'
  BY <1>4 DEF ChildExits, NotYetForked, MainInv, TypeInv, TypeOK
<1>5. CASE UNCHANGED vars
  BY <1>5 DEF vars, NotYetForked
<1>6. [Next]_vars => \/ Share \/ Fork \/ ForkFails \/ UNCHANGED vars
                     \/ pc' # "fork" \/ \E d \in Devices : ChildExits(d)
  BY DEF Next, Parent, SetupFails, Enumerate, EnumerationFails, Choose, ShareNothing,
     ShareFails, FreeTraps, ForkedAll, Sweep, PollAlive, Reap, PollFails, PassOver,
     DrawStatus, DrawStatusTraps, Finished, Report, Gone, Exit
<1> QED
  BY <1>1, <1>2, <1>3, <1>4, <1>5, <1>6 DEF NotYetForked

\* The abstract state, under the refinement mapping of DwipeMain.
JobState == [d \in Devices |->
               CASE child[d] = "none"    -> "idle"
                 [] child[d] = "running" -> "wiping"
                 [] OTHER -> IF exit[d] = 0 THEN "wiped" ELSE "unwiped"]
JobVerdict == IF pc # "done" THEN "none" ELSE IF code = 0 THEN "good" ELSE "bad"

LEMMA JobInit == Init => Job!Init
<1> SUFFICES ASSUME Init PROVE Job!Init
  OBVIOUS
<1>1. Selected = {}
  BY DEF Init, Selected
<1>2. JobState = [d \in Devices |-> "idle"] /\ JobVerdict = "none"
  BY DEF Init, JobState, JobVerdict
<1> QED
  BY <1>1, <1>2 DEF Job!Init, JobState, JobVerdict

\* The abnormal exits give the bad verdict; so do the reports of any trouble.
LEMMA JobExit ==
  ASSUME MainInv, NEW status, Exit(status), pc # "done",
         UNCHANGED <<select, child, exit>>,
         status = 0 => Selected # {} /\ \A d \in Selected : child[d] = "reaped" /\ exit[d] = 0
  PROVE  Job!Next
<1>1. Selected' = Selected /\ JobState' = JobState
  BY DEF Selected, JobState
<1>2. JobVerdict = "none" /\ JobVerdict' = IF status = 0 THEN "good" ELSE "bad"
  BY DEF JobVerdict, Exit
<1>3. status = 0 => \A d \in Selected : JobState[d] = "wiped"
  BY DEF JobState, Selected
<1>4. Job!Conclude
  BY <1>1, <1>2, <1>3 DEF Job!Conclude, JobState, JobVerdict
<1> QED
  BY <1>4 DEF Job!Next

LEMMA JobStep ==
  ASSUME MainInv, MainInv', NotYetForked, [Next]_vars
  PROVE  [Job!Next]_(Job!vars)
<1>1. CASE Fork
  <2> PICK d \in todo : d = First(todo)
    BY <1>1, FirstInTodo DEF Fork, MainInv, TypeInv, TypeOK
  <2>1. d \in Devices
    BY DEF MainInv, TypeInv, TypeOK
  <2>2. d \in Selected /\ Selected' = Selected /\ pc' = pc /\ pc = "fork" /\ code' = code
    BY <1>1, <2>1 DEF Fork, MainInv, LoopsOverSelected, Selected
  <2>3. child[d] = "none" /\ child' = [child EXCEPT ![d] = "running"] /\ exit' = exit
    BY <1>1, <2>1, <2>2 DEF Fork, NotYetForked
  <2>4. JobState[d] = "idle" /\ JobState' = [JobState EXCEPT ![d] = "wiping"]
    BY <2>1, <2>3 DEF JobState, MainInv, TypeInv, TypeOK
  <2>5. JobVerdict = "none" /\ JobVerdict' = JobVerdict
    BY <2>2 DEF JobVerdict
  <2>6. Job!Start(d)
    BY <2>2, <2>4, <2>5 DEF Job!Start, JobState, JobVerdict
  <2> QED
    BY <2>1, <2>6 DEF Job!Next
<1>2. ASSUME NEW d \in Devices, ChildExits(d) PROVE [Job!Next]_(Job!vars)
  <2>1. Selected' = Selected /\ JobVerdict' = JobVerdict
    BY <1>2 DEF ChildExits, Selected, JobVerdict
  <2>2. /\ child[d] = "running" /\ child' = [child EXCEPT ![d] = "exited"]
        /\ \E e \in Exits : exit' = [exit EXCEPT ![d] = e]
    BY <1>2 DEF ChildExits
  <2>3. JobState[d] = "wiping"
    BY <2>2 DEF JobState
  <2>4. \E s \in {"wiped", "unwiped"} : JobState' = [JobState EXCEPT ![d] = s]
    <3> PICK e \in Exits : exit' = [exit EXCEPT ![d] = e]
      BY <2>2
    <3> DEFINE s == IF e = 0 THEN "wiped" ELSE "unwiped"
    <3>1. JobState' = [JobState EXCEPT ![d] = s]
      BY <2>2 DEF JobState, MainInv, TypeInv, TypeOK
    <3> QED
      BY <3>1
  <2>5. Job!End(d)
    BY <2>1, <2>3, <2>4 DEF Job!End, JobState, JobVerdict
  <2> QED
    BY <2>5 DEF Job!Next
<1>3. CASE Enumerate \/ Choose
  <2>1. /\ pc \in {"enumerate", "share"} /\ pc' \in {"enumerate", "share"}
        /\ UNCHANGED <<child, exit, code>>
    BY <1>3 DEF Enumerate, Choose
  <2>2. \A d \in Devices : JobState[d] = "idle"
    BY <2>1 DEF MainInv, NothingForked, JobState
  <2>3. JobState' = JobState /\ JobVerdict = "none" /\ JobVerdict' = "none"
    BY <2>1 DEF JobState, JobVerdict
  <2>4. Selected' \in SUBSET Devices
    BY DEF Selected
  <2>5. Job!Choose
    BY <2>2, <2>3, <2>4 DEF Job!Choose, JobState, JobVerdict
  <2> QED
    BY <2>5 DEF Job!Next
<1>4. CASE Report
  <2>1. code' = 0 => Selected' # {} /\ \A d \in Selected' : child'[d] = "reaped" /\ exit'[d] = 0
    BY <1>4 DEF Report, Exit, MainInv, SuccessIsTrue
  <2>2. Selected' = Selected
    BY <1>4 DEF Report, Selected
  <2> QED
    BY <1>4, <2>1, <2>2, JobExit DEF Report, Exit
<1>5. CASE SetupFails \/ EnumerationFails \/ ShareNothing \/ ShareFails \/ FreeTraps
           \/ PollFails \/ DrawStatusTraps
  <2>1. \E status : status # 0 /\ Exit(status)
    BY <1>5, StatusTypes DEF SetupFails, EnumerationFails, ShareNothing, ShareFails, FreeTraps,
       PollFails, DrawStatusTraps, ENOENT, ECHILD, ENOMEM, EINVAL, ShellStatus, SIGABRT, SIGFPE,
       SIGSEGV
  <2>2. pc # "done" /\ UNCHANGED <<select, child, exit>>
    BY <1>5 DEF SetupFails, EnumerationFails, ShareNothing, ShareFails, FreeTraps, PollFails,
       DrawStatusTraps
  <2> QED
    BY <2>1, <2>2, JobExit
<1>6. CASE Reap
  <2> DEFINE d == First(todo)
  <2>1. /\ child[d] = "exited" /\ child' = [child EXCEPT ![d] = "reaped"]
        /\ UNCHANGED <<select, exit, pc, code>>
    BY <1>6 DEF Reap
  <2> HIDE DEF d
  <2>2. JobState' = JobState
    BY <2>1 DEF JobState, MainInv, TypeInv, TypeOK
  <2>3. Selected' = Selected /\ JobVerdict' = JobVerdict
    BY <2>1 DEF Selected, JobVerdict
  <2> QED
    BY <2>2, <2>3 DEF Job!vars, JobState, JobVerdict
<1>7. CASE UNCHANGED <<select, child, exit, code>> /\ (pc' = "done" <=> pc = "done")
  <2>1. Selected' = Selected /\ JobState' = JobState /\ JobVerdict' = JobVerdict
    BY <1>7 DEF Selected, JobState, JobVerdict
  <2> QED
    BY <2>1 DEF Job!vars, JobState, JobVerdict
<1>8. CASE ForkFails \/ Share \/ ForkedAll \/ Sweep \/ PollAlive \/ PassOver \/ DrawStatus
           \/ Finished \/ Gone \/ UNCHANGED vars
  BY <1>7, <1>8 DEF ForkFails, Share, ForkedAll, Sweep, PollAlive, PassOver, DrawStatus,
     Finished, Gone, vars
<1> QED
  BY <1>1, <1>2, <1>3, <1>4, <1>5, <1>6, <1>8 DEF Next, Parent

\* The parent and its processes implement the abstract wipe job: devices are
\* chosen before the first wipe, each is wiped once, and the verdict is good only
\* when every chosen device was wiped (dwipe.c:317-517).
THEOREM MainImplementsWipeJob == Spec => ImplementsWipeJob
<1>1. Init => NotYetForked
  BY DEF Init, NotYetForked
<1>2. Init => Job!Init
  BY JobInit
<1>3. MainInv /\ NotYetForked /\ [Next]_vars => NotYetForked'
  BY NotYetForkedStep
<1>4. MainInv /\ MainInv' /\ NotYetForked /\ [Next]_vars => [Job!Next]_(Job!vars)
  BY JobStep
<1> QED
  BY <1>1, <1>2, <1>3, <1>4, MainAlways, PTL DEF Spec, ImplementsWipeJob, Job!Spec
-----------------------------------------------------------------------------
\* How the program can still end: waitpid fails, or the status window traps.
CutShort ==
  \/ WaitMayFail /\ code = ECHILD
  \/ MayStall /\ code = ShellStatus(SIGFPE)

\* A device whose fork failed is selected and never gets a process; so it is never
\* counted, and the polling loop never comes to its end.
ForkFailedInv ==
  \A d \in Devices : pid[d] = -1 =>
    /\ d \in Selected /\ child[d] = "none"
    /\ pc \in {"fork", "loop", "sweep", "done"}
    /\ pc = "fork" => d \notin todo
    /\ pc = "done" => CutShort

\* Of the steps that come after a failed fork, those that matter.
LEMMA AfterForkFailed ==
  ASSUME MainInv, ForkFailedInv, [Next]_vars,
         NEW d \in Devices, pid[d] = -1
  PROVE  /\ UNCHANGED select /\ pid'[d] = -1 /\ child'[d] = "none"
         /\ pc' \in {"fork", "loop", "sweep", "done"}
         /\ pc' = "fork" => d \notin todo'
         /\ pc' = "done" => CutShort'
<1> DEFINE e == First(todo)
<1>1. /\ d \in Selected /\ child[d] = "none" /\ d \notin Reaped
      /\ pc \in {"fork", "loop", "sweep", "done"}
      /\ pc = "fork" => d \notin todo
      /\ pc = "done" => CutShort
  BY DEF ForkFailedInv, Reaped
<1>2. ~AllReturned
  BY <1>1, AllReapedAtLast
<1>3. todo # {} => e \in todo /\ e \in Devices
  BY FirstInTodo DEF MainInv, TypeInv, TypeOK
<1> HIDE DEF e
<1>4. CASE Fork \/ ForkFails
  <2>1. e # d /\ pc' = "fork" /\ todo' \subseteq todo /\ UNCHANGED select
    BY <1>1, <1>3, <1>4 DEF Fork, ForkFails
  <2>2. \E p, c : pid' = [pid EXCEPT ![e] = p] /\ (child' = child \/ child' = [child EXCEPT ![e] = c])
    BY <1>4 DEF Fork, ForkFails, e
  <2> QED
    BY <1>1, <1>4, <2>1, <2>2 DEF MainInv, TypeInv, TypeOK, Fork, ForkFails
<1>5. CASE Reap
  <2>1. e # d /\ pc' = "sweep" /\ UNCHANGED select
    BY <1>1, <1>3, <1>5 DEF Reap, e
  <2>2. pid' = [pid EXCEPT ![e] = 0] /\ child' = [child EXCEPT ![e] = "reaped"]
    BY <1>5 DEF Reap, e
  <2> QED
    BY <1>1, <2>1, <2>2 DEF MainInv, TypeInv, TypeOK
<1>6. ASSUME NEW x \in Devices, ChildExits(x)
      PROVE  /\ UNCHANGED <<select, pid, pc, todo, code>> /\ child'[d] = "none"
  BY <1>1, <1>6 DEF ChildExits, MainInv, TypeInv, TypeOK
<1>7. CASE PollFails \/ DrawStatusTraps
  BY <1>1, <1>7 DEF PollFails, DrawStatusTraps, Exit, CutShort
<1>8. CASE ForkedAll \/ Sweep \/ PollAlive \/ PassOver \/ DrawStatus \/ Gone \/ UNCHANGED vars
  BY <1>1, <1>8 DEF ForkedAll, Sweep, PollAlive, PassOver, DrawStatus, Gone, vars, CutShort
<1>9. \/ Fork \/ ForkFails \/ Reap \/ PollFails \/ DrawStatusTraps
      \/ ForkedAll \/ Sweep \/ PollAlive \/ PassOver \/ DrawStatus \/ Gone \/ UNCHANGED vars
      \/ \E x \in Devices : ChildExits(x)
  BY <1>1, <1>2 DEF Next, Parent, SetupFails, Enumerate, EnumerationFails, Choose,
     ShareNothing, ShareFails, FreeTraps, Share, Finished, Report
<1>10. CASE \E x \in Devices : ChildExits(x)
  BY <1>1, <1>6, <1>10 DEF CutShort
<1> QED
  BY <1>4, <1>5, <1>7, <1>8, <1>9, <1>10

LEMMA ForkFailedStep ==
  ASSUME MainInv, NotYetForked, ForkFailedInv, [Next]_vars
  PROVE  ForkFailedInv'
<1> SUFFICES ASSUME NEW d \in Devices, pid'[d] = -1
             PROVE  /\ d \in Selected' /\ child'[d] = "none"
                    /\ pc' \in {"fork", "loop", "sweep", "done"}
                    /\ pc' = "fork" => d \notin todo'
                    /\ pc' = "done" => CutShort'
  BY DEF ForkFailedInv
<1>1. CASE pid[d] = -1
  <2>1. d \in Selected
    BY <1>1 DEF ForkFailedInv
  <2> QED
    BY <1>1, <2>1, AfterForkFailed DEF Selected
<1>2. CASE pid[d] # -1
  <2>1. ForkFails /\ d = First(todo)
    <3>1. UNCHANGED pid \/ (\E e : pid' = [pid EXCEPT ![e] = Pid] \/ pid' = [pid EXCEPT ![e] = 0])
          \/ ForkFails
      BY DEF Next, Parent, SetupFails, Enumerate, EnumerationFails, Choose, ShareNothing,
         ShareFails, FreeTraps, Share, Fork, ForkedAll, Sweep, PollAlive, Reap, PollFails,
         PassOver, DrawStatus, DrawStatusTraps, Finished, Report, ChildExits, Gone, vars
    <3>2. ForkFails
      BY <1>2, <3>1 DEF Pid, MainInv, TypeInv, TypeOK
    <3> QED
      BY <1>2, <3>2 DEF ForkFails, MainInv, TypeInv, TypeOK
  <2>2. d \in todo
    BY <2>1, FirstInTodo DEF ForkFails, MainInv, TypeInv, TypeOK
  <2>3. d \in Selected /\ child[d] = "none"
    BY <2>1, <2>2 DEF ForkFails, MainInv, LoopsOverSelected, NotYetForked
  <2> QED
    BY <2>1, <2>3 DEF ForkFails, Selected
<1> QED
  BY <1>1, <1>2

\* Once the fork of a process has failed the parent never reports, whatever becomes
\* of the processes: only an error of waitpid or the trap of the status window can
\* end it, and where neither happens it polls for ever (dwipe.c:397-425).
THEOREM ForkFailedNeverReports ==
  Spec => [](\A d \in Devices : pid[d] = -1 => pc # "report" /\ (pc = "done" => CutShort))
<1>1. Init => NotYetForked /\ ForkFailedInv
  BY DEF Init, NotYetForked, ForkFailedInv
<1>2. MainInv /\ NotYetForked /\ ForkFailedInv /\ [Next]_vars => NotYetForked' /\ ForkFailedInv'
  BY NotYetForkedStep, ForkFailedStep
<1>3. ForkFailedInv =>
        \A d \in Devices : pid[d] = -1 => pc # "report" /\ (pc = "done" => CutShort)
  BY DEF ForkFailedInv
<1> QED
  BY <1>1, <1>2, <1>3, MainAlways, PTL DEF Spec
=============================================================================
