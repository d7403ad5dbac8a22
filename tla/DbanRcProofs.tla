----------------------------- MODULE DbanRcProofs -----------------------------
(***************************************************************************)
(* What the boot script tells the user, proved from what dwipe guarantees   *)
(* of its exit status, for every number of devices.                         *)
(***************************************************************************)
EXTENDS DbanRc, DwipeMainProofs

\* The script adds nothing to the behaviour of dwipe: it starts it once, and reads
\* its exit status.
LEMMA RcStepIsDwipes == RcNext => [Next]_vars
BY DEF RcNext, BootFails, StartDwipe, DwipeRuns, ProcessRuns, TellOutcome, SaveLogForever,
   rcVars, Next

\* dwipe under the script is dwipe: whatever is proved of dwipe alone holds here.
THEOREM RcImplementsDwipe == RcSpec => Spec
<1>1. RcInit => Init
  BY DEF RcInit
<1>2. [RcNext]_rcVars => [Next]_vars
  BY RcStepIsDwipes DEF rcVars
<1> QED
  BY <1>1, <1>2, PTL DEF RcSpec, Spec

-----------------------------------------------------------------------------
\* dwipe has done nothing before it was started, and what was told is told of a
\* program that has ended.
Told ==
  /\ rc \in {"boot", "dwipe", "failed", "succeeded", "warned"}
  /\ rc = "boot" => pc = "enumerate"
  /\ rc = "failed" => \A d \in Devices : child[d] = "none"
  /\ rc = "succeeded" => pc = "done" /\ code = 0

\* No status the shell reads is negative.
LEMMA NeverToldFailed ==
  ASSUME MainInv
  PROVE  Outcome(code) # "failed" /\ (Outcome(code) = "succeeded" => code = 0)
<1>1. code \in 0 .. 255
  BY DEF MainInv, TypeInv, TypeOK
<1> QED
  BY <1>1 DEF Outcome

LEMMA ToldStep ==
  ASSUME MainInv, Told, [RcNext]_rcVars
  PROVE  Told'
<1>1. CASE BootFails
  BY <1>1 DEF BootFails, Told, MainInv, NothingForked, vars
<1>2. CASE StartDwipe
  BY <1>2 DEF StartDwipe, Told
<1>3. CASE DwipeRuns
  BY <1>3 DEF DwipeRuns, Told
<1>4. CASE ProcessRuns
  <2>1. PICK d \in Devices : ChildExits(d)
    BY <1>4 DEF ProcessRuns
  <2>2. rc' = rc /\ child[d] = "running" /\ pc' = pc /\ code' = code
    BY <1>4, <2>1 DEF ProcessRuns, ChildExits
  <2> QED
    BY <2>2 DEF Told
<1>5. CASE TellOutcome
  BY <1>5, NeverToldFailed DEF TellOutcome, Told, Outcome, vars
<1>6. CASE SaveLogForever \/ UNCHANGED rcVars
  BY <1>6 DEF SaveLogForever, rcVars, vars, Told
<1> QED
  BY <1>1, <1>2, <1>3, <1>4, <1>5, <1>6 DEF RcNext

LEMMA RcAlways == RcSpec => [](MainInv /\ Told)
<1>1. RcInit => Told
  BY DEF RcInit, Init, Told
<1>2. RcSpec => []MainInv
  BY RcImplementsDwipe, MainAlways, PTL
<1> QED
  BY <1>1, <1>2, ToldStep, PTL DEF RcSpec

\* The variables of dwipe and of the script keep their types; what $? becomes is one of
\* three messages.
THEOREM RcTypeCorrect == RcSpec => []RcTypeOK
<1>1. MainInv /\ Told => RcTypeOK
  BY DEF MainInv, TypeInv, Told, RcTypeOK
<1> QED
  BY <1>1, RcAlways, PTL

\* "All selected disks have been wiped" (rc:360) is true when it is told, for any
\* number of devices and whatever failed on the way.
THEOREM SuccessAlwaysToldTruly == RcSpec => []SuccessToldIsTrue
<1>1. MainInv /\ Told => SuccessToldIsTrue
  BY DEF MainInv, Told, SuccessIsTrue, SuccessToldIsTrue
<1> QED
  BY <1>1, RcAlways, PTL

\* "The disks have not been wiped" (rc:154) is told only when no process was ever
\* forked: the script never takes an exit status of dwipe for a failure.
THEOREM FailureAlwaysToldTruly == RcSpec => []FailureToldIsTrue
<1>1. MainInv /\ Told => FailureToldIsTrue
  BY DEF Told, FailureToldIsTrue
<1> QED
  BY <1>1, RcAlways, PTL

\* What the script makes of the end of dwipe.
StatusTold ==
  rc = "dwipe" => rc' \in {"dwipe", IF code = 0 THEN "succeeded" ELSE "warned"}

\* Once dwipe was started the script never says that it failed: every status but 0,
\* the one of a fatal error too, becomes the warning (rc:345-370).
THEOREM StartedNeverToldFailed == RcSpec => [][StatusTold]_rcVars
<1>1. MainInv /\ [RcNext]_rcVars => [StatusTold]_rcVars
  <2> SUFFICES ASSUME MainInv, RcNext, rc = "dwipe" PROVE StatusTold
    BY DEF StatusTold
  <2>1. CASE DwipeRuns \/ ProcessRuns
    BY <2>1 DEF DwipeRuns, ProcessRuns, StatusTold
  <2>2. CASE TellOutcome
    <3>1. code \in 0 .. 255
      BY DEF MainInv, TypeInv, TypeOK
    <3> QED
      BY <2>2, <3>1 DEF TellOutcome, Outcome, StatusTold
  <2> QED
    BY <2>1, <2>2 DEF RcNext, BootFails, StartDwipe, SaveLogForever
<1> QED
  BY <1>1, RcAlways, PTL DEF RcSpec
=============================================================================
