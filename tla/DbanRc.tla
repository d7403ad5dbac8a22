-------------------------------- MODULE DbanRc --------------------------------
(***************************************************************************)
(* The boot script in.root/rc around dwipe: it prepares the system, runs     *)
(* dwipe as its child, and tells the user the outcome from the exit status.  *)
(* It ends in a loop that lets the user save the log, so an outcome, once    *)
(* told, is final.                                                           *)
(***************************************************************************)
EXTENDS DwipeMain

VARIABLE rc       \* boot, dwipe, or what the user was told

rcVars == <<vars, rc>>

RcInit == Init /\ rc = "boot"

\* Mounting /proc and the scratch tmpfs, making the log directory, and the
\* sanity check of /proc/scsi/scsi: each failure ends in dbanFail.
BootFails ==
  /\ rc = "boot"
  /\ rc' = "failed"
  /\ UNCHANGED vars

\* The floppy and the seed files change nothing but the entropy pool.
StartDwipe ==
  /\ rc = "boot"
  /\ rc' = "dwipe"
  /\ UNCHANGED vars

DwipeRuns ==
  /\ rc = "dwipe"
  /\ Parent
  /\ UNCHANGED rc

\* The wipe processes run as soon as they are forked, and on when dwipe is gone.
ProcessRuns == (\E d \in Devices : ChildExits(d)) /\ UNCHANGED rc

\* Mutant: the script takes the status for a signed return value.
OutcomeSigned(status) ==
  CASE status > 127 -> "failed"
    [] status = 0   -> "succeeded"
    [] OTHER        -> "warned"

\* What the script makes of $?, which a shell never sees negative.
Outcome(status) ==
  CASE status < 0 -> "failed"
    [] status = 0 -> "succeeded"
    [] OTHER      -> "warned"

TellOutcome ==
  /\ rc = "dwipe" /\ pc = "done"
  /\ rc' = Outcome(code)
  /\ UNCHANGED vars

\* Reading ENTER and saving the log for ever.
SaveLogForever == rc \in {"failed", "succeeded", "warned"} /\ UNCHANGED rcVars

RcNext ==
  \/ BootFails \/ StartDwipe \/ DwipeRuns \/ ProcessRuns \/ TellOutcome
  \/ SaveLogForever

RcSpec == RcInit /\ [][RcNext]_rcVars

\* The kernel schedules the script and dwipe, whose getch() and waitpid() never block
\* for ever, and every wipe process comes to its exit (WipeEnds of DwipeMethod).
RcFairness ==
  /\ WF_rcVars(BootFails \/ StartDwipe \/ DwipeRuns \/ TellOutcome)
  /\ \A d \in Devices : WF_rcVars(ChildExits(d) /\ UNCHANGED rc)

RcFairSpec == RcSpec /\ RcFairness

-----------------------------------------------------------------------------
\* The types of dwipe and of what the user was told.
RcTypeOK == TypeOK /\ rc \in {"boot", "dwipe", "failed", "succeeded", "warned"}

\* "All selected disks have been wiped" (rc:360) is told only when the process of
\* every selected disk returned 0, and there was one.
SuccessToldIsTrue ==
  rc = "succeeded" =>
    /\ Selected # {}
    /\ \A d \in Selected : child[d] = "reaped" /\ exit[d] = 0

\* "DBAN failed. The disks have not been wiped." (rc:154) is told only when no
\* disk was written to.
FailureToldIsTrue == rc = "failed" => \A d \in Devices : child[d] = "none"

\* The user is told an outcome, unless a fork failed: no exit is missed by a poll that
\* came too early, every reaped process counts, and every end of dwipe has a status
\* that the script makes something of.
OutcomeIsTold ==
  <>(rc \in {"failed", "succeeded", "warned"} \/ \E d \in Devices : pid[d] = -1)
=============================================================================
