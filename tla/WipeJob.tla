------------------------------- MODULE WipeJob -------------------------------
(***************************************************************************)
(* What a wipe of several devices promises, whatever the processes, polls   *)
(* and signals behind it: devices are chosen before the first wipe starts,  *)
(* each chosen one is wiped at most once and no other is touched, and the   *)
(* verdict is good only if each chosen device has been wiped.               *)
(***************************************************************************)
CONSTANT Items       \* the devices

VARIABLES
  chosen,   \* the devices to be wiped
  state,    \* how far each device is
  verdict   \* what the user is told at the end

vars == <<chosen, state, verdict>>

Init ==
  /\ chosen = {}
  /\ state = [d \in Items |-> "idle"]
  /\ verdict = "none"

\* The choice may change as long as nothing was started.
Choose ==
  /\ verdict = "none"
  /\ \A d \in Items : state[d] = "idle"
  /\ chosen' \in SUBSET Items
  /\ UNCHANGED <<state, verdict>>

Start(d) ==
  /\ verdict = "none" /\ d \in chosen /\ state[d] = "idle"
  /\ state' = [state EXCEPT ![d] = "wiping"]
  /\ UNCHANGED <<chosen, verdict>>

End(d) ==
  /\ state[d] = "wiping"
  /\ \E s \in {"wiped", "unwiped"} : state' = [state EXCEPT ![d] = s]
  /\ UNCHANGED <<chosen, verdict>>

\* A bad verdict may come at any time, a good one only when it is true.
Conclude ==
  /\ verdict = "none"
  /\ \/ verdict' = "bad"
     \/ /\ chosen # {} /\ \A d \in chosen : state[d] = "wiped"
        /\ verdict' = "good"
  /\ UNCHANGED <<chosen, state>>

Next == Choose \/ Conclude \/ \E d \in Items : Start(d) \/ End(d)

Spec == Init /\ [][Next]_vars
=============================================================================
