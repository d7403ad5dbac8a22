----------------------------- MODULE WipeProcess -----------------------------
(***************************************************************************)
(* What the parent relies on in a wipe process: it announces how many bytes *)
(* it will transfer, its progress only grows and never passes that number,  *)
(* and it ends once, with 0 or 1 only after all the bytes, or with -1, or   *)
(* by a signal.                                                             *)
(***************************************************************************)
EXTENDS Integers

CONSTANT Fatal      \* the exits that promise nothing: -1 and the signals

VARIABLES
  running,   \* whether the process lives
  plan,      \* round_size: zero until it is announced
  done,      \* round_done
  exit       \* how the process ended

vars == <<running, plan, done, exit>>

Init == running = TRUE /\ plan = 0 /\ done = 0 /\ exit = 0

Announce ==
  /\ running /\ plan = 0
  /\ plan' \in Nat \ {0}
  /\ UNCHANGED <<running, done, exit>>

Advance ==
  /\ running
  /\ done' \in Nat /\ done < done' /\ done' <= plan
  /\ UNCHANGED <<running, plan, exit>>

Complete ==
  /\ running /\ plan > 0 /\ done = plan
  /\ running' = FALSE
  /\ exit' \in {0, 1}
  /\ UNCHANGED <<plan, done>>

Abort ==
  /\ running
  /\ running' = FALSE
  /\ exit' \in Fatal
  /\ UNCHANGED <<plan, done>>

Next == Announce \/ Advance \/ Complete \/ Abort

Spec == Init /\ [][Next]_vars
=============================================================================
