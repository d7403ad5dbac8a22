------------------------------ MODULE DbanRcMC ------------------------------
(* Instances of DbanRc for TLC. *)
EXTENDS DbanRc

\* One signal stands for those a process may die of.
MCSignals == {9}
=============================================================================
