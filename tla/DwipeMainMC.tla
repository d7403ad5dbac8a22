----------------------------- MODULE DwipeMainMC -----------------------------
(* Instances of DwipeMain for TLC. *)
EXTENDS DwipeMain

\* One signal stands for those a process may die of.
MCSignals == {9}
=============================================================================
