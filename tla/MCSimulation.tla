---------------------------- MODULE MCSimulation ----------------------------
(***************************************************************************)
(* A run with two instruments, so that a snapshot can hold two signals.    *)
(***************************************************************************)
EXTENDS SimulationRun, TLC

Symmetry == Permutations(Admins) \cup Permutations(Instruments)
=============================================================================
