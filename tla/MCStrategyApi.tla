---------------------------- MODULE MCStrategyApi ----------------------------
(***************************************************************************)
(* A cache for one answer and two keys, so that storing one evicts the     *)
(* other; one instance of a scanner and one of another strategy; one       *)
(* position and two editors.                                               *)
(***************************************************************************)
EXTENDS ApiWrites, TLC

Symmetry == Permutations(Keys) \cup Permutations(Requests) \cup Permutations(Editors)
=============================================================================
