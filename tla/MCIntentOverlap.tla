--------------------------- MODULE MCIntentOverlap ---------------------------
(***************************************************************************)
(* IntentExecution with two calls in flight at once.                       *)
(***************************************************************************)
EXTENDS IntentExecution, TLC

Symmetry == Permutations(Intents) \cup Permutations(Calls)
=============================================================================
