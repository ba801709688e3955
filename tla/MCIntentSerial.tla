--------------------------- MODULE MCIntentSerial ---------------------------
(***************************************************************************)
(* IntentExecution with one call at a time, and every fault: crashes,      *)
(* failed reads and writes, raising executors.                             *)
(***************************************************************************)
EXTENDS IntentExecution, TLC

Symmetry == Permutations(Intents)
=============================================================================
