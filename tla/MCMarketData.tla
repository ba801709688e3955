---------------------------- MODULE MCMarketData ----------------------------
(***************************************************************************)
(* One worker at a queue of one place, so that a second market meets it    *)
(* full, and a log whose buffer holds one event, so that it overflows.  No *)
(* symmetry: the run checks a liveness property.                           *)
(***************************************************************************)
EXTENDS BookIngest
=============================================================================
