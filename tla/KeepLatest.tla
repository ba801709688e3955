----------------------------- MODULE KeepLatest -----------------------------
(***************************************************************************)
(* What a lossy subscription promises (libs/events/__init__.py:9-15): a    *)
(* mailbox of bounded size that holds the newest event of each key until   *)
(* it is handled.  An event that finds the mailbox full displaces another, *)
(* never a newer one of its own key.  Which one is displaced, and in which *)
(* order events are taken, is left open.                                   *)
(***************************************************************************)
EXTENDS Integers, FiniteSets

CONSTANTS Keys, Cap

VARIABLES
  box,    \* the newest event of each key that waits, 0 for none
  other,  \* how many events without a key wait
  out     \* the newest event of each key that was handled

vars == <<box, other, out>>

Held == Cardinality({k \in Keys : box[k] # 0}) + other

Init ==
  /\ box = [k \in Keys |-> 0]
  /\ other = 0
  /\ out = [k \in Keys |-> 0]

Alone(ks) == \A j \in Keys \ ks : box'[j] = box[j]

(* One of the waiting events, not of a key of ks, is displaced. *)
Displace(ks) ==
  \/ \E e \in Keys \ ks : box[e] # 0 /\ box'[e] = 0 /\ Alone(ks \cup {e}) /\ other' = other
  \/ other > 0 /\ Alone(ks) /\ other' = other - 1

(* A newer event of a key arrives. *)
Post(k) ==
  /\ box' \in [Keys -> Nat] /\ box'[k] > box[k] /\ box'[k] > out[k]
  /\ out' = out
  /\ \/ box[k] # 0 /\ Alone({k}) /\ other' = other
     \/ box[k] = 0 /\ Held < Cap /\ Alone({k}) /\ other' = other
     \/ box[k] = 0 /\ Held = Cap /\ Displace({k})

(* An event without a key arrives. *)
PostOther ==
  /\ box' \in [Keys -> Nat]
  /\ out' = out
  /\ \/ Held < Cap /\ Alone({}) /\ other' = other + 1
     \/ Held = Cap /\ \E e \in Keys :
          box[e] # 0 /\ box'[e] = 0 /\ Alone({e}) /\ other' = other + 1
     \/ Held = Cap /\ other > 0 /\ Alone({}) /\ other' = other

Take(k) ==
  /\ box[k] # 0
  /\ box' = [box EXCEPT ![k] = 0]
  /\ out' = [out EXCEPT ![k] = box[k]]
  /\ other' = other

TakeOther ==
  /\ other > 0 /\ other' = other - 1
  /\ UNCHANGED <<box, out>>

Next ==
  \/ \E k \in Keys : Post(k) \/ Take(k)
  \/ PostOther
  \/ TakeOther

Spec == Init /\ [][Next]_vars
=============================================================================
