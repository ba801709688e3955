----------------------------- MODULE MCBusLossy -----------------------------
(***************************************************************************)
(* Market data with and without a key, for a subscriber that fails now and *)
(* then and may be unsubscribed, on a bus that is closed and revived.      *)
(* Lossy subscriptions never wait for one another, so one of them does.    *)
(***************************************************************************)
EXTENDS EventBus, TLC

CONSTANTS ticks, s1, p1, k1, k2

MCTopicOf == [s \in Subs |-> ticks]
MCRelay   == [s \in Subs |-> None]
MCPosts   == [p \in Producers |-> {ticks}]
MCMaxSent == [x \in Sources |-> 2]
=============================================================================
