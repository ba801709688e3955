---------------------------- MODULE MCBusLossless ----------------------------
(***************************************************************************)
(* Two subscribers of orders and one of alerts.  Their handlers publish:   *)
(* s1 turns orders into alerts, so that a publisher of orders can wait for *)
(* s1, which waits for s3, and s2 turns orders into ticks nobody takes.    *)
(***************************************************************************)
EXTENDS EventBus, TLC

CONSTANTS orders, alerts, ticks, s1, s2, s3, p1, p2

MCTopicOf == s1 :> orders @@ s2 :> orders @@ s3 :> alerts
MCRelay   == s1 :> alerts @@ s2 :> ticks @@ s3 :> None
MCPosts   == p1 :> {orders} @@ p2 :> {alerts}
MCMaxSent == p1 :> 3 @@ p2 :> 1 @@ s1 :> 2 @@ s2 :> 0 @@ s3 :> 0 @@ None :> 1
=============================================================================
