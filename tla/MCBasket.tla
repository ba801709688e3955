------------------------------ MODULE MCBasket ------------------------------
(***************************************************************************)
(* Two baskets that share a live venue; one of them has a paper leg, the   *)
(* other one legs that cannot be executed.                                 *)
(***************************************************************************)
EXTENDS BasketExecution, TLC

CONSTANTS b1, b2, binance, bybit, hyperliquid, kraken

MCKind    == binance :> "paper" @@ bybit :> "live" @@ hyperliquid :> "unavailable" @@ kraken :> "absent"
MCVenueOf == b1 :> <<bybit, binance>> @@ b2 :> <<kraken, bybit, hyperliquid>>

(* The venues that apps/api/main.py sets up. *)
MCProduction == b1 :> <<binance, hyperliquid>>
=============================================================================
