--------------------------- MODULE MCOrderBookSync ---------------------------
(***************************************************************************)
(* Instances of OrderBookSync for TLC. The two sides are treated alike, so *)
(* that it does not matter which of a pair of exchanges is the buy side.   *)
(***************************************************************************)
EXTENDS OrderBookSync

Pair(b, c) == [s \in Sides |-> IF s = "buy" THEN b ELSE c]
Mixed == {Pair("binance", "poloniex"), Pair("bittrex", "huobi")}
=============================================================================
