---------------------------- MODULE MCPriceLevels ----------------------------
(***************************************************************************)
(* Instance of PriceLevels for TLC: books of up to five levels.            *)
(***************************************************************************)
EXTENDS PriceLevels

FivePrices == 1 .. 5
=============================================================================
