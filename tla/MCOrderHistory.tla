--------------------------- MODULE MCOrderHistory ---------------------------
(***************************************************************************)
(* Three orders.  The exchanges are one of each kind, whose numbers may    *)
(* coincide, or those of deploy_sample.cfg, of which no pass survives the  *)
(* second.                                                                 *)
(***************************************************************************)
EXTENDS OrderHistory

MCSettings ==
  {<<"BITTREX", "POLONIEX", "HUOBI", "KRAKEN">>, <<"BITTREX", "BINANCE", "POLONIEX">>}
Symmetry == Permutations(Orders) \cup Permutations(Numbers)
=============================================================================
