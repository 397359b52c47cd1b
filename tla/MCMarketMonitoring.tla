------------------------- MODULE MCMarketMonitoring -------------------------
(***************************************************************************)
(* Lists of a pair that three exchanges trade, one that is listed twice,   *)
(* and two pairs of which one is asked for at Bittrex only.  In the second quote *)
(* the bid is two percent above the other's ask, and nothing is offered.   *)
(***************************************************************************)
EXTENDS MarketMonitoring

MCLists == {<<<<"BTC", "EOS">>>>, <<<<"BTC", "NAS">>, <<"BTC", "NAS">>>>, <<<<"BTC", "GAS">>, <<"BTC", "DCR">>>>}
MCQuotes == {[ask |-> 100, bid |-> 99], [ask |-> 0, bid |-> 102]}
MCTopics == <<"ticker_alerts", "deal_alerts">>
=============================================================================
