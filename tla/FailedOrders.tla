---------------------------- MODULE FailedOrders -----------------------------
(***************************************************************************)
(* services/failed_order_processing.py and core/failed_order.py: find out  *)
(* whether an order whose placement went wrong is at the exchange, and     *)
(* place it at the market rate if it is not.                               *)
(***************************************************************************)
EXTENDS OrderPlacement

\* get_next_order: lpop.
Pop(p) ==
  /\ pc[p] = "poll"
  /\ failed # <<>>
  /\ Put(p, Head(failed), "open")
  /\ failed' = Tail(failed)
  /\ UNCHANGED <<exch, bot, watch, recorded, restarts, history>>

\* Mutant: the open orders are not searched.
NoOpenSearch(p) ==
  /\ pc[p] = "open"
  /\ Goto(p, "history")
  /\ UNCHANGED <<exch, bot, queues, hand, restarts, history>>

\* search_in_open_orders; after a failed call it is called again. An order
\* that is found gets its id (the last match of the list) and goes to the watch
\* list. update_order_details only touches the database.
SearchOpen(p) ==
  /\ pc[p] = "open"
  /\ LET found == {id \in OpenOrders : Matches(hand[p].order, id)}
     IN  IF found = {}
           THEN Goto(p, "history") /\ UNCHANGED hand
           ELSE \E id \in found : Put(p, [hand[p] EXCEPT !.oid = id], "watch")
  /\ UNCHANGED <<exch, bot, queues, restarts, history>>

\* search_in_order_history, likewise; an order found there needs no more work.
\* One that is there may be overlooked: the history that Poloniex, Huobi and Kraken
\* are asked for ends when the service was started (the default of time_end), and
\* the price compared is that of the execution at Bittrex and Poloniex. At Binance
\* the request raises a TypeError: the service ends there (Crash).
SearchHistory(p) ==
  /\ pc[p] = "history"
  /\ \/ /\ \E id \in ClosedOrders : Matches(hand[p].order, id)
        /\ Release(p)
     \/ Goto(p, "market") /\ UNCHANGED hand
  /\ UNCHANGED <<exch, bot, queues, restarts, history>>

FailedStep(p) ==
  \/ Pop(p) \/ SearchOpen(p) \/ SearchHistory(p)
  \/ Market(p) \/ Post(p) \/ Save(p) \/ Watch(p)
=============================================================================
