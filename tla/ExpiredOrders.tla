---------------------------- MODULE ExpiredOrders ----------------------------
(***************************************************************************)
(* services/expired_order_processing.py and core/expired_order.py: take    *)
(* the order that has been on the watch list longest, wait until it is old *)
(* enough, and replace what is left of it at the market rate.              *)
(***************************************************************************)
EXTENDS OrderPlacement

\* get_oldest_order, zrevrange: look at the oldest member, without taking it.
First(p) ==
  /\ pc[p] = "poll"
  /\ watch # <<>>
  /\ Put(p, Head(watch), "claim")
  /\ UNCHANGED <<exch, bot, queues, restarts, history>>

\* Mutants: what zrem answers is not looked at, so that a Trade that somebody
\* else has taken is worked on too; the caller goes on without any Trade.
ClaimUnchecked(p) ==
  /\ pc[p] = "claim"
  /\ watch' = SelectSeq(watch, LAMBDA t : t # hand[p])
  /\ Goto(p, "query")
  /\ UNCHANGED <<exch, bot, failed, recorded, hand, restarts, history>>

ClaimOfNone(p) ==
  /\ pc[p] = "claim"
  /\ watch' = SelectSeq(watch, LAMBDA t : t # hand[p])
  /\ Put(p, IF watch' = watch THEN NoTrade ELSE hand[p], "query")
  /\ UNCHANGED <<exch, bot, failed, recorded, restarts, history>>

\* get_oldest_order, zrem: the member is ours if the call removed it, and
\* otherwise somebody else was faster and the loop looks again. The wait of
\* ORDER_EXPIRATION_TIMEOUT follows, with the Trade in hand.
Claim(p) ==
  /\ pc[p] = "claim"
  /\ \/ \E i \in DOMAIN watch :
          /\ watch[i] = hand[p]
          /\ watch' = RemoveAt(watch, i)
          /\ Goto(p, "query")
          /\ UNCHANGED <<hand, failed, recorded>>
     \/ /\ \A i \in DOMAIN watch : watch[i] # hand[p]
        /\ Release(p)
        /\ UNCHANGED queues
  /\ UNCHANGED <<exch, bot, restarts, history>>

\* Mutant: every exchange is taken to report the volume executed.
ExecutedTaken(t) == IF t.oid \in OpenOrders THEN Less(t.vol, exch[t.oid].done) ELSE t.vol

\* executed_volume_updated. From Poloniex the report's volume is taken, which is
\* the one the order was placed with (Trade.from_poloniex: startingAmount). From
\* the others it is the volume executed since the order was placed, which is
\* taken off the Trade's volume each time this is called.
VolumeLeft(t) ==
  IF t.oid \notin OpenOrders THEN t.vol
  ELSE IF Poloniex THEN exch[t.oid].vol
  ELSE Less(t.vol, exch[t.oid].done)

\* Mutants: a call that failed is taken for an empty list; a Trade whose call
\* failed is not put back.
QueryFailureIsEmpty(p) ==
  /\ pc[p] = "query"
  /\ \/ forgotten' = forgotten \cup ({hand[p].oid} \ {NoId}) /\ Release(p)
     \/ /\ Put(p, [hand[p] EXCEPT !.vol = VolumeLeft(hand[p])], "cancel")
        /\ UNCHANGED forgotten
  /\ UNCHANGED <<exch, bot, queues, restarts, lost>>

QueryFailureDrops(p) ==
  /\ pc[p] = "query"
  /\ \/ Release(p)
     \/ Put(p, [hand[p] EXCEPT !.vol = VolumeLeft(hand[p])], "cancel")
  /\ UNCHANGED <<exch, bot, queues, restarts, history>>

\* get_open_orders_by_exchange and the returns that follow it. Without any open
\* order of the pair the service takes its own to be filled and drops it.
Query(p) ==
  /\ pc[p] = "query"
  /\ \/ Requeue(p) /\ Release(p) /\ UNCHANGED forgotten
     \/ /\ OpenOrders = {}
        /\ forgotten' = forgotten \cup ({hand[p].oid} \ {NoId})
        /\ Release(p)
        /\ UNCHANGED queues
     \/ /\ OpenOrders # {}
        /\ Put(p, [hand[p] EXCEPT !.vol = VolumeLeft(hand[p])], "cancel")
        /\ UNCHANGED <<queues, forgotten>>
  /\ UNCHANGED <<exch, bot, restarts, lost>>

CancelAt(id) == exch' = [exch EXCEPT ![id].st = "cancelled"]

\* cancel_by_exchange. Its status is that of the HTTP exchange alone: a timeout
\* is a failure even if the order was cancelled, and HTTP 200 is a success even
\* if its document is an error and the order is as it was.
Cancel(p) ==
  /\ pc[p] = "cancel"
  /\ \/ /\ Requeue(p) /\ Release(p)
        /\ UNCHANGED exch
     \/ /\ Requeue(p) /\ Release(p)
        /\ hand[p].oid \in OpenOrders /\ CancelAt(hand[p].oid)
     \/ /\ Goto(p, "market")
        /\ hand[p].oid \in OpenOrders /\ CancelAt(hand[p].oid)
        /\ UNCHANGED <<queues, hand>>
     \/ /\ ErrorBodies
        /\ Goto(p, "market")
        /\ UNCHANGED <<queues, hand, exch>>
  /\ UNCHANGED <<bot, restarts, history>>

ExpiredStep(p) ==
  \/ First(p) \/ Claim(p) \/ Query(p) \/ Cancel(p)
  \/ Market(p) \/ Post(p) \/ Save(p) \/ Watch(p)
=============================================================================
