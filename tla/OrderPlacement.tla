--------------------------- MODULE OrderPlacement ---------------------------
(***************************************************************************)
(* Placing orders: the legs a bot sends (dao/deal_utils.py), and the       *)
(* placement at market rate that both recovery services end with           *)
(* (core/arbitrage_core.py, place_order_by_market_rate).                   *)
(***************************************************************************)
EXTENDS OrderState

-----------------------------------------------------------------------------
(***************************************************************************)
(* The bot. Each leg is placed by a bot process of its own.                *)
(***************************************************************************)

\* init_deals_with_logging_speedy posts the leg and gets an answer: HTTP 200
\* with an order id; HTTP 200 with a document holding "ERROR"; HTTP 200 with
\* any other error document, which passes for a placed order without an id; or
\* no usable answer, whose error string cannot be unpacked into a pair, so that
\* the bot dies there. Whatever the answer says, the order may be on the books.
BotPost(o) ==
  /\ bot[o] = "new"
  /\ \/ /\ bot' = [bot EXCEPT ![o] = "placed"]
        /\ \E id \in FreeIds : Accept(id, o, Volume, "open")
     \/ /\ bot' = [bot EXCEPT ![o] = "refused"]
        /\ \/ UNCHANGED exch
           \/ \E id \in FreeIds : Accept(id, o, Volume, "open")
     \/ /\ ErrorBodies
        /\ bot' = [bot EXCEPT ![o] = "placed"]
        /\ UNCHANGED exch
     \/ /\ bot' = [bot EXCEPT ![o] = "dead"]
        /\ \/ UNCHANGED exch
           \/ \E id \in FreeIds, st \in Unseen : Accept(id, o, Volume, st)
  /\ UNCHANGED <<queues, service, restarts, history>>

\* The answer holds "ERROR": the leg goes to the failed orders. It may be on
\* its way to the exchange's books all the same.
BotHandOver(o) ==
  /\ bot[o] = "refused"
  /\ bot' = [bot EXCEPT ![o] = "handed"]
  /\ AddFailedOrder([order |-> o, oid |-> NoId, vol |-> Volume])
  /\ UNCHANGED <<exch, watch, recorded, service, restarts, history>>

\* A placed leg is sent to be saved (so is one that was handed over, without an
\* id). The pair that the bot then gives to add_orders_to_watch_list is always
\* None: search_for_arbitrage drops placement_status, so no leg gets on the
\* watch list here.
BotRecord(o) ==
  /\ bot[o] = "placed"
  /\ bot' = [bot EXCEPT ![o] = "done"]
  /\ recorded' = recorded \cup {id \in Ids : exch[id].owner = o}
  /\ UNCHANGED <<exch, watch, failed, service, restarts, history>>

BotCrash(o) ==
  /\ bot[o] \in {"placed", "refused"}
  /\ bot' = [bot EXCEPT ![o] = "dead"]
  /\ UNCHANGED <<exch, queues, service, restarts, history>>

BotStep(o) == BotPost(o) \/ BotHandOver(o) \/ BotRecord(o) \/ BotCrash(o)

-----------------------------------------------------------------------------
(***************************************************************************)
(* The services.                                                           *)
(***************************************************************************)
Goto(p, label) == pc' = [pc EXCEPT ![p] = label]

\* The process is done with its Trade and polls its queue again.
Release(p) == Goto(p, "poll") /\ hand' = [hand EXCEPT ![p] = NoTrade]

\* The process stops with an exception or os._exit.
Die(p) == Goto(p, "dead") /\ hand' = [hand EXCEPT ![p] = NoTrade]

Put(p, t, label) == hand' = [hand EXCEPT ![p] = t] /\ Goto(p, label)

\* Mutant: whichever service had it, it goes back among the failed orders.
RequeueAsFailed(p) == AddFailedOrder(hand[p]) /\ UNCHANGED <<watch, recorded>>

\* A Trade that cannot be handled now goes back where its service found it.
Requeue(p) ==
  IF p \in ExpiredWorkers
    THEN AddOrderToWatchQueue(hand[p]) /\ UNCHANGED <<failed, recorded>>
    ELSE AddFailedOrder(hand[p]) /\ UNCHANGED <<watch, recorded>>

\* Ticker, order book, is_order_book_expired, balance: the order of the checks
\* does not matter, as nothing else is changed between them. The balance that
\* is too old is the one case in which the service also stops.
Market(p) ==
  /\ pc[p] = "market"
  /\ \/ Goto(p, "post") /\ UNCHANGED <<queues, hand>>
     \/ Requeue(p) /\ Release(p)
     \/ Requeue(p) /\ Die(p)
  /\ UNCHANGED <<exch, bot, restarts, history>>

\* determine_maximum_volume_by_balance and round_volume: at most what is asked.
\* Volumes are far above the 0.000001 below which round_volume may enlarge one
\* (RoundVolumeByExchangeRules of ArbitrageDecision).
Affordable(v) == {v} \cup (0 .. v)

\* place_order_by_market_rate up to the exchange's answer. A failure makes the
\* call add_order with three arguments, and the service stops with a TypeError.
Post(p) ==
  /\ pc[p] = "post"
  /\ \E v \in Affordable(hand[p].vol) :
       \/ /\ v < MinVolume
          /\ Release(p)
          /\ UNCHANGED <<exch, lost>>
       \/ /\ v >= MinVolume
          /\ \/ \E id \in FreeIds :
                  /\ Accept(id, hand[p].order, v, "open")
                  /\ Put(p, [hand[p] EXCEPT !.oid = id, !.vol = v], "save")
                  /\ UNCHANGED lost
             \/ /\ ErrorBodies
                /\ Put(p, [hand[p] EXCEPT !.oid = NoId, !.vol = v], "save")
                /\ UNCHANGED <<exch, lost>>
             \/ /\ Die(p)
                /\ lost' = lost \cup {hand[p].order}
                /\ \/ UNCHANGED exch
                   \/ \E id \in FreeIds, st \in Unseen : Accept(id, hand[p].order, v, st)
  /\ UNCHANGED <<bot, queues, restarts, forgotten>>

\* msg_queue.add_order(ORDERS_MSG, ...)
Save(p) ==
  /\ pc[p] = "save"
  /\ recorded' = recorded \cup ({hand[p].oid} \ {NoId})
  /\ Goto(p, "watch")
  /\ UNCHANGED <<exch, bot, watch, failed, hand, restarts, history>>

\* priority_queue.add_order_to_watch_queue(ORDERS_EXPIRE_MSG, ...)
Watch(p) ==
  /\ pc[p] = "watch"
  /\ AddOrderToWatchQueue(hand[p])
  /\ Release(p)
  /\ UNCHANGED <<exch, bot, failed, recorded, restarts, history>>

-----------------------------------------------------------------------------
\* The steps in which the Trade in hand is in no queue.
Holds(p) == pc[p] \notin {"poll", "claim", "dead"}

\* A service process is killed at any point, and may be started again.
Crash(p) ==
  /\ pc[p] # "dead"
  /\ Die(p)
  /\ lost' = IF Holds(p) THEN lost \cup {hand[p].order} ELSE lost
  /\ UNCHANGED <<exch, bot, queues, restarts, forgotten>>

Restart(p) ==
  /\ pc[p] = "dead"
  /\ restarts < MaxRestarts
  /\ restarts' = restarts + 1
  /\ Goto(p, "poll")
  /\ UNCHANGED <<exch, bot, queues, hand, history>>
=============================================================================
