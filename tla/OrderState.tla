----------------------------- MODULE OrderState -----------------------------
(***************************************************************************)
(* The state that order recovery is about, shared by the trading bots, the *)
(* service of expired orders and the service of failed orders:             *)
(*   - the exchange's own table of the orders it was sent (external);      *)
(*   - the redis structures of data_access/classes: the watch list         *)
(*     (priority_queue.py) and the topics FAILED_ORDERS_MSG and ORDERS_MSG *)
(*     (message_queue.py);                                                 *)
(*   - what each service process is doing and the Trade it has in hand.    *)
(*                                                                         *)
(* All orders are of one pair at one exchange: the services handle each    *)
(* (exchange, pair) separately except for the queues, which they share.    *)
(* Its adapter reports what the exchange said, or a failure, as Bittrex',  *)
(* Poloniex' and Huobi's do. The open orders that kraken/order_utils.py    *)
(* and binance/order_utils.py report are not those of the answer, and what *)
(* is said here of open orders does not hold of these two.                 *)
(***************************************************************************)
EXTENDS Integers, SequencesExt

CONSTANTS
  Orders,          \* the legs the bots decide to place: one Trade object each
  Ids,             \* the order ids the exchange can assign (bounds its table)
  ExpiredWorkers,  \* processes running services/expired_order_processing.py
  FailedWorkers,   \* processes running services/failed_order_processing.py
  Volume,          \* the volume of every leg, in units of the smallest fill
  MinVolume,       \* compute_min_cap_from_ticker: below it nothing is placed
  Poloniex,        \* the exchange is Poloniex, whose volumes are read differently
  Lookalike,       \* <<o, q>>: the fields try_to_set_order_id compares agree
  ErrorBodies,     \* the exchange may report an error in an HTTP 200 response
  LateEffects,     \* a request that timed out may still be executed later on
  MaxRestarts,     \* bound on restarts of service processes
  NoOrder, NoId    \* no owner, and order_id = None

Procs == ExpiredWorkers \cup FailedWorkers

ASSUME OrderAssumption ==
  /\ NoOrder \notin Orders
  /\ NoId \notin Ids
  /\ ExpiredWorkers \cap FailedWorkers = {}
  /\ Volume \in Nat \ {0}
  /\ MinVolume \in Nat \ {0}
  /\ Poloniex \in BOOLEAN
  /\ Lookalike \subseteq Orders \X Orders
  /\ ErrorBodies \in BOOLEAN
  /\ LateEffects \in BOOLEAN
  /\ MaxRestarts \in Nat

VARIABLES
  exch,       \* the exchange: order id -> what it knows of that order
  bot,        \* where the bot is with each leg
  watch,      \* ORDERS_EXPIRE_MSG: Trades, the longest waiting first
  failed,     \* FAILED_ORDERS_MSG: Trades, the next to be popped first
  recorded,   \* ids of placed orders sent to ORDERS_MSG to be saved
  pc,         \* what each service process is about to do
  hand,       \* the Trade each service process is working on
  restarts,   \* how many times a service process was restarted
  forgotten,  \* history: ids dropped from the watch list as filled
  lost        \* history: orders whose Trade a process held when it died

vars == <<exch, bot, watch, failed, recorded, pc, hand, restarts, forgotten, lost>>
queues == <<watch, failed, recorded>>
service == <<pc, hand>>
history == <<forgotten, lost>>

\* What is left of a volume. One that was taken off too often is negative, and
\* -1 stands for every such volume: all of them are too small to be placed.
Less(v, w) == IF v - w < -1 THEN -1 ELSE v - w

Trade == [order : Orders, oid : Ids \cup {NoId}, vol : -1 .. Volume]
NoTrade == [order |-> NoOrder, oid |-> NoId, vol |-> 0]

Unused == [st |-> "unused", owner |-> NoOrder, vol |-> 0, done |-> 0, timely |-> TRUE]

(***************************************************************************)
(* The exchange, as the code uses it.                                      *)
(***************************************************************************)
Live(id) == exch[id].st = "open"
OpenOrders == {id \in Ids : Live(id)}
ClosedOrders == {id \in Ids : exch[id].st \in {"filled", "cancelled"}}

\* A new order: on the books at once, or still on its way ("flight") when the
\* client has already given up waiting for the answer.
Accept(id, o, v, st) ==
  exch' = [exch EXCEPT ![id] =
             [st |-> st, owner |-> o, vol |-> v, done |-> 0, timely |-> TRUE]]

\* Where an order can be whose placement brought no usable answer.
Unseen == {"open"} \cup (IF LateEffects THEN {"flight"} ELSE {})

FreeIds == {id \in Ids : exch[id].st = "unused"}

\* The comparison of try_to_set_order_id: same pair, type and price, created
\* less than 15 seconds after the Trade.
Matches(o, id) ==
  /\ exch[id].timely
  /\ exch[id].owner = o \/ <<o, exch[id].owner>> \in Lookalike

(***************************************************************************)
(* redis.                                                                  *)
(***************************************************************************)
InSeq(s, o) == \E i \in DOMAIN s : s[i].order = o
Distinct(s) == \A i, j \in DOMAIN s : s[i].order = s[j].order => i = j

\* Mutant: the order that was added last is looked at first.
NewestFirst(t) == watch' = <<t>> \o SelectSeq(watch, LAMBDA u : u # t)

\* zadd under the current time: a member already there moves to its new place.
AddOrderToWatchQueue(t) ==
  watch' = IF \E i \in DOMAIN watch : watch[i] = t
             THEN Append(RemoveAt(watch, CHOOSE i \in DOMAIN watch : watch[i] = t), t)
             ELSE Append(watch, t)

\* lpush: add_order puts an order where the next lpop takes it.
AddFailedOrder(t) == failed' = <<t>> \o failed
=============================================================================
