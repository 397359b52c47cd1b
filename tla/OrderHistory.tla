---------------------------- MODULE OrderHistory ----------------------------
(***************************************************************************)
(* What is kept of orders and trades.  services/order_saving.py moves the  *)
(* orders that bots and services sent from redis to the table of orders.   *)
(* services/bot_trade_retrieval.py copies what the exchanges executed      *)
(* within the last day to the table of trades, again and again             *)
(* (analysis/data_load_for_profit_report.py, dao/db.py).  One process of   *)
(* each kind is deployed.  analysis/generate_profit_report.py, when told   *)
(* to copy trades itself, fails in its first request and copies none.      *)
(*                                                                         *)
(* There is one pair at each exchange.  The answer of an exchange holds    *)
(* all trades of the times it was asked for.  A behaviour is about one     *)
(* half: no process reads both tables and writes one.                      *)
(***************************************************************************)
EXTENDS FiniteSets, Integers, SequencesExt

CONSTANTS
  Orders,      \* what is sent to be saved
  Settings,    \* what settings.exchanges may be
  Numbers,     \* the numbers that exchanges give their trades
  Day,         \* 24 hours, in units of the clock
  MaxClock, MaxTrades, MaxKills   \* bounds on time, trades and kills

Exchanges == {"BITTREX", "POLONIEX", "BINANCE", "HUOBI", "KRAKEN"}

ASSUME HistoryAssumption ==
  /\ Settings \subseteq Seq(Exchanges) /\ <<>> \notin Settings
  /\ Day \in Nat \ {0}
  /\ MaxClock \in Nat /\ MaxTrades \in Nat /\ MaxKills \in Nat

VARIABLES
  half,      \* orders or trades
  markets,   \* settings.exchanges
  clock,
  kills,     \* how often a process was killed
  executed,  \* the trades at the exchanges
  sent,      \* the orders that were sent to be saved
  queue,     \* ORDERS_MSG, the next to be popped first
  saver,     \* order_saving.py: up, failed (its transaction is aborted) or dead
  orders,    \* arbitrage_orders
  trades,    \* arbitrage_trades, row after row: no index forbids a second row
  pc,        \* what the retrieval does
  imported,  \* when its modules were imported
  at,        \* the exchange it is at
  window,    \* the day it asks about
  seen,      \* the trades that exchanges had when it asked them in this pass
  fetched,   \* the trades it has still to save
  hand,      \* the one it has looked up and not found
  aborted    \* whether its transaction is aborted

saving == <<half, sent, queue, saver, orders>>
fetching == <<pc, imported, at, window, seen, fetched, hand, aborted>>
vars == <<clock, kills, markets, executed, saving, trades, fetching>>

Rows == ToSet(trades)
MarketSet == ToSet(markets)
Market == markets[at]
AtExchange(e) == {t \in executed : t.exchange = e}

\* Mutant: the first moment of the window is left out.
InWindowOpen(t) == window[1] < t.time /\ t.time <= window[2]

InWindow(t) == window[1] <= t.time /\ t.time <= window[2]

EndOfDay(time) == time - (time % Day) + Day - 1

Init ==
  /\ half \in {"orders", "trades"}
  /\ markets \in Settings
  /\ clock = 0 /\ kills = 0 /\ executed = {}
  /\ sent = {} /\ queue = <<>> /\ saver = "up" /\ orders = {}
  /\ trades = <<>>
  /\ pc = "down" /\ imported = 0 /\ at = 1 /\ window = <<0, 0>>
  /\ seen = {} /\ fetched = {} /\ hand = {} /\ aborted = FALSE

-----------------------------------------------------------------------------
(* The exchanges. *)

Tick ==
  /\ half = "trades"
  /\ clock < MaxClock
  /\ clock' = clock + 1
  /\ UNCHANGED <<kills, markets, executed, saving, trades, fetching>>

\* An order is traded. Its trade has that time at Poloniex and Binance, and the
\* time of the order elsewhere. Two exchanges may give one number.
Execute ==
  /\ half = "trades"
  /\ Cardinality(executed) < MaxTrades
  /\ \E e \in MarketSet, n \in Numbers, time \in 0 .. clock :
       /\ \A t \in AtExchange(e) : t.id # n
       /\ e \in {"POLONIEX", "BINANCE"} => time = clock
       /\ executed' = executed \cup {[exchange |-> e, id |-> n, time |-> time]}
  /\ UNCHANGED <<clock, kills, markets, saving, trades, fetching>>

-----------------------------------------------------------------------------
(* Orders. *)

\* add_order(ORDERS_MSG, ...): lpush
AddOrder(o) ==
  /\ half = "orders"
  /\ o \notin sent
  /\ sent' = sent \cup {o}
  /\ queue' = <<o>> \o queue
  /\ UNCHANGED <<half, markets, clock, kills, executed, saver, orders, trades, fetching>>

\* Mutant: the order stays in the queue.
Peeked == UNCHANGED queue

\* get_next_order: lpop
Popped == queue' = Tail(queue)

\* save_order_into_pg. An insert that fails is logged and not rolled back, so
\* that all later ones of the process fail too.
SaveOrder ==
  /\ saver \in {"up", "failed"}
  /\ queue # <<>>
  /\ Popped
  /\ \/ saver = "up" /\ orders' = orders \cup {Head(queue)} /\ UNCHANGED saver
     \/ saver' = "failed" /\ UNCHANGED orders
  /\ UNCHANGED <<half, markets, clock, kills, executed, sent, trades, fetching>>

\* The order it has popped, if any, dies with the process.
KillSaver ==
  /\ half = "orders"
  /\ kills < MaxKills
  /\ kills' = kills + 1
  /\ saver \in {"up", "failed"}
  /\ saver' = "dead"
  /\ (queue # <<>> /\ Popped) \/ UNCHANGED queue
  /\ UNCHANGED <<half, markets, clock, executed, sent, orders, trades, fetching>>

RestartSaver ==
  /\ saver = "dead"
  /\ saver' = "up"
  /\ UNCHANGED <<half, markets, clock, kills, executed, sent, queue, orders, trades, fetching>>

-----------------------------------------------------------------------------
(* Trades. *)

\* The defaults of time_end in poloniex/order_history.py and the like are
\* evaluated when the modules are imported, and never again.
Start ==
  /\ half = "trades"
  /\ pc = "down"
  /\ pc' = "idle"
  /\ imported' = clock
  /\ UNCHANGED <<clock, kills, markets, executed, saving, trades, at, window, seen, fetched, hand, aborted>>

\* The process ends with what it has fetched. The next one has a connection of
\* its own.
End ==
  /\ pc' = "down" /\ at' = 1 /\ window' = <<0, 0>>
  /\ seen' = {} /\ fetched' = {} /\ hand' = {} /\ aborted' = FALSE
  /\ UNCHANGED imported

\* A turn of the loop of load_trade_history.
BeginPass ==
  /\ pc = "idle"
  /\ pc' = "ask"
  /\ window' = <<clock - Day, clock>>
  /\ UNCHANGED <<clock, kills, markets, executed, saving, trades, imported, at, seen, fetched, hand, aborted>>

\* What is kept of an exchange's answer, given its trades of the window. Bittrex
\* is asked for everything. Poloniex is asked until the import. Huobi is asked for
\* the days from the window's first to the import's, or without dates, and then
\* answers what it likes, when the window begins after the import. Kraken is asked
\* for the window, but an error document passes for an answer with what was
\* answered before.
Answer(ts) ==
  {kept \in SUBSET ts :
     /\ Market = "BITTREX" => kept = ts
     /\ Market = "POLONIEX" => kept = {t \in ts : t.time <= imported}
     /\ Market = "HUOBI" /\ window[1] <= imported =>
          kept = {t \in ts : t.time <= EndOfDay(imported)}}

\* get_recent_<exchange>_trades: asked again until it answers.
Ask ==
  /\ pc = "ask"
  /\ Market # "BINANCE"
  /\ pc' = "save"
  /\ seen' = seen \cup AtExchange(Market)
  /\ fetched' \in Answer({t \in AtExchange(Market) : InWindow(t)})
  /\ UNCHANGED <<clock, kills, markets, executed, saving, trades, imported, at, window, hand, aborted>>

\* get_trades_history_binance gives generate_post_request a list to be indexed by
\* "signature": the TypeError ends the process.
AskBinance ==
  /\ pc = "ask"
  /\ Market = "BINANCE"
  /\ End
  /\ UNCHANGED <<clock, kills, markets, executed, saving, trades>>

\* Mutant: what is fetched is inserted, known or not.
KnownNever(t) == FALSE

\* is_trade_present_in_trade_history: any row with this number.
Known(t) == \E r \in Rows : r.id = t.id

\* save_to_pg_adapter looks a trade up.
Check ==
  /\ pc = "save" /\ ~aborted
  /\ \E t \in fetched :
       /\ fetched' = fetched \ {t}
       /\ IF Known(t)
            THEN UNCHANGED <<pc, hand>>
            ELSE pc' = "insert" /\ hand' = {t}
  /\ UNCHANGED <<clock, kills, markets, executed, saving, trades, imported, at, window, seen, aborted>>

\* In an aborted transaction the query raises an exception.
CheckFails ==
  /\ pc = "save" /\ aborted /\ fetched # {}
  /\ End
  /\ UNCHANGED <<clock, kills, markets, executed, saving, trades>>

\* save_order_into_pg, with the table of trades.
Insert ==
  /\ pc = "insert"
  /\ \/ (\E t \in hand : trades' = Append(trades, t)) /\ UNCHANGED aborted
     \/ aborted' = TRUE /\ UNCHANGED trades
  /\ pc' = "save"
  /\ hand' = {}
  /\ UNCHANGED <<clock, kills, markets, executed, saving, imported, at, window, seen, fetched>>

\* All trades that an exchange answered are dealt with.
Saved == pc = "save" /\ fetched = {}

NextMarket ==
  /\ Saved
  /\ IF at < Len(markets)
       THEN at' = at + 1 /\ pc' = "ask" /\ UNCHANGED <<window, seen>>
       ELSE at' = 1 /\ pc' = "idle" /\ window' = <<0, 0>> /\ seen' = {}
  /\ UNCHANGED <<clock, kills, markets, executed, saving, trades, imported, fetched, hand, aborted>>

KillRetrieval ==
  /\ pc # "down"
  /\ kills < MaxKills
  /\ kills' = kills + 1
  /\ End
  /\ UNCHANGED <<clock, markets, executed, saving, trades>>

Retrieve ==
  \/ Start \/ BeginPass \/ Ask \/ AskBinance \/ Check \/ CheckFails \/ Insert
  \/ NextMarket \/ KillRetrieval

Next ==
  \/ Tick \/ Execute
  \/ \E o \in Orders : AddOrder(o)
  \/ SaveOrder \/ KillSaver \/ RestartSaver
  \/ Retrieve

Spec == Init /\ [][Next]_vars

-----------------------------------------------------------------------------
\* What was sent is in the queue or in the table and never in both, what the
\* retrieval has in hand is of the exchange and of the window that it asks about,
\* and the table of trades holds what was executed.
TypeOK ==
  /\ markets \in Settings
  /\ clock \in 0 .. MaxClock /\ kills \in 0 .. MaxKills
  /\ sent \subseteq Orders
  /\ orders \cup ToSet(queue) \subseteq sent
  /\ orders \cap ToSet(queue) = {}
  /\ saver \in {"up", "failed", "dead"}
  /\ pc \in {"down", "idle", "ask", "save", "insert"}
  /\ at \in DOMAIN markets /\ imported \in 0 .. clock
  /\ Rows \subseteq executed
  /\ \A t \in fetched \cup hand : t \in AtExchange(Market) /\ InWindow(t)
  /\ fetched # {} => pc \in {"save", "insert"}
  /\ IF pc = "insert" THEN \E t \in hand : hand = {t} ELSE hand = {}
  /\ seen \subseteq executed

\* Whenever the retrieval has dealt with an exchange's answer and no insert of
\* its has failed, the table has the number of each trade of the window that the
\* exchanges of this pass had executed when they were asked: at Bittrex without
\* exception, at Poloniex and Huobi up to the import, whichever process was killed
\* before, however long this one has been running, and what else was executed
\* meanwhile. At Kraken nothing can be promised, and Binance is never passed.
Complete ==
  Saved /\ ~aborted =>
    \A t \in seen : window[1] <= t.time /\ t.time <= window[2] =>
      \/ \E r \in Rows : r.id = t.id
      \/ t.exchange \in {"POLONIEX", "HUOBI"} /\ t.time > imported
      \/ t.exchange = "KRAKEN"

\* The windows of passes overlap by almost a day, a pass may be broken off and
\* begun anew, and exchanges may repeat themselves: no trade ever has two rows,
\* which a report would add twice (analysis/grouping_utils.py:90).
OneRow == \A i, j \in DOMAIN trades : trades[i].id = trades[j].id => i = j
=============================================================================
