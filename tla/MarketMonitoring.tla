-------------------------- MODULE MarketMonitoring --------------------------
(***************************************************************************)
(* The processes that read the markets (MarketData) and the notifier that  *)
(* sends what arbitrage_monitoring.py and the bots tell (Notifications).   *)
(***************************************************************************)
EXTENDS MarketData, Notifications

CONSTANTS
  MaxPasses,   \* passes of a process that tells of gaps
  MaxSaid,     \* messages of the bots to their own topic
  MaxKills     \* how often processes are killed

AlarmTopic == Topics[1]   \* ARBITRAGE_MSG

ASSUME MonitoringAssumption ==
  /\ Len(Topics) >= 2
  /\ MaxPasses \in Nat /\ MaxSaid \in Nat /\ MaxKills \in Nat

VARIABLES passes, kills

vars == <<market, notifications, passes, kills>>
counts == <<passes, kills>>

Init == InitMarket /\ InitNotifications /\ passes = 0 /\ kills = 0

\* The number of passes is bounded where each adds messages.
Begin ==
  /\ BeginPass
  /\ passes' = IF service = "monitoring" THEN passes + 1 ELSE passes
  /\ passes' <= MaxPasses
  /\ UNCHANGED <<notifications, kills>>

Read ==
  /\ AskBatch \/ Answered \/ AskPoloniex \/ AskBinance \/ Compare \/ AlarmsEnd \/ Decide
  /\ UNCHANGED <<notifications, counts>>

Store ==
  /\ Copy \/ Copied \/ Insert \/ Commit \/ SaveAlarm
  /\ UNCHANGED <<notifications, counts>>

StartBot ==
  /\ CheckNames \/ UpdateMinCap
  /\ UNCHANGED <<notifications, counts>>

\* analyse_tickers tells of a gap.
TellOfGap == Tell /\ AddMessage(AlarmTopic) /\ UNCHANGED counts

\* Bots tell of their deals, at any time. It matters only beside a process
\* that tells of something too.
Say ==
  /\ service = "monitoring"
  /\ \E t \in TopicSet \ {AlarmTopic} : added[t] < MaxSaid /\ AddMessage(t)
  /\ UNCHANGED <<market, counts>>

Notify == (NotifierStep \/ NotifierRestart) /\ UNCHANGED <<market, counts>>

Kill ==
  /\ kills < MaxKills
  /\ kills' = kills + 1
  /\ \/ ServiceCrash /\ UNCHANGED notifications
     \/ NotifierCrash /\ UNCHANGED market
  /\ UNCHANGED passes

Restart == ServiceRestart /\ UNCHANGED <<notifications, counts>>

Next == Begin \/ Read \/ Store \/ StartBot \/ TellOfGap \/ Say \/ Notify \/ Kill \/ Restart

\* The notifier runs and is started again when it died, and Telegram does not
\* refuse a topic for ever. Nothing is promised about when the readers store.
Spec ==
  /\ Init
  /\ [][Next]_vars
  /\ WF_vars(Notify)
  /\ \A t \in TopicSet : SF_vars(Send(t) /\ UNCHANGED <<market, counts>>)

-----------------------------------------------------------------------------
Types == {"candle", "history", "ticker", "book"}
Row == [kind : Types, exchange : Exchanges, pair : ValuePairs, quote : Quotes \cup {NoQuote},
        of : Exchanges \X ValuePairs]
GapType == [first : Row, second : Row]

\* More messages than a topic gets within the bounds.
Numbers == 1 .. 4

\* What the pool returns are objects of the kind that was asked for and strings,
\* the tables hold objects only, and a failed transaction has no rows outside it.
TypeOK ==
  /\ NotificationsTypeOK
  /\ service \in Services \cup {"bot"}
  /\ legs \in Bots \cup {<<>>}
  /\ kind \in Types
  /\ \A i \in DOMAIN results : results[i] = ErrorString \/ results[i] \in Row
  /\ \A i \in DOMAIN results : results[i] # ErrorString => results[i].kind = kind
  /\ opened \cup stored \subseteq Row
  /\ told \cup alarms \subseteq GapType
  /\ alarms \subseteq told
  /\ aborted => pc \in {"alarms", "save", "insert"}
  /\ opened # {} => pc = "insert"
  /\ passes \in 0 .. MaxPasses /\ kills \in 0 .. MaxKills

\* A row is filed under the exchange and the pair it was asked for, whatever
\* names the exchange gives its currencies, and both tickers of an alarm are of
\* one pair; only Huobi's trades are filed under Binance, as TradeHistory does.
OwnMarket ==
  /\ \A r \in opened \cup stored :
       /\ r.of = <<IF r.kind = "history" /\ r.of[1] = "HUOBI" THEN "HUOBI" ELSE r.exchange, r.pair>>
       /\ r.of[1] = "HUOBI" /\ r.kind = "history" => r.exchange = "BINANCE"
       /\ r.pair \in ToSet(listed)
  /\ \A g \in told : g.first.pair = g.second.pair /\ g.first.of[2] = g.second.of[2]

\* Whichever insert fails, whether this ends the process or is only logged, a
\* pass has all rows of a kind in its table or none of them.
WholeOrNothing == stored = {} \/ (pc # "ask" /\ stored = Rows)

\* The markets at which one could have sold for Threshold more than another
\* asks, as the exchanges have answered.
RealGap(a, b) ==
  /\ a.pair = b.pair /\ a.exchange # b.exchange
  /\ a.quote.bid > 0 /\ b.quote.ask > 0
  /\ 200000 * (a.quote.bid - b.quote.ask) >= Threshold * (a.quote.bid + b.quote.ask)

\* When arbitrage_monitoring.py goes on to store its tickers it has told of every
\* gap between two exchanges that their answers had, whichever of the answers in
\* the same batch failed and in whatever order they were asked; and of no gap
\* that two answers do not have. BTC_DCR is not looked for in Poloniex' answer
\* (PolledPairs), so that a gap of it can be told of between other exchanges only.
NoGapMissed ==
  service = "monitoring" /\ pc = "insert" =>
    /\ \A a, b \in answered :
         RealGap(a, b) =>
           \E g \in told : /\ g.first.exchange = a.exchange /\ g.first.quote = a.quote
                           /\ g.second.exchange = b.exchange /\ g.second.quote = b.quote
                           /\ g.first.pair = a.pair
    /\ \A g \in told : g.first.quote.bid > g.second.quote.ask /\ g.second.quote.ask > 0

\* A bot that passed the check of its arguments never looks up what a table does
\* not have: the currencies and the base of its pair, and at either exchange the
\* names of the balances.
NeverAKeyError ==
  service = "bot" /\ pc \notin {"begin", "exit"} =>
    /\ pc # "KeyError"
    /\ \A e \in Legs : {Pair[1], Pair[2]} \subseteq Currencies[e]

\* Its first decision is about the books of the exchange of the sale and of the
\* purchase, in this order, and about its pair.
BooksOfItsPair ==
  service = "bot" /\ pc = "trade" =>
    /\ results[1].of = <<Sell, Pair>>
    /\ results[2].of = <<Buy, Pair>>
    /\ results[1].pair = Pair /\ results[2].pair = Pair

\* A trading bot starts to trade the pair that it was started for, or not at all.
BotsKnowTheirPair == NeverAKeyError /\ BooksOfItsPair

\* The pairs for which the lot of Binance, or no lot at all, is finer than Huobi's.
MisfitAtHuobi == ({"BTC"} \X {"BLZ", "ONT"}) \cup {<<"ETH", "ONT">>} \cup ({"USDT"} \X {"BTC", "ETH", "LTC"})

\* The volume that both legs of a bot get has no more decimals than either of its
\* exchanges takes, but for six pairs between Binance and Huobi.
LegsFit ==
  service = "bot" /\ pc = "trade" =>
    \/ Legs = {"BINANCE", "HUOBI"} /\ Pair \in MisfitAtHuobi
    \/ \A e \in Legs : DecimalsOfLegs(Sell, Buy, Pair) <= DecimalsAt(e, Pair)

\* What is pushed to a topic is shown in its chat, or dies with a notifier that
\* had it in hand: failures to send it or others only delay it.  Numbers has all
\* that is pushed.
Delivered ==
  \A t \in TopicSet :
    /\ [](added[t] \in {0} \cup Numbers)
    /\ \A m \in Numbers : m <= added[t] ~> m \in delivered[t] \cup lost[t]
=============================================================================
