----------------------------- MODULE MarketData -----------------------------
(***************************************************************************)
(* What reads the markets: services/data_retrieval.py (candles, trades and *)
(* tickers), order_book_retrieval.py (order books), arbitrage_monitoring.py*)
(* (tickers, and alarms about them), and the start of a trading bot in     *)
(* arbitrage_between_pair.py.  All ask through the pool of                 *)
(* data_access/classes/connection_pool.py, parse what is answered into the *)
(* objects of data/, and all but the bot store these with dao/db.py.       *)
(* The processes share nothing: a behaviour is about one of them.          *)
(*                                                                         *)
(* An answer holds one record.  What a pass has stored is forgotten when   *)
(* the next begins, as nothing touches it again.                           *)
(***************************************************************************)
EXTENDS PublicAnswers

CONSTANTS
  Lists,       \* what CURRENCY_PAIR.values() may be, cut down to a few pairs
  PoolSize,    \* requests that are under way together
  Threshold    \* TRIGGER_THRESHOLD, in thousandths of a percent

\* TRIGGER_THRESHOLD is 1.5 percent: more than what get_change takes for nothing,
\* and a number of the hundredths of a percent to which it cuts.
ASSUME MarketAssumption ==
  /\ \A l \in Lists : l \in Seq(ValuePairs)
  /\ PoolSize \in Nat \ {0}
  /\ Threshold \in Nat /\ Threshold > 100 /\ Threshold % 10 = 0

VARIABLES
  service,   \* the process
  legs,      \* a bot's exchanges: that of the sale and that of the purchase
  listed,    \* the pairs that it goes through; a bot has one
  pc,        \* what it does
  kind,      \* what it asks for
  todo,      \* the requests that are not sent yet
  results,   \* what the pool has made of the answers so far
  answered,  \* the tickers that the exchanges have sent in this pass
  opened,    \* rows inserted in the open transaction
  aborted,   \* whether the open transaction has failed
  stored,    \* rows of this pass in the table of its kind
  found,     \* the gaps to tell of
  told,      \* the gaps told of in this pass
  alarms     \* those of them in the table of alarms

market == <<service, legs, listed, pc, kind, todo, results, answered, opened, aborted, stored, found, told, alarms>>
answers == <<todo, results, answered>>
tables == <<opened, aborted, stored>>
gaps == <<found, told, alarms>>

-----------------------------------------------------------------------------
(* What is asked, and what the answers become. *)

\* The exchanges that are asked pair by pair, in the order of the requests.
Asked(k) ==
  CASE k = "ticker" -> <<"BITTREX", "KRAKEN", "HUOBI">>
    [] k \in {"candle", "history"} -> <<"POLONIEX", "BITTREX", "BINANCE", "HUOBI">>
    [] k = "book"   -> <<"POLONIEX", "KRAKEN", "BITTREX", "BINANCE", "HUOBI">>

\* A request knows the exchange's name of the pair only; the pair is kept to
\* tell later what was asked.
WorkUnit(e, p) == [exchange |-> e, name |-> PairNameAt(e, p), pair |-> p]

Known(e, ps) == Among(ps, {p \in ToSet(ps) : PairNameAt(e, p) # None})

\* get_<kind>_speedup: each listed pair at each exchange that knows it.
WorkUnits(k, ps) ==
  FlattenSeq([i \in DOMAIN Asked(k) |->
                LET known == Known(Asked(k)[i], ps)
                IN  [j \in DOMAIN known |-> WorkUnit(Asked(k)[i], known[j])]])

\* Mutant: error strings are taken for objects.
StringsToo(rs) == rs

\* The filter of each service: type(x) != str.
Objects(rs) == Among(rs, ToSet(rs) \ {ErrorString})

\* batch
Batch(units) == SubSeq(units, 1, IF Len(units) < PoolSize THEN Len(units) ELSE PoolSize)

\* The pairs of a bulk answer, each once, in the order of the list.
Bulk(e) ==
  LET once == {i \in DOMAIN listed : \A j \in 1 .. i - 1 : listed[j] # listed[i]}
  IN  FlattenSeq([i \in DOMAIN listed |->
                    IF i \in once /\ listed[i] \in PolledPairs(e) THEN <<listed[i]>> ELSE <<>>])

-----------------------------------------------------------------------------
(* The passes. *)

FirstKind(s) == CASE s = "data" -> "candle" [] s = "books" -> "book" [] OTHER -> "ticker"

Bots == {x \in Exchanges \X Exchanges : x[1] # x[2]}
Services == {"data", "books", "monitoring"}

InitMarket ==
  /\ \/ service \in Services /\ legs = <<>> /\ listed \in Lists
     \/ service = "bot" /\ legs \in Bots /\ listed \in {<<p>> : p \in NamedPairs}
  /\ pc = "begin"
  /\ kind = "ticker"
  /\ todo = <<>> /\ results = <<>> /\ answered = {}
  /\ opened = {} /\ aborted = FALSE /\ stored = {}
  /\ found = <<>> /\ told = {} /\ alarms = {}

\* The next round of requests.
Request(k, units, next) ==
  /\ kind' = k
  /\ todo' = units
  /\ results' = <<>>
  /\ answered' = {}
  /\ stored' = {}
  /\ told' = {}
  /\ alarms' = {}
  /\ pc' = next
  /\ UNCHANGED <<service, legs, listed, opened, aborted, found>>

BeginPass ==
  /\ service \in Services
  /\ pc = "begin"
  /\ LET k == FirstKind(service) IN Request(k, WorkUnits(k, listed), "ask")

\* What the exchanges may answer to each request of a batch.
DocumentsOf(units) ==
  {ds \in [DOMAIN units -> UNION {Documents(kind, u.exchange) : u \in ToSet(units)} \cup {Unusable}] :
     \A i \in DOMAIN units : ds[i] \in Documents(kind, units[i].exchange) \cup {Unusable}}

\* A document with a record that is not blank.
Has(d) == d.records # <<>> /\ ~ d.records[1].blank

\* async_get_to_list: one batch, of which each request may fail by itself.
AskBatch ==
  /\ pc = "ask"
  /\ todo # <<>>
  /\ LET batch == Batch(todo)
     IN  \E as \in DocumentsOf(batch) :
           /\ results' = results \o FlattenSeq([i \in DOMAIN batch |-> Processed(kind, batch[i], as[i])])
           /\ answered' = answered \cup
                {[exchange |-> batch[i].exchange, pair |-> batch[i].pair, quote |-> as[i].records[1].quote] :
                   i \in {j \in DOMAIN batch : Has(as[j])}}
           /\ todo' = SubSeq(todo, Len(batch) + 1, Len(todo))
  /\ UNCHANGED <<service, legs, listed, pc, kind, tables, gaps>>

\* All are answered. Of the services, only tickers ask for more.
Answered ==
  /\ pc = "ask"
  /\ todo = <<>>
  /\ pc' = IF service = "bot" THEN IF kind = "ticker" THEN "cap" ELSE "decide"
           ELSE IF kind = "ticker" THEN "poloniex"
           ELSE IF service = "data" THEN "copy" ELSE "insert"
  /\ UNCHANGED <<service, legs, listed, kind, answers, tables, gaps>>

\* The tickers of a bulk answer, which has some of the pairs.
Take(e, qs) ==
  LET in == Among(Bulk(e), DOMAIN qs)
  IN  /\ results' = results \o
           [i \in DOMAIN in |->
              Ticker(WorkUnit(e, in[i]), Record(qs[in[i]]))]
      /\ answered' = answered \cup {[exchange |-> e, pair |-> p, quote |-> qs[p]] : p \in DOMAIN qs}

\* get_tickers_poloniex: an answer that failed, or an error document, has none.
AskPoloniex ==
  /\ pc = "poloniex"
  /\ \E ps \in SUBSET ToSet(Bulk("POLONIEX")) : \E qs \in [ps -> Quotes] : Take("POLONIEX", qs)
  /\ pc' = "binance"
  /\ UNCHANGED <<service, legs, listed, kind, todo, tables, gaps>>

\* get_tickers_binance: the names in an error document are no tickers, and the
\* TypeError ends the process.
AskBinance ==
  /\ pc = "binance"
  /\ \/ /\ \E ps \in SUBSET ToSet(Bulk("BINANCE")) : \E qs \in [ps -> Quotes] : Take("BINANCE", qs)
        /\ pc' = IF service = "data" THEN "copy" ELSE "compare"
     \/ pc' = "dead" /\ UNCHANGED <<results, answered>>
  /\ UNCHANGED <<service, legs, listed, kind, todo, tables, gaps>>

-----------------------------------------------------------------------------
(* Storing. *)

Rows == ToSet(Objects(results))

AfterCopy == CASE kind = "candle" -> "history" [] kind = "history" -> "ticker" [] OTHER -> "end"

\* bulk_insert_to_postgres: one statement. Its failure ends the process.
Copy ==
  /\ pc = "copy"
  /\ \/ stored' = Rows /\ pc' = "copied"
     \/ stored' = {} /\ pc' = "dead"
  /\ UNCHANGED <<service, legs, listed, kind, answers, opened, aborted, gaps>>

\* The next kind of data, or the end of the pass.
Copied ==
  /\ pc = "copied"
  /\ IF AfterCopy = "end"
       THEN pc' = "begin" /\ UNCHANGED <<service, legs, listed, kind, answers, tables, gaps>>
       ELSE Request(AfterCopy, WorkUnits(AfterCopy, listed), "ask")

ToInsert == Rows \ opened

\* insert_data: its failure ends the process, as does any insert after one that
\* failed. The levels of an order book are inserted with it, and if that fails
\* this is only logged.
Insert ==
  /\ pc = "insert"
  /\ ToInsert # {}
  /\ \/ /\ ~aborted
        /\ \E row \in ToInsert : opened' = opened \cup {row}
        /\ aborted' \in (IF kind = "book" THEN BOOLEAN ELSE {FALSE})
        /\ UNCHANGED pc
     \/ /\ opened' = {}
        /\ aborted' = FALSE
        /\ pc' = "dead"
  /\ UNCHANGED <<service, legs, listed, kind, answers, stored, gaps>>

\* Mutant: each row is committed when it is inserted.
CommitEach ==
  /\ pc = "insert"
  /\ opened # {}
  /\ stored' = stored \cup opened
  /\ UNCHANGED <<service, legs, listed, pc, kind, answers, opened, aborted, gaps>>

\* The commit after all inserts; that of a failed transaction rolls it back.
Commit ==
  /\ pc = "insert"
  /\ ToInsert = {}
  /\ stored' = IF aborted THEN {} ELSE opened
  /\ opened' = {}
  /\ aborted' = FALSE
  /\ pc' = "begin"
  /\ UNCHANGED <<service, legs, listed, kind, answers, gaps>>

-----------------------------------------------------------------------------
(* Alarms. *)

\* get_change with provide_abs=False, in thousandths of a percent of the mean,
\* cut to hundredths of a percent.
GetChange(a, b) ==
  IF 2000 * (a - b) > a + b THEN 10 * ((20000 * (a - b)) \div (a + b)) ELSE 1

\* check_highest_bid_bigger_than_lowest_ask
Gap(first, second) ==
  /\ first.quote.bid # 0
  /\ second.quote.ask # 0
  /\ GetChange(first.quote.bid, second.quote.ask) >= Threshold

\* Mutant: get_all_combination, each two tickers once.
Combinations(n) == {x \in (1 .. n) \X (1 .. n) : x[1] < x[2]}

\* get_all_permutation_list, of two
Permutations2(n) == {x \in (1 .. n) \X (1 .. n) : x[1] # x[2]}

\* check_all_combinations_list, of the tickers of one pair
GapsOf(tickers) ==
  LET Compared(i, j) ==
        IF <<i, j>> \in Permutations2(Len(tickers)) /\ Gap(tickers[i], tickers[j])
          THEN <<[first |-> tickers[i], second |-> tickers[j]]>> ELSE <<>>
  IN  FlattenSeq([i \in DOMAIN tickers |-> FlattenSeq([j \in DOMAIN tickers |-> Compared(i, j)])])

\* compare_price
ComparePrice(tickers) ==
  FlattenSeq([i \in DOMAIN listed |-> GapsOf(Among(tickers, {t \in ToSet(tickers) : t.pair = listed[i]}))])

Compare ==
  /\ pc = "compare"
  /\ found' = ComparePrice(Objects(results))
  /\ pc' = "alarms"
  /\ UNCHANGED <<service, legs, listed, kind, answers, tables, told, alarms>>

\* notify_queue.add_message, of the next gap found
Tell ==
  /\ pc = "alarms"
  /\ found # <<>>
  /\ told' = told \cup {Head(found)}
  /\ pc' = "save"
  /\ UNCHANGED <<service, legs, listed, kind, answers, tables, found, alarms>>

\* save_alarm_into_pg, which commits what it has inserted; its failure is logged.
SaveAlarm ==
  /\ pc = "save"
  /\ \/ ~aborted /\ alarms' = alarms \cup {Head(found)} /\ UNCHANGED aborted
     \/ aborted' = TRUE /\ UNCHANGED alarms
  /\ found' = Tail(found)
  /\ pc' = "alarms"
  /\ UNCHANGED <<service, legs, listed, kind, answers, opened, stored, told>>

AlarmsEnd ==
  /\ pc = "alarms"
  /\ found = <<>>
  /\ pc' = "insert"
  /\ UNCHANGED <<service, legs, listed, kind, answers, tables, gaps>>

-----------------------------------------------------------------------------
(* A trading bot, until its first decision. *)

Pair == Head(listed)
Sell == legs[1]
Buy == legs[2]
Legs == {Sell, Buy}

\* The bot ends at once if an exchange has no name for its pair.
CheckNames ==
  /\ service = "bot"
  /\ pc = "begin"
  /\ IF \E e \in Legs : PairNameAt(e, Pair) = None
       THEN pc' = "exit" /\ UNCHANGED <<service, legs, listed, kind, answers, tables, gaps>>
       ELSE Request("ticker", <<WorkUnit(Buy, Pair), WorkUnit(Sell, Pair)>>, "ask")

BaseCurrencies == {"BTC", "ETH", "USDT"}

\* update_min_cap: the currencies of the pair, and the least volume in the one
\* it pays with, are looked up in tables; tickers that failed are left out.
UpdateMinCap ==
  /\ pc = "cap"
  /\ IF ~Splits(Pair) \/ (/\ \E t \in Rows : t.quote.ask # 0
                          /\ SplitCurrencyPairs(Pair)[1] \notin BaseCurrencies)
       THEN pc' = "KeyError" /\ UNCHANGED <<service, legs, listed, kind, answers, tables, gaps>>
       ELSE Request("book", <<WorkUnit(Sell, Pair), WorkUnit(Buy, Pair)>>, "ask")

\* Books that are strings end the bot, in is_order_books_expired.
Decide ==
  /\ pc = "decide"
  /\ pc' = IF ErrorString \in ToSet(results) THEN "dead" ELSE "trade"
  /\ UNCHANGED <<service, legs, listed, kind, answers, tables, gaps>>

-----------------------------------------------------------------------------
(* The process is killed, and started again; so it is when it died. A bot that
   is starting has nothing to lose. *)

ServiceCrash ==
  /\ service \in Services
  /\ pc \notin {"begin", "dead"}
  /\ pc' = "dead"
  /\ opened' = {} /\ aborted' = FALSE
  /\ UNCHANGED <<service, legs, listed, kind, answers, stored, gaps>>

ServiceRestart ==
  /\ pc = "dead"
  /\ pc' = "begin"
  /\ found' = <<>>
  /\ UNCHANGED <<service, legs, listed, kind, answers, tables, told, alarms>>
=============================================================================
