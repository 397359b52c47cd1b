---------------------------- MODULE PublicAnswers ----------------------------
(***************************************************************************)
(* What becomes of an exchange's answer about a market: the processors of  *)
(* <exchange>/ohlc_utils.py, history_utils.py, ticker_utils.py and         *)
(* order_book_utils.py, which connection_pool.py calls for the document,   *)
(* and the objects of data/ they make of it.                               *)
(*                                                                         *)
(* A document is known by the exchange's sign of an error, by whether what *)
(* is read from it (a field, or the market that was asked for) is there,   *)
(* null or absent, and by the records that it holds.                       *)
(***************************************************************************)
EXTENDS CurrencyTables, SequencesExt, Integers

CONSTANT Quotes   \* asks and bids a market may have

ASSUME QuoteAssumption == \A q \in Quotes : q \in [ask : Int, bid : Int] /\ q.ask >= 0 /\ q.bid >= 0

\* An object without an ask and a bid of its own.
NoQuote == [ask |-> 0, bid |-> 0]

\* A blank record is a candle of the year 1970, or a ticker without prices.
Record(quote) == [quote |-> quote, blank |-> FALSE]
Blank == [quote |-> NoQuote, blank |-> TRUE]

Document(error, holds, records) == [error |-> error, holds |-> holds, records |-> records]

\* The exchanges that send blank records.
Blanks(k, e) == IF <<k, e>> \in {<<"candle", "POLONIEX">>, <<"ticker", "BITTREX">>} THEN {Blank} ELSE {}

Documents(k, e) ==
  {Document(error, holds, <<>>) : error \in BOOLEAN, holds \in {"absent", "null"}}
    \cup {Document(FALSE, "records", <<r>>) :
            r \in Blanks(k, e) \cup {Record(q) : q \in IF k = "ticker" THEN Quotes ELSE {NoQuote}}}

\* No answer, or one whose status is not 200.
Unusable == Document(TRUE, "unusable", <<>>)

-----------------------------------------------------------------------------
\* Those of a sequence that are in a set.
Among(s, T) == FlattenSeq([i \in DOMAIN s |-> IF s[i] \in T THEN <<s[i]>> ELSE <<>>])

-----------------------------------------------------------------------------
(* is_error of each exchange. Huobi's knows no error document, in which the field
   that is read is absent or null. *)

BinanceError(d) == d.error
BittrexError(d) == d.error \/ d.holds = "absent"
HuobiError(d) == FALSE
KrakenError(d) == d.error
PoloniexError(d) == d.error

-----------------------------------------------------------------------------
(* The objects. *)

\* log_responce_cant_be_parsed, instead of None and of whatever raises an
\* exception: a loop over null, a field that is absent, a name not in the table.
ErrorString == [kind |-> "string"]
Unparsed == <<ErrorString>>

\* The object knows the name that was asked for; the request is kept with it, to
\* tell what it should be about.
Filed(k, exchange, u, record) ==
  LET pair == PairFrom(u.exchange, u.name)
  IN  IF pair = NoPair THEN ErrorString
      ELSE [kind |-> k, exchange |-> exchange, pair |-> pair, quote |-> record.quote, of |-> <<u.exchange, u.pair>>]

\* <Class>.from_<exchange>. TradeHistory.from_huobi gives another exchange.
Candle(u, record) == Filed("candle", u.exchange, u, record)
TradeHistory(u, record) ==
  Filed("history", IF u.exchange = "HUOBI" THEN "BINANCE" ELSE u.exchange, u, record)
Ticker(u, record) == Filed("ticker", u.exchange, u, record)
OrderBook(u, record) == Filed("book", u.exchange, u, record)

Each(From(_, _), u, records) == [i \in DOMAIN records |-> From(u, records[i])]

\* The objects of the records, or of the one record; where there are none the
\* code raises an exception.
All(From(_, _), u, d) == IF d.holds = "records" THEN Each(From, u, d.records) ELSE Unparsed

-----------------------------------------------------------------------------
(* Candles: get_ohlc_<exchange>_result_processor *)

CandlesBinance(u, d) == IF BinanceError(d) THEN <<>> ELSE All(Candle, u, d)

CandlesBittrex(u, d) == IF BittrexError(d) \/ d.holds = "null" THEN <<>> ELSE All(Candle, u, d)

CandlesHuobi(u, d) == IF HuobiError(d) \/ d.holds = "absent" THEN <<>> ELSE All(Candle, u, d)

\* Blank candles are left out.
CandlesPoloniex(u, d) ==
  IF PoloniexError(d) THEN <<>>
  ELSE All(Candle, u, [d EXCEPT !.records = Among(@, {r \in ToSet(@) : ~ r.blank})])

-----------------------------------------------------------------------------
(* Trades: get_history_<exchange>_result_processor *)

HistoryBinance(u, d) == IF BinanceError(d) THEN <<>> ELSE All(TradeHistory, u, d)

HistoryBittrex(u, d) == IF BittrexError(d) \/ d.holds = "null" THEN <<>> ELSE All(TradeHistory, u, d)

HistoryHuobi(u, d) == IF HuobiError(d) \/ d.holds = "absent" THEN <<>> ELSE All(TradeHistory, u, d)

HistoryPoloniex(u, d) == IF PoloniexError(d) THEN <<>> ELSE All(TradeHistory, u, d)

-----------------------------------------------------------------------------
(* Tickers: get_ticker_<exchange>_result_processor *)

\* The ticker of the first symbol that has the name in it.
TickerBinance(u, d) == IF BinanceError(d) \/ d.holds = "absent" THEN Unparsed ELSE All(Ticker, u, d)

TickerBittrex(u, d) ==
  IF BittrexError(d) \/ d.holds = "null" \/ Blank \in {d.records[i] : i \in DOMAIN d.records}
    THEN Unparsed
    ELSE All(Ticker, u, d)

TickerHuobi(u, d) == IF HuobiError(d) \/ d.holds \in {"absent", "null"} THEN Unparsed ELSE All(Ticker, u, d)

TickerKraken(u, d) == IF KrakenError(d) \/ d.holds = "absent" THEN Unparsed ELSE All(Ticker, u, d)

TickerPoloniex(u, d) ==
  IF PoloniexError(d) \/ d.holds \in {"absent", "null"} THEN Unparsed ELSE All(Ticker, u, d)

-----------------------------------------------------------------------------
(* Order books: get_order_book_<exchange>_result_processor *)

BookBinance(u, d) == IF BinanceError(d) THEN Unparsed ELSE All(OrderBook, u, d)

BookBittrex(u, d) == IF BittrexError(d) THEN Unparsed ELSE All(OrderBook, u, d)

BookHuobi(u, d) == IF HuobiError(d) \/ d.holds \in {"absent", "null"} THEN Unparsed ELSE All(OrderBook, u, d)

BookKraken(u, d) == IF KrakenError(d) \/ d.holds = "absent" THEN Unparsed ELSE All(OrderBook, u, d)

BookPoloniex(u, d) == IF PoloniexError(d) THEN Unparsed ELSE All(OrderBook, u, d)

-----------------------------------------------------------------------------
(* The constructor of each work unit. *)

CandlesOf(u, d) ==
  CASE u.exchange = "POLONIEX" -> CandlesPoloniex(u, d)
    [] u.exchange = "BITTREX"  -> CandlesBittrex(u, d)
    [] u.exchange = "BINANCE"  -> CandlesBinance(u, d)
    [] u.exchange = "HUOBI"    -> CandlesHuobi(u, d)

HistoryOf(u, d) ==
  CASE u.exchange = "POLONIEX" -> HistoryPoloniex(u, d)
    [] u.exchange = "BITTREX"  -> HistoryBittrex(u, d)
    [] u.exchange = "BINANCE"  -> HistoryBinance(u, d)
    [] u.exchange = "HUOBI"    -> HistoryHuobi(u, d)

TickersOf(u, d) ==
  CASE u.exchange = "POLONIEX" -> TickerPoloniex(u, d)
    [] u.exchange = "KRAKEN"   -> TickerKraken(u, d)
    [] u.exchange = "BITTREX"  -> TickerBittrex(u, d)
    [] u.exchange = "BINANCE"  -> TickerBinance(u, d)
    [] u.exchange = "HUOBI"    -> TickerHuobi(u, d)

BooksOf(u, d) ==
  CASE u.exchange = "POLONIEX" -> BookPoloniex(u, d)
    [] u.exchange = "KRAKEN"   -> BookKraken(u, d)
    [] u.exchange = "BITTREX"  -> BookBittrex(u, d)
    [] u.exchange = "BINANCE"  -> BookBinance(u, d)
    [] u.exchange = "HUOBI"    -> BookHuobi(u, d)

\* _process_futures, of one work unit.
Processed(k, u, d) ==
  IF d = Unusable THEN Unparsed
  ELSE CASE k = "candle"  -> CandlesOf(u, d)
         [] k = "history" -> HistoryOf(u, d)
         [] k = "ticker"  -> TickersOf(u, d)
         [] k = "book"    -> BooksOf(u, d)
=============================================================================
