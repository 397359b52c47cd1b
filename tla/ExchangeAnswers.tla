-------------------------- MODULE ExchangeAnswers --------------------------
(***************************************************************************)
(* What the adapters of the five exchanges (binance/, bittrex/, huobi/,    *)
(* kraken/, poloniex/) make of an answer: whether it is an error, which    *)
(* orders or coins it tells of, and which id it gives a placed order.      *)
(*                                                                         *)
(* An answer's document is known by its top-level fields, by its success   *)
(* flag and by what it holds: the orders asked for, and the coins that are *)
(* available and in all. Prices, volumes and times are left out.           *)
(***************************************************************************)
EXTENDS Naturals

CONSTANTS
  Orders,    \* the orders that may come to the exchange, a coin each
  Coins,     \* the coins of the account when it has no order
  NoOrder,   \* no order: what str(None) names
  Null,      \* None where a list or a dictionary is expected
  Nothing,   \* a list or dictionary without entries, where one is expected
  NoDoc      \* a document that is None

ASSUME AnswerAssumption == Coins \in Nat /\ NoOrder \notin Orders

Kinds == {"binance", "bittrex", "huobi", "kraken", "poloniex"}

\* What a call returns: a status and what it tells, or an exception.
Told(status, ids, coins) == [status |-> status, ids |-> ids, coins |-> coins]
Success(ids) == Told("success", ids, 0)
Balance(coins) == Told("success", {}, coins)
Failure == Told("failure", {}, 0)
Raised == Told("raised", {}, 0)

-----------------------------------------------------------------------------
(***************************************************************************)
(* error_handling.py of each exchange: is_error.                           *)
(***************************************************************************)
BinanceError(d) == d = NoDoc \/ {"code", "msg"} \subseteq d.fields

BittrexError(d) ==
  \/ d = NoDoc
  \/ "result" \notin d.fields
  \/ d.holds = Null /\ "success" \notin d.fields
  \/ "success" \in d.fields /\ ~ d.success

HuobiError(d) == d = NoDoc

\* The names of errors that are looked for in the text only come without a result.
KrakenError(d) == d = NoDoc \/ "result" \notin d.fields

PoloniexError(d) == d = NoDoc \/ "error" \in d.fields

-----------------------------------------------------------------------------
(***************************************************************************)
(* The ids of orders (Trade.from_...), which are a number or a text.       *)
(***************************************************************************)
FromBittrex(o) == <<"text", o>>
FromBittrexHistory(o) == <<"text", o>>

\* Mutant: the number of the document is taken as it is.
FromHuobiNumber(o) == <<"number", o>>

FromHuobi(o) == <<"text", o>>
FromKraken(o) == <<"text", o>>
FromPoloniex(o) == <<"text", o>>
FromPoloniexHistory(o) == <<"text", o>>

-----------------------------------------------------------------------------
(***************************************************************************)
(* The open orders. Binance's processor is called with its arguments in    *)
(* another order than it declares: the name of the pair passes for the     *)
(* document, and its first letter for an order, whose fields it lacks.     *)
(***************************************************************************)
OrdersBinance(d) == Raised

OpenBittrex(d) ==
  IF BittrexError(d) THEN Failure
  ELSE IF d.holds = Null THEN Raised
  ELSE Success({FromBittrex(o) : o \in d.holds.orders})

\* Huobi's open orders and its history.
OrdersHuobi(d) ==
  IF HuobiError(d) \/ "data" \notin d.fields THEN Failure
  ELSE IF d.holds = Null THEN Raised
  ELSE Success({FromHuobi(o) : o \in d.holds.orders})

\* is_error is given the list to be returned, in which no document is found: the
\* answer is not looked at. Once there are Trades in the list, which
\* all calls share, comparing them with a text raises an exception.
OpenKraken(list) == IF list = {} THEN Success({}) ELSE Raised

OpenPoloniex(d) ==
  IF PoloniexError(d) THEN Failure
  ELSE Success({FromPoloniex(o) : o \in d.holds.orders})

-----------------------------------------------------------------------------
(***************************************************************************)
(* The closed orders.                                                      *)
(***************************************************************************)

\* Mutant: a history of None passes.
HistoryOfNone(d) ==
  IF BittrexError(d) THEN Failure
  ELSE Success(IF d.holds = Null THEN {} ELSE {FromBittrexHistory(o) : o \in d.holds.orders})

HistoryBittrex(d) ==
  IF BittrexError(d) \/ d.holds = Null THEN Failure
  ELSE Success({FromBittrexHistory(o) : o \in d.holds.orders})

\* The closed orders that Kraken's shared list has after an answer.
KrakenListed(d, list) ==
  IF KrakenError(d) THEN list ELSE list \cup {FromKraken(o) : o \in d.holds.orders}

HistoryPoloniex(d) ==
  IF PoloniexError(d) THEN Failure
  ELSE Success({FromPoloniexHistory(o) : o \in d.holds.orders})

-----------------------------------------------------------------------------
(***************************************************************************)
(* The balance. A currency that is not in the document has none.           *)
(***************************************************************************)
BalanceBinance(d) ==
  IF BinanceError(d) \/ "balances" \notin d.fields THEN Failure
  ELSE Balance(d.holds.free)

\* Balance.from_bittrex
Available(h) == IF h = Nothing THEN 0 ELSE h.free

BalanceBittrex(d) ==
  IF BittrexError(d) THEN Failure
  ELSE IF d.holds = Null THEN Raised
  ELSE IF d.holds = Nothing THEN Failure
  ELSE Balance(Available(d.holds))

BalanceHuobi(d) ==
  IF HuobiError(d) \/ "data" \notin d.fields \/ d.holds = Null THEN Failure
  ELSE Balance(d.holds.free)

\* Kraken tells the whole balance, and the adapter takes it to be available.
BalanceKraken(d) == IF KrakenError(d) THEN Failure ELSE Balance(d.holds.total)

\* The processor that looks for errors is passed by: an error has no currencies.
BalancePoloniex(d) ==
  IF d = NoDoc THEN Raised
  ELSE Balance(IF "error" \in d.fields THEN 0 ELSE d.holds.free)

-----------------------------------------------------------------------------
(***************************************************************************)
(* parse_order_id_*: the id of a placed order, or none.                    *)
(***************************************************************************)
IdBinance(d) == IF BinanceError(d) THEN {} ELSE {<<"number", d.holds>>}
IdBittrex(d) == IF BittrexError(d) THEN {} ELSE {<<"text", d.holds>>}

\* The data of an error document is None, and its text is an id like any other.
IdHuobi(d) ==
  IF HuobiError(d) \/ "data" \notin d.fields THEN {}
  ELSE {<<"text", IF d.holds = Null THEN NoOrder ELSE d.holds>>}

\* txid is a list, with one id.
IdKraken(d) == IF KrakenError(d) THEN {} ELSE {<<"list", d.holds>>}

IdPoloniex(d) == IF PoloniexError(d) THEN {} ELSE {<<"text", d.holds>>}
=============================================================================
