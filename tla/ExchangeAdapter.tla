--------------------------- MODULE ExchangeAdapter ---------------------------
(***************************************************************************)
(* One process that calls one exchange: dao/order_utils.py,                *)
(* order_history_utils.py, balance_utils.py and dao.py, down to the        *)
(* requests of data_access/internet.py, which are lost, answered late,     *)
(* refused, or sent again. The exchange itself is external: it has orders, *)
(* which lock a coin while they are open and sell it when they are filled. *)
(***************************************************************************)
EXTENDS ExchangeAnswers, FiniteSets

CONSTANTS
  Used,         \* the kinds of exchange that are looked at
  SoftErrors,   \* the kinds whose error documents come with HTTP 200
  NoCall        \* no call is in progress

Questions == {"open", "history", "balance"}

\* A call: what is requested, about which order, and how often it was sent.
Calls == [req : Questions \cup {"place", "cancel"}, order : Orders \cup {NoOrder}, tries : Nat]

ASSUME AdapterAssumption ==
  /\ Used \subseteq Kinds
  /\ SoftErrors \subseteq Kinds
  /\ IsFiniteSet(Orders)
  /\ Cardinality(Orders) <= Coins
  /\ NoCall \notin Questions
  /\ NoCall \notin Calls

VARIABLES
  kind,     \* the exchange
  market,   \* what it has of each order
  early,    \* the orders that were closed before the process was started
  copies,   \* how often each order was put on the books
  list,     \* EMPTY_LIST of kraken/constants.py, which its adapter adds to
  call,     \* the call in progress
  wire,     \* its request or the answer, on the way
  ours,     \* the ids that placed orders were given
  told,     \* what the last question was answered
  seen,     \* history: what was true since the call
  gone      \* history: the orders whose cancellation was confirmed

exchange == <<market, copies>>
process == <<list, ours, told, gone>>
vars == <<kind, exchange, early, call, wire, seen, process>>

In(m, states) == {o \in Orders : m[o] \in states}
With(states) == In(market, states)

\* The closed orders an exchange shows: Huobi's and Poloniex' request is about
\* executed ones only. Binance' is about all orders.
Shown(k) ==
  CASE k \in {"huobi", "poloniex"} -> {"filled"}
    [] k = "binance" -> {"open", "filled", "cancelled"}
    [] OTHER -> {"filled", "cancelled"}

FreeIn(m) == Coins - Cardinality(In(m, {"open", "filled"}))
Total == Coins - Cardinality(With({"filled"}))

\* What a question's right answer is when the exchange has the orders of m.
Truth(m, q) ==
  [orders |-> CASE q = "open" -> In(m, {"open"})
                [] q = "history" -> In(m, Shown(kind))
                [] OTHER -> {},
   coins |-> IF q = "balance" THEN FreeIn(m) ELSE 0]

NoRequest == [st |-> "none", http |-> FALSE, doc |-> NoDoc]

Init ==
  /\ kind \in Used
  /\ market \in [Orders -> {"none", "filled", "cancelled"}]
  /\ early = With({"filled", "cancelled"})
  /\ copies = [o \in Orders |-> IF market[o] = "none" THEN 0 ELSE 1]
  /\ list = {}
  /\ call = NoCall
  /\ wire = NoRequest
  /\ seen = {}
  /\ ours = [o \in Orders |-> {}]
  /\ told = Told("none", {}, 0)
  /\ gone = {}

-----------------------------------------------------------------------------
(***************************************************************************)
(* The exchange.                                                           *)
(***************************************************************************)

\* What is true from now on was true during the call.
Seen == seen' = IF call # NoCall /\ call.req \in Questions
                  THEN seen \cup {Truth(market', call.req)} ELSE {}

Becomes(o, st) == market' = [market EXCEPT ![o] = st]

\* An open order is filled, or cancelled by another process.
Close(o) ==
  /\ market[o] = "open"
  /\ \E st \in {"filled", "cancelled"} : Becomes(o, st)
  /\ Seen
  /\ UNCHANGED <<kind, early, copies, call, wire, process>>

\* Another process places an order.
Appear(o) ==
  /\ market[o] = "none"
  /\ call # NoCall => call.order # o
  /\ Becomes(o, "open")
  /\ copies' = [copies EXCEPT ![o] = 1]
  /\ Seen
  /\ UNCHANGED <<kind, early, call, wire, process>>

\* The documents of each exchange's errors, as its adapter quotes them.
ErrorDoc(k) ==
  [fields |-> CASE k = "binance" -> {"code", "msg"}
                [] k = "bittrex" -> {"success", "message", "result"}
                [] k = "huobi" -> {"status", "err-code", "err-msg", "data"}
                [] OTHER -> {"error"},
   success |-> FALSE, holds |-> Null]

DataDoc(k, q, held) ==
  [fields |-> CASE k = "binance" -> IF q = "balance" THEN {"balances"} ELSE {}
                [] k = "bittrex" -> {"success", "message", "result"}
                [] k = "huobi" -> {"status", "data"}
                [] k = "kraken" -> {"error", "result"}
                [] k = "poloniex" -> {},
   success |-> TRUE, holds |-> held]

\* The exchanges whose history is asked for until time_end, a default that is
\* evaluated when the process starts. Clocks differ, so that an order which was
\* closed later may be in the answer or not; Huobi's is about a day only.
Windowed == {"huobi", "kraken", "poloniex"}
Sure == IF kind = "huobi" THEN {} ELSE early \cap With(Shown(kind))
Histories ==
  IF kind \in Windowed
    THEN {S \in SUBSET With(Shown(kind)) : Sure \subseteq S}
    ELSE {With(Shown(kind))}

\* What documents without an error may hold. Bittrex' balance may be without
\* any currency, its history None.
Held(q) ==
  CASE q = "open" -> {[orders |-> With({"open"})]}
    [] q = "history" -> {[orders |-> S] : S \in Histories}
                        \cup (IF kind = "bittrex" THEN {Null} ELSE {})
    [] q = "balance" -> {[free |-> FreeIn(market), total |-> Total]}
                        \cup (IF kind = "bittrex" THEN {Nothing} ELSE {})

\* An answer, with its status; or none, which is an exception of the request.
Reply(http, doc) == wire' = [st |-> "answered", http |-> http, doc |-> doc]
Lose == wire' = [st |-> "lost", http |-> FALSE, doc |-> NoDoc]

Refuse == Reply(kind \in SoftErrors, ErrorDoc(kind)) \/ Reply(FALSE, NoDoc) \/ Reply(TRUE, NoDoc)

\* A question is answered.
Answer ==
  /\ wire.st = "sent"
  /\ call.req \in Questions
  /\ \/ \E held \in Held(call.req) : Reply(TRUE, DataDoc(kind, call.req, held))
     \/ Refuse
     \/ Lose
  /\ UNCHANGED <<kind, exchange, early, call, seen, process>>

\* An order is placed or cancelled, and the answer arrives or is lost.
Execute ==
  /\ wire.st = "sent"
  /\ \/ /\ call.req = "place"
        /\ Becomes(call.order, "open")
        /\ copies' = [copies EXCEPT ![call.order] = @ + 1]
     \/ /\ call.req = "cancel"
        /\ market[call.order] = "open"
        /\ Becomes(call.order, "cancelled")
        /\ UNCHANGED copies
  /\ Reply(TRUE, DataDoc(kind, call.req, call.order)) \/ Lose
  /\ UNCHANGED <<kind, early, call, seen, process>>

\* It is not, and the answer says so or there is none.
Reject ==
  /\ wire.st = "sent"
  /\ call.req \in {"place", "cancel"}
  /\ Reply(kind \in SoftErrors, ErrorDoc(kind)) \/ Lose
  /\ UNCHANGED <<kind, exchange, early, call, seen, process>>

-----------------------------------------------------------------------------
(***************************************************************************)
(* The process.                                                            *)
(***************************************************************************)

\* Mutant: a placement is tried again as other requests are.
TriesOfAll(k, q) == 3

\* max_tries; the requests that go out with GET are sent once.
Tries(k, q) ==
  CASE k = "poloniex" /\ q = "open" -> 3
    [] k = "kraken" /\ q \in {"open", "history"} -> 5
    [] k = "binance" /\ q = "cancel" -> 3
    [] OTHER -> 1

Sent == wire' = [st |-> "sent", http |-> FALSE, doc |-> NoDoc]

\* get_open_orders_by_exchange, get_order_history_by_exchange, get_balance_by_exchange.
Ask(q) ==
  /\ call = NoCall
  /\ call' = [req |-> q, order |-> NoOrder, tries |-> 1]
  /\ Sent
  /\ seen' = {Truth(market, q)}
  /\ UNCHANGED <<kind, exchange, early, process>>

\* buy_by_exchange and sell_by_exchange; cancel_by_exchange, of an order that has an id.
Deal(q, o) ==
  /\ call = NoCall
  /\ q = "place" => market[o] = "none"
  /\ q = "cancel" => \E id \in ours[o] : id[2] = o
  /\ call' = [req |-> q, order |-> o, tries |-> 1]
  /\ Sent
  /\ UNCHANGED <<kind, exchange, early, seen, process>>

\* Mutant: one try more.
OneMore ==
  /\ wire.st = "lost"
  /\ call.tries <= Tries(kind, call.req)
  /\ call' = [call EXCEPT !.tries = @ + 1]
  /\ Sent
  /\ UNCHANGED <<kind, exchange, early, seen, process>>

\* send_post_request_with_header, send_delete_request_with_header: the next try.
SendAgain ==
  /\ wire.st = "lost"
  /\ call.tries < Tries(kind, call.req)
  /\ call' = [call EXCEPT !.tries = @ + 1]
  /\ Sent
  /\ UNCHANGED <<kind, exchange, early, seen, process>>

\* The dispatch tables of dao/.
OpenOrders(d) ==
  CASE kind = "binance" -> OrdersBinance(d)
    [] kind = "bittrex" -> OpenBittrex(d)
    [] kind = "huobi" -> OrdersHuobi(d)
    [] kind = "kraken" -> OpenKraken(list)
    [] kind = "poloniex" -> OpenPoloniex(d)

OrderHistory(d) ==
  CASE kind = "binance" -> OrdersBinance(d)
    [] kind = "bittrex" -> HistoryBittrex(d)
    [] kind = "huobi" -> OrdersHuobi(d)
    [] kind = "kraken" -> Success(KrakenListed(d, list))
    [] kind = "poloniex" -> HistoryPoloniex(d)

GetBalance(d) ==
  CASE kind = "binance" -> BalanceBinance(d)
    [] kind = "bittrex" -> BalanceBittrex(d)
    [] kind = "huobi" -> BalanceHuobi(d)
    [] kind = "kraken" -> BalanceKraken(d)
    [] kind = "poloniex" -> BalancePoloniex(d)

ParseOrderId(d) ==
  CASE kind = "binance" -> IdBinance(d)
    [] kind = "bittrex" -> IdBittrex(d)
    [] kind = "huobi" -> IdHuobi(d)
    [] kind = "kraken" -> IdKraken(d)
    [] kind = "poloniex" -> IdPoloniex(d)

\* Mutant: any answer is a success.
AnyStatus(w) == IF w.st = "lost" THEN "failure" ELSE "success"

\* STATUS of a request: that of HTTP alone.
Status(w) == IF w.st = "answered" /\ w.http THEN "success" ELSE "failure"

\* What a question makes of a document that came with HTTP 200.
Outcome(d) ==
  CASE call.req = "open" -> OpenOrders(d)
    [] call.req = "history" -> OrderHistory(d)
    [] call.req = "balance" -> GetBalance(d)

Over == wire.st = "answered" \/ (wire.st = "lost" /\ call.tries >= Tries(kind, call.req))

Returned ==
  /\ call' = NoCall
  /\ wire' = NoRequest
  /\ seen' = {}
  /\ UNCHANGED <<kind, exchange, early>>

\* A question returns.
Tell ==
  /\ Over
  /\ call.req \in Questions
  /\ told' = IF Status(wire) = "success" THEN Outcome(wire.doc) ELSE Failure
  /\ list' = IF kind = "kraken" /\ call.req = "history" /\ Status(wire) = "success"
               THEN KrakenListed(wire.doc, list) ELSE list
  /\ Returned
  /\ UNCHANGED <<ours, gone>>

\* A placement or a cancellation returns; the caller parses the id of the order.
Confirm ==
  /\ Over
  /\ call.req \notin Questions
  /\ IF Status(wire) = "success"
       THEN \/ /\ call.req = "place"
               /\ ours' = [ours EXCEPT ![call.order] = ParseOrderId(wire.doc)]
               /\ UNCHANGED gone
            \/ /\ call.req = "cancel"
               /\ gone' = gone \cup {call.order}
               /\ UNCHANGED ours
       ELSE UNCHANGED <<ours, gone>>
  /\ Returned
  /\ UNCHANGED <<list, told>>

-----------------------------------------------------------------------------
Next ==
  \/ \E o \in Orders : Close(o) \/ Appear(o)
  \/ Answer \/ Execute \/ Reject
  \/ \E q \in Questions : Ask(q)
  \/ \E q \in {"place", "cancel"}, o \in Orders : Deal(q, o)
  \/ SendAgain \/ Tell \/ Confirm

Spec == Init /\ [][Next]_vars
-----------------------------------------------------------------------------
(***************************************************************************)
(* Properties.                                                             *)
(***************************************************************************)
Ids == {"number", "text", "list"} \X (Orders \cup {NoOrder})

\* The values the variables take, the number of tries among them (max_tries).
TypeOK ==
  /\ kind \in Used
  /\ market \in [Orders -> {"none", "open", "filled", "cancelled"}]
  /\ early \subseteq Orders
  /\ copies \in [Orders -> Nat]
  /\ list \subseteq Ids
  /\ wire.st \in {"none", "sent", "answered", "lost"}
  /\ call = NoCall <=> wire.st = "none"
  /\ call # NoCall => call.tries \in 1 .. Tries(kind, call.req)
  /\ ours \in [Orders -> SUBSET Ids]
  /\ told.status \in {"none", "success", "failure", "raised"}
  /\ told.ids \subseteq Ids
  /\ told.coins \in 0 .. Coins
  /\ gone \subseteq Orders

\* The questions whose answers are complete. Binance' orders always raise an exception;
\* the window of Huobi's, Kraken's and Poloniex' history ends with the start of the
\* process; Kraken's open orders are left out and its balance is the whole one.
Promised(k) ==
  CASE k = "binance" -> {"balance"}
    [] k = "bittrex" -> Questions
    [] k \in {"huobi", "poloniex"} -> {"open", "balance"}
    [] k = "kraken" -> {}

Inquiry == INSTANCE OrderInquiry WITH
  None <- NoCall,
  truth <- [q \in Questions |-> Truth(market, q)],
  promised <- Promised(kind),
  asked <- IF call # NoCall /\ call.req \in Questions THEN call.req ELSE NoCall,
  told <- [status |-> told.status,
           answer |-> [orders |-> {id[2] : id \in told.ids}, coins |-> told.coins]]

\* Whatever errors, losses and tries lie between, an answer that is told is what was true
\* at one moment of the call, where it is promised; elsewhere it names no order
\* that was not there then, and not less coins (dao/order_utils.py,
\* order_history_utils.py, balance_utils.py): the abstract adapter is implemented.
Promise == Inquiry!Spec

\* A placed order and the orders that are read later give it the same id: recovery
\* finds a lost order, and knows the others, by comparing ids (parse_order_id_* and
\* Trade.from_*). Kraken, whose placements have a list for an id, is no part of it.
IdsAgree ==
  kind # "kraken" => \A i \in told.ids : \A j \in ours[i[2]] : i[2] = j[2] => i = j

\* A placement whose answer is lost is not sent again, so that no call places an order
\* twice (the max_tries of buy and sell orders).
PlacedOnce == \A o \in Orders : copies[o] <= 1

\* Where errors come with an HTTP status of their own, an order whose cancellation
\* succeeded is cancelled: it was not filled meanwhile (cancel_by_exchange).
ConfirmedIsCancelled == kind \notin SoftErrors => \A o \in gone : market[o] = "cancelled"

\* Stated by the documentation of get_open_orders_kraken, whose example has an open order:
\* a successful answer lists all orders of the document (kraken/order_utils.py).
ListsWhatIsOpen ==
  [][Tell /\ call.req = "open" /\ told'.status = "success" /\ wire.doc # NoDoc
       /\ "result" \in wire.doc.fields
     => {id[2] : id \in told'.ids} = wire.doc.holds.orders]_vars
=============================================================================
