------------------------ MODULE ExchangeAdapter_proofs ------------------------
(***************************************************************************)
(* What an adapter's answers are worth, for any number of orders and any   *)
(* of the five exchanges: the invariants of ExchangeAdapter, and that it   *)
(* implements OrderInquiry.                                                *)
(***************************************************************************)
EXTENDS ExchangeAdapter, FiniteSetTheorems, TLAPS

USE AnswerAssumption, AdapterAssumption

-----------------------------------------------------------------------------
(***************************************************************************)
(* The inductive invariant.                                                *)
(***************************************************************************)
Asking == call # NoCall /\ call.req \in Questions
Arrived == wire.st = "answered" /\ wire.http

\* A placement that is on its way is of an order that is not at the exchange.
CallInv ==
  /\ call = NoCall \/ call \in Calls
  /\ call # NoCall /\ ~ Asking => call.order \in Orders
  /\ call # NoCall /\ call.req = "place" /\ wire.st = "sent" => market[call.order] = "none"

CopiesInv == \A o \in Orders : copies[o] = IF market[o] = "none" THEN 0 ELSE 1

\* A right answer to q.
Answers(q) ==
  {v \in [orders : SUBSET Orders, coins : 0 .. Coins] :
     IF q = "balance" THEN v.orders = {} ELSE v.coins = 0}

SeenInv ==
  IF Asking THEN Truth(market, call.req) \in seen /\ seen \subseteq Answers(call.req)
            ELSE seen = {}

\* What Kraken's list has stays closed, and is in every right answer to come.
Closed == {o \in Orders : market[o] \in {"filled", "cancelled"}}
ListInv ==
  /\ list # {} => kind = "kraken"
  /\ \A i \in list : i[1] = "text" /\ i[2] \in Closed
  /\ kind = "kraken" /\ Asking /\ call.req = "history" =>
       \A v \in seen : v.orders \subseteq Closed /\ \A i \in list : i[2] \in v.orders

\* What a document without an error holds was true during the call.
HeldRightly(held, v) ==
  CASE call.req = "open" -> held = [orders |-> v.orders]
    [] call.req = "history" ->
         \/ kind = "bittrex" /\ held = Null
         \/ \E S \in SUBSET v.orders :
              held = [orders |-> S] /\ (S = v.orders \/ kind \in Windowed)
    [] call.req = "balance" ->
         \/ kind = "bittrex" /\ held = Nothing
         \/ \E n \in v.coins .. Coins : held = [free |-> v.coins, total |-> n]

DocInv ==
  Arrived =>
    \/ Asking /\ wire.doc = NoDoc
    \/ kind \in SoftErrors /\ wire.doc = ErrorDoc(kind)
    \/ Asking /\ \E v \in seen : \E held :
                   wire.doc = DataDoc(kind, call.req, held) /\ HeldRightly(held, v)
    \/ call # NoCall /\ ~ Asking /\ wire.doc = DataDoc(kind, call.req, call.order)

TagInv ==
  /\ \A i \in told.ids : i[1] = "text" /\ i[2] \in Orders
  /\ kind = "binance" => told.ids = {}
  /\ kind \notin {"binance", "kraken"} => \A o \in Orders : \A i \in ours[o] : i[1] = "text"

GoneInv ==
  kind \notin SoftErrors =>
    /\ \A o \in gone : market[o] = "cancelled"
    /\ Arrived /\ call # NoCall /\ call.req = "cancel" => market[call.order] = "cancelled"

Inv ==
  TypeOK /\ CallInv /\ CopiesInv /\ SeenInv /\ ListInv /\ DocInv /\ TagInv /\ GoneInv

-----------------------------------------------------------------------------
(***************************************************************************)
(* The right answers.                                                      *)
(***************************************************************************)
States == {"none", "open", "filled", "cancelled"}

\* An order locks a coin of the account or has sold it: no balance is negative.
LEMMA CoinsBounded ==
  ASSUME NEW m \in [Orders -> States]
  PROVE  /\ FreeIn(m) \in 0 .. Coins
         /\ Coins - Cardinality(In(m, {"filled"})) \in FreeIn(m) .. Coins
<1>1. /\ In(m, {"open", "filled"}) \subseteq Orders
      /\ In(m, {"filled"}) \subseteq In(m, {"open", "filled"})
  BY DEF In
<1>2. /\ IsFiniteSet(In(m, {"open", "filled"}))
      /\ Cardinality(In(m, {"open", "filled"})) <= Cardinality(Orders)
  BY <1>1, FS_Subset
<1>3. /\ IsFiniteSet(In(m, {"filled"}))
      /\ Cardinality(In(m, {"filled"})) <= Cardinality(In(m, {"open", "filled"}))
  BY <1>1, <1>2, FS_Subset
<1>4. Cardinality(Orders) \in Nat /\ Cardinality(In(m, {"filled"})) \in Nat
      /\ Cardinality(In(m, {"open", "filled"})) \in Nat
  BY <1>2, <1>3, FS_CardinalityType
<1> QED
  BY <1>2, <1>3, <1>4 DEF FreeIn

LEMMA TruthIsAnswer ==
  ASSUME NEW m \in [Orders -> States], NEW q \in Questions
  PROVE  Truth(m, q) \in Answers(q)
<1>1. FreeIn(m) \in 0 .. Coins /\ 0 \in 0 .. Coins
  BY CoinsBounded
<1>2. \A states : In(m, states) \in SUBSET Orders
  BY DEF In
<1> QED
  BY <1>1, <1>2 DEF Truth, Answers, Questions

\* An order that is closed stays so.
LEMMA ClosedStays ==
  ASSUME Inv, [Next]_vars
  PROVE  /\ UNCHANGED kind /\ market' \in [Orders -> States]
         /\ \A o \in Closed : market'[o] = market[o]
<1>1. market \in [Orders -> States]
  BY DEF Inv, TypeOK, States
<1>2. ASSUME NEW o \in Orders, Close(o) \/ Appear(o)
      PROVE  /\ UNCHANGED kind /\ market' \in [Orders -> States]
             /\ \A l \in Closed : market'[l] = market[l]
  BY <1>1, <1>2 DEF Close, Appear, Becomes, Closed, States
<1>3. ASSUME Execute
      PROVE  /\ UNCHANGED kind /\ market' \in [Orders -> States]
             /\ \A l \in Closed : market'[l] = market[l]
  <2>1. call # NoCall
    BY <1>3 DEF Execute, Inv, TypeOK
  <2> QED
    BY <1>1, <1>3, <2>1 DEF Execute, Becomes, Closed, States, Inv, CallInv
<1>4. CASE Answer \/ Reject \/ SendAgain \/ Tell \/ Confirm \/ UNCHANGED vars
  BY <1>1, <1>4 DEF Answer, Reject, SendAgain, Tell, Confirm, Returned, vars, exchange
<1>5. ASSUME NEW q, NEW o, Ask(q) \/ Deal(q, o)
      PROVE  UNCHANGED <<kind, market>>
  BY <1>5 DEF Ask, Deal, exchange
<1> QED
  BY <1>1, <1>2, <1>3, <1>4, <1>5 DEF Next

-----------------------------------------------------------------------------
(***************************************************************************)
(* The exchange's steps.                                                   *)
(***************************************************************************)

\* Orders that other processes place, and that are filled or cancelled.
LEMMA CloseKeeps ==
  ASSUME Inv, NEW o \in Orders, Close(o) \/ Appear(o)
  PROVE  Inv'
<1>1. /\ UNCHANGED <<kind, early, call, wire, process>> /\ Seen
      /\ market \in [Orders -> States] /\ market' \in [Orders -> States]
      /\ \A l \in Closed : market'[l] = market[l]
      /\ \A l \in Orders : l # o => market'[l] = market[l]
  <2>1. [Next]_vars
    BY DEF Next
  <2> QED
    BY <2>1, ClosedStays DEF Close, Appear, Becomes, Inv, TypeOK, States
<1>2. TypeOK /\ CallInv /\ CopiesInv /\ SeenInv /\ ListInv /\ DocInv /\ TagInv /\ GoneInv
  BY DEF Inv
<1>3. TypeOK'
  BY <1>1, <1>2 DEF Close, Appear, TypeOK, States, process, Tries
<1>4. CallInv'
  <2>1. call # NoCall /\ call.req = "place" /\ wire.st = "sent" => call.order # o
    BY <1>2 DEF Close, Appear, CallInv
  <2> QED
    BY <1>1, <1>2, <2>1 DEF CallInv, Asking, Questions
<1>5. CopiesInv'
  BY <1>1, <1>2 DEF Close, Appear, Becomes, CopiesInv, TypeOK
<1>6. seen' = IF Asking THEN seen \cup {Truth(market', call.req)} ELSE {}
  BY <1>1 DEF Seen, Asking
<1>7. SeenInv'
  <2>1. CASE Asking
    <3>1. Truth(market', call.req) \in Answers(call.req)
      BY <1>1, <2>1, TruthIsAnswer DEF Asking
    <3>2. Truth(market', call.req) = Truth(market, call.req)'
      BY <1>1 DEF Truth, In, FreeIn, Shown
    <3> QED
      BY <1>1, <1>2, <1>6, <2>1, <3>1, <3>2 DEF SeenInv, Asking, Answers
  <2>2. CASE ~ Asking
    BY <1>1, <1>6, <2>2 DEF SeenInv, Asking
  <2> QED
    BY <2>1, <2>2
<1>8. ListInv'
  <2>1. Closed \subseteq Closed'
    BY <1>1 DEF Closed
  <2>2. kind = "kraken" => Truth(market', "history").orders = Closed'
    BY <1>1 DEF Truth, In, Shown, Closed
  <2> QED
    BY <1>1, <1>2, <1>6, <2>1, <2>2 DEF ListInv, Asking, process
<1>9. DocInv'
  <2>1. Asking => seen \subseteq seen'
    BY <1>6
  <2>2. \A d, v : HeldRightly(d, v) => HeldRightly(d, v)'
    BY <1>1 DEF HeldRightly
  <2> QED
    BY <1>1, <1>2, <2>1, <2>2 DEF DocInv, Asking, Arrived
<1>10. TagInv'
  BY <1>1, <1>2 DEF TagInv, process
<1>11. GoneInv'
  <2>1. \A l \in Orders : market[l] = "cancelled" => market'[l] = "cancelled"
    BY <1>1 DEF Closed
  <2>2. gone \subseteq Orders /\ (Arrived /\ call # NoCall /\ call.req = "cancel" => call.order \in Orders)
    BY <1>2 DEF TypeOK, CallInv, Asking, Questions
  <2> QED
    BY <1>1, <1>2, <2>1, <2>2 DEF GoneInv, Arrived, process
<1> QED
  BY <1>3, <1>4, <1>5, <1>7, <1>8, <1>9, <1>10, <1>11 DEF Inv

\* What a document holds that comes without an error.
LEMMA HeldIsRight ==
  ASSUME Inv, Asking, NEW held \in Held(call.req)
  PROVE  HeldRightly(held, Truth(market, call.req))
<1>1. market \in [Orders -> States] /\ kind \in Kinds
  BY DEF Inv, TypeOK, States
<1>2. \A states : With(states) = In(market, states)
  BY DEF With
<1>3. CASE call.req = "open"
  BY <1>2, <1>3 DEF Held, HeldRightly, Truth
<1>4. CASE call.req = "history"
  <2>1. Truth(market, "history").orders = With(Shown(kind))
    BY <1>2 DEF Truth
  <2>2. \A S \in Histories :
          S \in SUBSET With(Shown(kind)) /\ (S = With(Shown(kind)) \/ kind \in Windowed)
    BY DEF Histories
  <2>3. \/ kind = "bittrex" /\ held = Null
        \/ \E S \in Histories : held = [orders |-> S]
    BY <1>4 DEF Held
  <2> QED
    BY <1>4, <2>1, <2>2, <2>3 DEF HeldRightly
<1>5. CASE call.req = "balance"
  <2>1. Truth(market, "balance").coins = FreeIn(market)
    BY DEF Truth
  <2>2. Total \in FreeIn(market) .. Coins
    BY <1>1, <1>2, CoinsBounded DEF Total
  <2>3. held = [free |-> FreeIn(market), total |-> Total] \/ (kind = "bittrex" /\ held = Nothing)
    BY <1>5 DEF Held
  <2> QED
    BY <1>5, <2>1, <2>2, <2>3 DEF HeldRightly
<1> QED
  BY <1>3, <1>4, <1>5 DEF Asking, Questions

\* The documents of errors, some of which come with HTTP 200.
LEMMA ErrorReply ==
  ASSUME Reply(kind \in SoftErrors, ErrorDoc(kind))
  PROVE  wire'.st = "answered" /\ wire'.doc = ErrorDoc(kind) /\ (wire'.http => kind \in SoftErrors)
<1>1. CASE kind \in SoftErrors
  BY <1>1 DEF Reply
<1>2. CASE kind \notin SoftErrors
  <2>1. (kind \in SoftErrors) = FALSE
    BY <1>2
  <2>2. Reply(FALSE, ErrorDoc(kind))
    BY <2>1, Zenon
  <2> QED
    BY <2>2 DEF Reply
<1> QED
  BY <1>1, <1>2

\* An answer changes nothing but what is on the wire.
LEMMA ReplyKeeps ==
  ASSUME Inv, UNCHANGED <<kind, exchange, early, call, seen, process>>,
         wire.st = "sent", wire'.st \in {"answered", "lost"}, DocInv',
         GoneInv'
  PROVE  Inv'
<1>1. /\ TypeOK /\ CallInv /\ CopiesInv /\ SeenInv /\ ListInv /\ TagInv
      /\ UNCHANGED <<kind, market, copies, early, call, seen, list, ours, told, gone>>
  BY DEF Inv, exchange, process
<1>2. TypeOK'
  BY <1>1 DEF TypeOK, Tries
<1>3. CallInv' /\ CopiesInv'
  BY <1>1 DEF CallInv, CopiesInv, Asking
<1>4. SeenInv'
  <2>1. Truth(market, call.req)' = Truth(market, call.req) /\ (Asking <=> Asking')
    BY <1>1 DEF Truth, In, FreeIn, Shown, Asking
  <2> QED
    BY <1>1, <2>1 DEF SeenInv, Answers
<1>5. ListInv' /\ TagInv'
  BY <1>1 DEF ListInv, TagInv, Closed, Asking
<1> QED
  BY <1>2, <1>3, <1>4, <1>5 DEF Inv

LEMMA AnswerKeeps ==
  ASSUME Inv, Answer
  PROVE  Inv'
<1>1. call # NoCall /\ Asking /\ SeenInv /\ GoneInv
  BY DEF Inv, TypeOK, Answer, Asking
<1>2. UNCHANGED <<kind, market, early, call, seen, gone>>
  BY DEF Answer, exchange, process
<1>3. Asking' /\ \A held, v : HeldRightly(held, v) => HeldRightly(held, v)'
  BY <1>1, <1>2 DEF Asking, HeldRightly
<1>4. Truth(market, call.req) \in seen
  BY <1>1 DEF SeenInv
<1>5. DocInv'
  <2>1. CASE \E held \in Held(call.req) : Reply(TRUE, DataDoc(kind, call.req, held))
    <3>1. PICK held \in Held(call.req) : wire'.doc = DataDoc(kind, call.req, held)
      BY <2>1 DEF Reply
    <3>2. PICK v \in seen : v = Truth(market, call.req)
      BY <1>4
    <3>3. HeldRightly(held, v)'
      BY <1>1, <1>3, <3>2, HeldIsRight
    <3> QED
      BY <1>2, <1>3, <3>1, <3>3 DEF DocInv
  <2>2. CASE Refuse \/ Lose
    <3>1. \/ wire'.doc = NoDoc \/ ~ Arrived'
          \/ wire'.doc = ErrorDoc(kind) /\ kind \in SoftErrors
      <4>1. CASE Reply(kind \in SoftErrors, ErrorDoc(kind))
        BY <4>1, ErrorReply DEF Arrived
      <4>2. CASE Reply(FALSE, NoDoc) \/ Reply(TRUE, NoDoc) \/ Lose
        BY <4>2 DEF Reply, Lose, Arrived
      <4> QED
        BY <2>2, <4>1, <4>2 DEF Refuse
    <3> QED
      BY <1>2, <1>3, <3>1 DEF DocInv
  <2> QED
    BY <2>1, <2>2 DEF Answer
<1>6. GoneInv'
  BY <1>1, <1>2 DEF GoneInv, Asking, Questions
<1>7. wire.st = "sent" /\ wire'.st \in {"answered", "lost"}
  BY DEF Answer, Refuse, Reply, Lose
<1> QED
  BY <1>5, <1>6, <1>7, ReplyKeeps DEF Answer

LEMMA RejectKeeps ==
  ASSUME Inv, Reject
  PROVE  Inv'
<1>1. call # NoCall /\ ~ Asking /\ GoneInv
  BY DEF Inv, TypeOK, Reject, Asking, Questions
<1>2. UNCHANGED <<kind, market, early, call, seen, gone>>
  BY DEF Reject, exchange, process
<1>3. DocInv'
  BY <1>2, ErrorReply DEF DocInv, Reject, Lose, Arrived
<1>4. GoneInv'
  BY <1>1, <1>2, ErrorReply DEF GoneInv, Reject, Lose, Arrived
<1>5. wire.st = "sent" /\ wire'.st \in {"answered", "lost"}
  BY DEF Reject, Reply, Lose
<1> QED
  BY <1>3, <1>4, <1>5, ReplyKeeps DEF Reject

LEMMA ExecuteKeeps ==
  ASSUME Inv, Execute
  PROVE  Inv'
<1>1. TypeOK /\ CallInv /\ CopiesInv /\ SeenInv /\ ListInv /\ TagInv /\ GoneInv
  BY DEF Inv
<1>2. /\ call # NoCall /\ ~ Asking /\ call.order \in Orders /\ seen = {}
      /\ UNCHANGED <<kind, early, call, seen, list, ours, told, gone>>
      /\ wire.st = "sent" /\ wire'.st \in {"answered", "lost"}
  BY <1>1 DEF TypeOK, CallInv, SeenInv, Execute, Asking, Questions, Reply, Lose, process
<1>3. /\ market' \in [Orders -> States] /\ \A o \in Closed : market'[o] = market[o]
      /\ market \in [Orders -> States]
  <2>1. [Next]_vars
    BY DEF Next
  <2> QED
    BY <1>1, <2>1, ClosedStays DEF TypeOK, States
<1>4. /\ copies' \in [Orders -> Nat] /\ CopiesInv'
  <2>1. CASE call.req = "place"
    BY <1>1, <1>2, <2>1 DEF Execute, Becomes, TypeOK, CopiesInv, CallInv
  <2>2. CASE call.req = "cancel"
    BY <1>1, <1>2, <2>2 DEF Execute, Becomes, TypeOK, CopiesInv
  <2> QED
    BY <2>1, <2>2 DEF Execute
<1>5. TypeOK'
  BY <1>1, <1>2, <1>3, <1>4 DEF TypeOK, States, Tries
<1>6. CallInv' /\ SeenInv'
  BY <1>1, <1>2 DEF CallInv, SeenInv, Asking
<1>7. ListInv' /\ TagInv'
  BY <1>1, <1>2, <1>3 DEF ListInv, TagInv, Closed, Asking
<1>8. DocInv'
  <2>1. ~ Arrived' \/ wire'.doc = DataDoc(kind, call.req, call.order)
    BY DEF Execute, Reply, Lose, Arrived
  <2> QED
    BY <1>2, <2>1 DEF DocInv, Asking
<1>9. GoneInv'
  <2>1. \A o \in gone : market[o] = "cancelled" => market'[o] = "cancelled"
    BY <1>1, <1>3 DEF Closed, TypeOK
  <2>2. call.req = "cancel" => market'[call.order] = "cancelled"
    BY <1>2, <1>3 DEF Execute, Becomes
  <2> QED
    BY <1>1, <1>2, <2>1, <2>2 DEF GoneInv
<1> QED
  BY <1>4, <1>5, <1>6, <1>7, <1>8, <1>9 DEF Inv

-----------------------------------------------------------------------------
(***************************************************************************)
(* What a question makes of a document. RightAnswer says of v, which was   *)
(* true during the call, that r tells it where that is promised, and else  *)
(* no order that is not of v, and not less coins.                          *)
(***************************************************************************)
RightAnswer(r, v) ==
  \E S \in SUBSET v.orders, n \in v.coins .. Coins :
    /\ r = Told("success", {<<"text", o>> : o \in S}, n)
    /\ call.req \in Promised(kind) => S = v.orders /\ n = v.coins
    /\ kind = "binance" => S = {}

\* An error of Poloniex that came with HTTP 200 would pass for a balance.
NoCoinsTold(r) == kind = "poloniex" /\ kind \in SoftErrors /\ r = Balance(0)

Rightly(r) == r \in {Failure, Raised} \/ NoCoinsTold(r) \/ \E v \in seen : RightAnswer(r, v)

\* The answers told of: orders, or coins.
LEMMA OrdersAreRight ==
  ASSUME Inv, Asking, call.req \in {"open", "history"}, kind # "binance",
         NEW v \in seen, NEW S \in SUBSET v.orders,
         S = v.orders \/ call.req \notin Promised(kind)
  PROVE  Rightly(Success({<<"text", o>> : o \in S}))
<1>1. v.coins = 0 /\ 0 \in 0 .. Coins
  BY DEF Inv, SeenInv, Answers
<1> QED
  BY <1>1 DEF Rightly, RightAnswer, Success

LEMMA CoinsAreRight ==
  ASSUME Inv, Asking, call.req = "balance", NEW v \in seen, NEW n \in v.coins .. Coins,
         n = v.coins \/ call.req \notin Promised(kind)
  PROVE  Rightly(Balance(n))
<1>1. v.orders = {}
  BY DEF Inv, SeenInv, Answers
<1>2. {} = {<<"text", o>> : o \in {}} /\ {} \in SUBSET v.orders
  OBVIOUS
<1> QED
  BY <1>1, <1>2 DEF Rightly, RightAnswer, Balance

\* The documents that come with HTTP 200.
LEMMA DocumentsAsked ==
  ASSUME Inv, Asking, Arrived
  PROVE  \/ wire.doc = NoDoc
         \/ kind \in SoftErrors /\ wire.doc = ErrorDoc(kind)
         \/ \E v \in seen : \E held :
              wire.doc = DataDoc(kind, call.req, held) /\ HeldRightly(held, v)
BY DEF Inv, DocInv

LEMMA BinanceTells ==
  ASSUME Inv, Asking, Arrived, kind = "binance"
  PROVE  Rightly(Outcome(wire.doc))
<1>1. CASE call.req \in {"open", "history"}
  BY <1>1 DEF Outcome, OpenOrders, OrderHistory, OrdersBinance, Rightly
<1>2. CASE call.req = "balance"
  <2>1. Outcome(wire.doc) = BalanceBinance(wire.doc)
    BY <1>2 DEF Outcome, GetBalance
  <2>2. CASE wire.doc = NoDoc
    BY <2>1, <2>2 DEF BalanceBinance, BinanceError, Rightly
  <2>3. CASE wire.doc = ErrorDoc(kind)
    <3>1. wire.doc.fields = {"code", "msg"}
      BY <2>3 DEF ErrorDoc
    <3> QED
      BY <2>1, <3>1 DEF BalanceBinance, BinanceError, Rightly
  <2>4. ASSUME NEW v \in seen, NEW held,
               wire.doc = DataDoc(kind, call.req, held), HeldRightly(held, v)
        PROVE  Rightly(Outcome(wire.doc))
    <3>1. wire.doc.holds.free = v.coins
      BY <1>2, <2>4 DEF DataDoc, HeldRightly
    <3>2. v.coins \in v.coins .. Coins
      BY DEF Inv, SeenInv, Answers
    <3>3. Rightly(Balance(v.coins))
      BY <1>2, <3>2, CoinsAreRight
    <3> QED
      BY <2>1, <3>1, <3>3 DEF BalanceBinance, Rightly
  <2> QED
    BY <2>2, <2>3, <2>4, DocumentsAsked
<1> QED
  BY <1>1, <1>2 DEF Asking, Questions

LEMMA BittrexTells ==
  ASSUME Inv, Asking, Arrived, kind = "bittrex"
  PROVE  Rightly(Outcome(wire.doc))
<1>1. /\ call.req = "open" => Outcome(wire.doc) = OpenBittrex(wire.doc)
      /\ call.req = "history" => Outcome(wire.doc) = HistoryBittrex(wire.doc)
      /\ call.req = "balance" => Outcome(wire.doc) = BalanceBittrex(wire.doc)
  BY DEF Outcome, OpenOrders, OrderHistory, GetBalance
<1>2. call.req \in {"open", "history", "balance"}
  BY DEF Asking, Questions
<1>3. CASE BittrexError(wire.doc)
  BY <1>1, <1>2, <1>3 DEF OpenBittrex, HistoryBittrex, BalanceBittrex, Rightly
<1>4. wire.doc = ErrorDoc(kind) => BittrexError(wire.doc)
  BY DEF ErrorDoc, BittrexError
<1>5. ASSUME NEW v \in seen, NEW held, ~ BittrexError(wire.doc),
             wire.doc = DataDoc(kind, call.req, held), HeldRightly(held, v)
      PROVE  Rightly(Outcome(wire.doc))
  <2>1. wire.doc.holds = held
    BY <1>5 DEF DataDoc
  <2>2. CASE held = Null
    BY <1>1, <1>2, <1>5, <2>1, <2>2 DEF OpenBittrex, HistoryBittrex, BalanceBittrex, Rightly
  <2>3. CASE held # Null /\ call.req \in {"open", "history"}
    <3>1. held = [orders |-> v.orders]
      BY <2>3 , <1>5 DEF HeldRightly, Windowed
    <3>2. Outcome(wire.doc) = Success({<<"text", o>> : o \in v.orders})
      BY <1>1, <1>5, <2>1, <2>3, <3>1
         DEF OpenBittrex, HistoryBittrex, FromBittrex, FromBittrexHistory
    <3> QED
      BY <2>3, <3>2, OrdersAreRight
  <2>4. CASE held # Null /\ call.req = "balance"
    <3>1. CASE held = Nothing
      BY <1>1, <1>5, <2>1, <2>4, <3>1 DEF BalanceBittrex, Rightly
    <3>2. CASE held # Nothing
      <4>1. held.free = v.coins
        BY <1>5, <2>4, <3>2 DEF HeldRightly
      <4>2. Outcome(wire.doc) = Balance(v.coins)
        BY <1>1, <1>5, <2>1, <2>4, <3>2, <4>1 DEF BalanceBittrex, Available
      <4>3. v.coins \in v.coins .. Coins
        BY DEF Inv, SeenInv, Answers
      <4> QED
        BY <2>4, <4>2, <4>3, CoinsAreRight
    <3> QED
      BY <3>1, <3>2
  <2> QED
    BY <1>2, <2>2, <2>3, <2>4
<1> QED
  BY <1>3, <1>4, <1>5, DocumentsAsked DEF BittrexError

LEMMA HuobiTells ==
  ASSUME Inv, Asking, Arrived, kind = "huobi"
  PROVE  Rightly(Outcome(wire.doc))
<1>1. /\ call.req \in {"open", "history"} => Outcome(wire.doc) = OrdersHuobi(wire.doc)
      /\ call.req = "balance" => Outcome(wire.doc) = BalanceHuobi(wire.doc)
  BY DEF Outcome, OpenOrders, OrderHistory, GetBalance
<1>2. call.req \in {"open", "history", "balance"}
  BY DEF Asking, Questions
<1>3. CASE wire.doc = NoDoc
  BY <1>1, <1>2, <1>3 DEF OrdersHuobi, BalanceHuobi, HuobiError, Rightly
<1>4. CASE wire.doc = ErrorDoc(kind)
  <2>1. wire.doc.holds = Null
    BY <1>4 DEF ErrorDoc
  <2> QED
    BY <1>1, <1>2, <2>1 DEF OrdersHuobi, BalanceHuobi, Rightly
<1>5. ASSUME NEW v \in seen, NEW held,
             wire.doc = DataDoc(kind, call.req, held), HeldRightly(held, v)
      PROVE  Rightly(Outcome(wire.doc))
  <2>1. wire.doc.holds = held
    BY <1>5 DEF DataDoc
  <2>2. Outcome(wire.doc) \in {Failure, Raised} => Rightly(Outcome(wire.doc))
    BY DEF Rightly
  <2>3. CASE call.req \in {"open", "history"}
    <3>1. \/ Outcome(wire.doc) \in {Failure, Raised}
          \/ held # Null /\ Outcome(wire.doc) = Success({FromHuobi(o) : o \in held.orders})
      BY <1>1, <2>1, <2>3 DEF OrdersHuobi
    <3>2. CASE held # Null
      <4>1. PICK S \in SUBSET v.orders :
              held = [orders |-> S] /\ (S = v.orders \/ call.req = "history")
        BY <1>5, <2>3, <3>2 DEF HeldRightly
      <4>2. S = v.orders \/ call.req \notin Promised(kind)
        BY <4>1 DEF Promised
      <4>3. Rightly(Success({<<"text", o>> : o \in S}))
        BY <2>3, <4>2, OrdersAreRight
      <4>4. {FromHuobi(o) : o \in held.orders} = {<<"text", o>> : o \in S}
        BY <4>1 DEF FromHuobi
      <4> QED
        BY <2>2, <3>1, <4>3, <4>4
    <3> QED
      BY <2>2, <3>1, <3>2
  <2>4. CASE call.req = "balance"
    <3>1. held.free = v.coins
      BY <1>5, <2>4 DEF HeldRightly
    <3>2. v.coins \in v.coins .. Coins
      BY DEF Inv, SeenInv, Answers
    <3>3. Rightly(Balance(v.coins))
      BY <2>4, <3>2, CoinsAreRight
    <3>4. Outcome(wire.doc) \in {Failure, Balance(v.coins)}
      BY <1>1, <2>1, <2>4, <3>1 DEF BalanceHuobi
    <3> QED
      BY <2>2, <3>3, <3>4
  <2> QED
    BY <1>2, <2>3, <2>4
<1> QED
  BY <1>3, <1>4, <1>5, DocumentsAsked

LEMMA PoloniexTells ==
  ASSUME Inv, Asking, Arrived, kind = "poloniex"
  PROVE  Rightly(Outcome(wire.doc))
<1>1. /\ call.req = "open" => Outcome(wire.doc) = OpenPoloniex(wire.doc)
      /\ call.req = "history" => Outcome(wire.doc) = HistoryPoloniex(wire.doc)
      /\ call.req = "balance" => Outcome(wire.doc) = BalancePoloniex(wire.doc)
  BY DEF Outcome, OpenOrders, OrderHistory, GetBalance
<1>2. call.req \in {"open", "history", "balance"}
  BY DEF Asking, Questions
<1>3. CASE wire.doc = NoDoc
  BY <1>1, <1>2, <1>3 DEF OpenPoloniex, HistoryPoloniex, BalancePoloniex, PoloniexError, Rightly
<1>4. CASE kind \in SoftErrors /\ wire.doc = ErrorDoc(kind)
  <2>1. wire.doc.fields = {"error"}
    BY <1>4 DEF ErrorDoc
  <2>2. Outcome(wire.doc) \in {Failure, Raised} \/ Outcome(wire.doc) = Balance(0)
    BY <1>1, <1>2, <2>1 DEF OpenPoloniex, HistoryPoloniex, BalancePoloniex, PoloniexError
  <2> QED
    BY <1>4, <2>2 DEF Rightly, NoCoinsTold
<1>5. ASSUME NEW v \in seen, NEW held,
             wire.doc = DataDoc(kind, call.req, held), HeldRightly(held, v), wire.doc # NoDoc
      PROVE  Rightly(Outcome(wire.doc))
  <2>1. wire.doc.holds = held /\ wire.doc.fields = {}
    BY <1>5 DEF DataDoc
  <2>2. CASE call.req \in {"open", "history"}
    <3>1. Outcome(wire.doc) = Success({<<"text", o>> : o \in held.orders})
      BY <1>1, <1>5, <2>1, <2>2 DEF OpenPoloniex, HistoryPoloniex, PoloniexError,
                                    FromPoloniex, FromPoloniexHistory
    <3>2. PICK S \in SUBSET v.orders :
            held = [orders |-> S] /\ (S = v.orders \/ call.req = "history")
      BY <1>5, <2>2 DEF HeldRightly
    <3>3. S = v.orders \/ call.req \notin Promised(kind)
      BY <3>2 DEF Promised
    <3>4. Rightly(Success({<<"text", o>> : o \in S}))
      BY <2>2, <3>3, OrdersAreRight
    <3> QED
      BY <3>1, <3>2, <3>4
  <2>3. CASE call.req = "balance"
    <3>1. held.free = v.coins
      BY <1>5, <2>3 DEF HeldRightly
    <3>2. v.coins \in v.coins .. Coins
      BY DEF Inv, SeenInv, Answers
    <3>3. Rightly(Balance(v.coins))
      BY <2>3, <3>2, CoinsAreRight
    <3>4. Outcome(wire.doc) = Balance(v.coins)
      BY <1>1, <1>5, <2>1, <2>3, <3>1 DEF BalancePoloniex
    <3> QED
      BY <3>3, <3>4
  <2> QED
    BY <1>2, <2>2, <2>3
<1> QED
  BY <1>3, <1>4, <1>5, DocumentsAsked

\* The closed orders in Kraken's list are those of any right answer.
LEMMA KrakenTells ==
  ASSUME Inv, Asking, Arrived, kind = "kraken"
  PROVE  Rightly(Outcome(wire.doc))
<1>1. /\ call.req = "open" => Outcome(wire.doc) = OpenKraken(list)
      /\ call.req = "history" => Outcome(wire.doc) = Success(KrakenListed(wire.doc, list))
      /\ call.req = "balance" => Outcome(wire.doc) = BalanceKraken(wire.doc)
  BY DEF Outcome, OpenOrders, OrderHistory, GetBalance
<1>2. call.req \in {"open", "history", "balance"}
  BY DEF Asking, Questions
<1>3. PICK u \in seen : u = Truth(market, call.req)
  BY DEF Inv, SeenInv
<1>4. call.req \notin Promised(kind)
  BY DEF Promised
<1>5. CASE call.req = "open"
  <2>1. Rightly(Success({<<"text", o>> : o \in {}}))
    BY <1>3, <1>4, <1>5, OrdersAreRight
  <2>2. {<<"text", o>> : o \in {}} = {}
    OBVIOUS
  <2> QED
    BY <1>1, <1>5, <2>1, <2>2 DEF OpenKraken, Rightly
<1>6. CASE call.req = "history"
  <2> DEFINE L == {i[2] : i \in list}
  <2>1. list = {<<"text", o>> : o \in L}
    <3>1. \A i \in list : i \in Ids /\ i[1] = "text"
      BY DEF Inv, TypeOK, ListInv
    <3>2. \A i \in list : i = <<"text", i[2]>>
      BY <3>1 DEF Ids
    <3> QED
      BY <3>2
  <2>2. \A v \in seen : L \subseteq v.orders
    BY <1>6 DEF Inv, ListInv
  <2> HIDE DEF L
  <2>3. CASE KrakenListed(wire.doc, list) = list
    <3>1. Rightly(Success({<<"text", o>> : o \in L}))
      BY <1>3, <1>4, <1>6, <2>2, OrdersAreRight
    <3> QED
      BY <1>1, <1>6, <2>1, <2>3, <3>1
  <2>4. ASSUME NEW v \in seen, NEW held, wire.doc = DataDoc(kind, call.req, held),
               HeldRightly(held, v), ~ KrakenError(wire.doc)
        PROVE  Rightly(Outcome(wire.doc))
    <3>1. PICK S \in SUBSET v.orders : held = [orders |-> S]
      BY <1>6, <2>4 DEF HeldRightly
    <3>2. wire.doc.holds = held
      BY <2>4 DEF DataDoc
    <3>3. KrakenListed(wire.doc, list) = {<<"text", o>> : o \in L \cup S}
      BY <2>1, <2>4, <3>1, <3>2 DEF KrakenListed, FromKraken
    <3>4. Rightly(Success({<<"text", o>> : o \in L \cup S}))
      BY <1>4, <1>6, <2>2, OrdersAreRight
    <3> QED
      BY <1>1, <1>6, <3>3, <3>4
  <2>5. KrakenError(wire.doc) => KrakenListed(wire.doc, list) = list
    BY DEF KrakenListed
  <2>6. wire.doc = NoDoc \/ wire.doc = ErrorDoc(kind) => KrakenError(wire.doc)
    BY DEF KrakenError, ErrorDoc
  <2> QED
    BY <2>3, <2>4, <2>5, <2>6, DocumentsAsked
<1>7. CASE call.req = "balance"
  <2>1. CASE KrakenError(wire.doc)
    BY <1>1, <1>7, <2>1 DEF BalanceKraken, Rightly
  <2>2. wire.doc = NoDoc \/ wire.doc = ErrorDoc(kind) => KrakenError(wire.doc)
    BY DEF KrakenError, ErrorDoc
  <2>3. ASSUME NEW v \in seen, NEW held, wire.doc = DataDoc(kind, call.req, held),
               HeldRightly(held, v), ~ KrakenError(wire.doc)
        PROVE  Rightly(Outcome(wire.doc))
    <3>1. PICK n \in v.coins .. Coins : held = [free |-> v.coins, total |-> n]
      BY <1>7, <2>3 DEF HeldRightly
    <3>2. wire.doc.holds = held
      BY <2>3 DEF DataDoc
    <3>3. Outcome(wire.doc) = Balance(n)
      BY <1>1, <1>7, <2>3, <3>1, <3>2 DEF BalanceKraken
    <3> QED
      BY <1>4, <1>7, <3>3, CoinsAreRight
  <2> QED
    BY <2>1, <2>2, <2>3, DocumentsAsked
<1> QED
  BY <1>2, <1>5, <1>6, <1>7

LEMMA OutcomeIsRight ==
  ASSUME Inv, Asking, Arrived
  PROVE  Rightly(Outcome(wire.doc))
<1>1. kind \in {"binance", "bittrex", "huobi", "kraken", "poloniex"}
  BY DEF Inv, TypeOK, Kinds
<1> QED
  BY <1>1, BinanceTells, BittrexTells, HuobiTells, KrakenTells, PoloniexTells

-----------------------------------------------------------------------------
(***************************************************************************)
(* The process' steps.                                                     *)
(***************************************************************************)
LEMMA AskKeeps ==
  ASSUME Inv, NEW q \in Questions, Ask(q)
  PROVE  Inv'
<1>1. /\ TypeOK /\ CopiesInv /\ ListInv /\ TagInv /\ GoneInv
      /\ UNCHANGED <<kind, market, copies, early, list, ours, told, gone>>
      /\ market \in [Orders -> States]
  BY DEF Inv, Ask, exchange, process, TypeOK, States
<1>2. call' = [req |-> q, order |-> NoOrder, tries |-> 1] /\ call' \in Calls /\ call' # NoCall
  BY DEF Ask, Calls
<1>3. Asking' /\ call'.req = q /\ q \notin {"place", "cancel"} /\ wire'.st = "sent"
  BY <1>2 DEF Asking, Questions, Ask, Sent
<1>4. TypeOK'
  <2>1. 1 \in 1 .. Tries(kind, q)
    BY DEF Tries
  <2> QED
    BY <1>1, <1>2, <1>3, <2>1 DEF TypeOK, Tries
<1>5. CallInv' /\ CopiesInv'
  BY <1>1, <1>2, <1>3 DEF CallInv, CopiesInv
<1>6. SeenInv'
  <2>1. Truth(market, q) \in Answers(q)
    BY <1>1, TruthIsAnswer
  <2>2. Truth(market, call.req)' = Truth(market, q)
    BY <1>1, <1>3 DEF Truth, In, FreeIn, Shown
  <2> QED
    BY <1>3, <2>1, <2>2 DEF SeenInv, Ask, Answers
<1>7. ListInv'
  <2>1. kind = "kraken" /\ q = "history" => Truth(market, q).orders = Closed
    BY DEF Truth, In, Shown, Closed
  <2>2. seen' = {Truth(market, q)} /\ Closed' = Closed
    BY <1>1 DEF Ask, Closed
  <2> QED
    BY <1>1, <1>3, <2>1, <2>2 DEF ListInv
<1>8. DocInv' /\ TagInv' /\ GoneInv'
  BY <1>1, <1>3 DEF DocInv, TagInv, GoneInv, Arrived
<1> QED
  BY <1>4, <1>5, <1>6, <1>7, <1>8 DEF Inv

LEMMA DealKeeps ==
  ASSUME Inv, NEW q \in {"place", "cancel"}, NEW o \in Orders, Deal(q, o)
  PROVE  Inv'
<1>1. /\ TypeOK /\ CopiesInv /\ ListInv /\ TagInv /\ GoneInv /\ SeenInv
      /\ UNCHANGED <<kind, market, copies, early, list, ours, told, gone, seen>>
  BY DEF Inv, Deal, exchange, process
<1>2. call' = [req |-> q, order |-> o, tries |-> 1] /\ call' \in Calls /\ call' # NoCall
  BY DEF Deal, Calls
<1>3. ~ Asking /\ ~ Asking' /\ call'.req = q /\ call'.order = o /\ wire'.st = "sent"
  BY <1>2 DEF Asking, Questions, Deal, Sent
<1>4. TypeOK'
  <2>1. 1 \in 1 .. Tries(kind, q)
    BY DEF Tries
  <2> QED
    BY <1>1, <1>2, <1>3, <2>1 DEF TypeOK, Tries
<1>5. CallInv' /\ CopiesInv'
  BY <1>1, <1>2, <1>3 DEF CallInv, CopiesInv, Deal
<1>6. SeenInv' /\ ListInv'
  BY <1>1, <1>3 DEF SeenInv, ListInv, Closed
<1>7. DocInv' /\ TagInv' /\ GoneInv'
  BY <1>1, <1>3 DEF DocInv, TagInv, GoneInv, Arrived
<1> QED
  BY <1>4, <1>5, <1>6, <1>7 DEF Inv

\* A placement is sent once, and so is not sent again.
LEMMA SendAgainKeeps ==
  ASSUME Inv, SendAgain
  PROVE  Inv'
<1>1. /\ TypeOK /\ CallInv /\ CopiesInv /\ ListInv /\ TagInv /\ GoneInv /\ SeenInv
      /\ UNCHANGED <<kind, market, copies, early, list, ours, told, gone, seen>>
  BY DEF Inv, SendAgain, exchange, process
<1>2. call # NoCall /\ call \in Calls /\ call.tries \in 1 .. Tries(kind, call.req)
  BY <1>1 DEF SendAgain, TypeOK, CallInv
<1>3. call.tries + 1 \in 1 .. Tries(kind, call.req) /\ call.req # "place"
  BY <1>2 DEF SendAgain, Tries
<1>4. /\ call' \in Calls /\ call' # NoCall /\ call'.req = call.req /\ call'.order = call.order
      /\ call'.tries = call.tries + 1 /\ wire'.st = "sent" /\ (Asking <=> Asking')
  BY <1>2, <1>3 DEF SendAgain, Calls, Sent, Asking
<1>5. TypeOK'
  BY <1>1, <1>3, <1>4 DEF TypeOK, Tries
<1>6. CallInv' /\ CopiesInv'
  BY <1>1, <1>2, <1>3, <1>4 DEF CallInv, CopiesInv
<1>7. SeenInv'
  <2>1. Truth(market, call.req)' = Truth(market, call.req)
    BY <1>1, <1>4 DEF Truth, In, FreeIn, Shown
  <2> QED
    BY <1>1, <1>4, <2>1 DEF SeenInv, Answers
<1>8. ListInv' /\ DocInv' /\ TagInv' /\ GoneInv'
  BY <1>1, <1>4 DEF ListInv, DocInv, TagInv, GoneInv, Closed, Arrived
<1> QED
  BY <1>5, <1>6, <1>7, <1>8 DEF Inv

\* A call that is over leaves nothing behind but what it told.
LEMMA ReturnKeeps ==
  ASSUME Inv, Returned, ListInv', TagInv', GoneInv',
         list' \subseteq Ids, ours' \in [Orders -> SUBSET Ids], gone' \subseteq Orders,
         told'.status \in {"none", "success", "failure", "raised"},
         told'.ids \subseteq Ids, told'.coins \in 0 .. Coins
  PROVE  Inv'
<1>1. /\ TypeOK /\ CopiesInv
      /\ UNCHANGED <<kind, market, copies, early>> /\ call' = NoCall /\ seen' = {}
      /\ wire'.st = "none"
  BY DEF Inv, Returned, exchange, NoRequest
<1>2. TypeOK'
  BY <1>1 DEF TypeOK
<1>3. CallInv' /\ CopiesInv' /\ SeenInv' /\ DocInv'
  BY <1>1 DEF CallInv, CopiesInv, SeenInv, DocInv, Asking, Arrived
<1> QED
  BY <1>2, <1>3 DEF Inv

\* What is told, as far as the types go.
LEMMA ToldIsSound ==
  ASSUME Inv, Asking, NEW r, Rightly(r) \/ r = Failure
  PROVE  /\ r.status \in {"success", "failure", "raised"} /\ r.coins \in 0 .. Coins
         /\ r.ids \subseteq Ids /\ \A i \in r.ids : i[1] = "text" /\ i[2] \in Orders
         /\ kind = "binance" => r.ids = {}
<1>1. CASE r \in {Failure, Raised, Balance(0)}
  BY <1>1 DEF Failure, Raised, Balance, Told
<1>2. ASSUME NEW v \in seen, RightAnswer(r, v)
      PROVE  /\ r.status \in {"success", "failure", "raised"} /\ r.coins \in 0 .. Coins
             /\ r.ids \subseteq Ids /\ \A i \in r.ids : i[1] = "text" /\ i[2] \in Orders
             /\ kind = "binance" => r.ids = {}
  <2>1. v.orders \subseteq Orders /\ v.coins \in 0 .. Coins
    BY DEF Inv, SeenInv, Answers
  <2>2. PICK S \in SUBSET v.orders, n \in v.coins .. Coins :
          r = Told("success", {<<"text", o>> : o \in S}, n) /\ (kind = "binance" => S = {})
    BY <1>2 DEF RightAnswer
  <2>3. r.status = "success" /\ r.ids = {<<"text", o>> : o \in S} /\ r.coins = n
    BY <2>2 DEF Told
  <2> QED
    BY <2>1, <2>2, <2>3 DEF Ids
<1> QED
  BY <1>1, <1>2 DEF Rightly, NoCoinsTold

LEMMA TellsRightly ==
  ASSUME Inv, Tell
  PROVE  Asking /\ (told' = Failure \/ (Arrived /\ told' = Outcome(wire.doc) /\ Rightly(told')))
<1>1. Asking
  BY DEF Inv, TypeOK, Tell, Over, Asking
<1>2. Status(wire) = "success" <=> Arrived
  BY DEF Status, Arrived
<1> QED
  BY <1>1, <1>2, OutcomeIsRight DEF Tell

LEMMA TellKeeps ==
  ASSUME Inv, Tell
  PROVE  Inv'
<1>1. /\ TypeOK /\ ListInv /\ TagInv /\ GoneInv /\ Asking
      /\ UNCHANGED <<kind, market, ours, gone>> /\ call' = NoCall /\ wire'.st = "none"
  BY TellsRightly DEF Inv, Tell, Returned, exchange, NoRequest
<1>2. PICK r : r = told' /\ (Rightly(r) \/ r = Failure)
  BY TellsRightly
<1>3. /\ r.status \in {"success", "failure", "raised"} /\ r.coins \in 0 .. Coins
      /\ r.ids \subseteq Ids /\ \A i \in r.ids : i[1] = "text" /\ i[2] \in Orders
      /\ kind = "binance" => r.ids = {}
  BY <1>1, <1>2, ToldIsSound
<1>4. TagInv'
  BY <1>1, <1>2, <1>3 DEF TagInv
<1>5. list' \subseteq Ids /\ ListInv'
  <2>1. CASE list' = list
    BY <1>1, <2>1 DEF TypeOK, ListInv, Closed, Asking
  <2>2. CASE /\ kind = "kraken" /\ call.req = "history" /\ Arrived
             /\ list' = KrakenListed(wire.doc, list)
    <3>1. Rightly(Success(list'))
      BY <1>1, <2>2, OutcomeIsRight DEF Outcome, OrderHistory
    <3>2. PICK v \in seen : \E S \in SUBSET v.orders : list' = {<<"text", o>> : o \in S}
      <4>1. Success(list').status = "success" /\ Success(list').ids = list'
        BY DEF Success, Told
      <4>2. ~ NoCoinsTold(Success(list')) /\ Success(list') \notin {Failure, Raised}
        BY <2>2, <4>1 DEF NoCoinsTold, Failure, Raised, Told
      <4>3. PICK v \in seen : RightAnswer(Success(list'), v)
        BY <3>1, <4>2 DEF Rightly
      <4>4. PICK S \in SUBSET v.orders, n \in v.coins .. Coins :
              Success(list') = Told("success", {<<"text", o>> : o \in S}, n)
        BY <4>3 DEF RightAnswer
      <4> QED
        BY <4>1, <4>4 DEF Told
    <3>3. PICK S \in SUBSET v.orders : list' = {<<"text", o>> : o \in S}
      BY <3>2
    <3>4. S \subseteq Closed
      BY <1>1, <2>2 DEF ListInv
    <3> QED
      BY <1>1, <2>2, <3>3, <3>4 DEF ListInv, Closed, Ids, Asking
  <2> QED
    BY <2>1, <2>2 DEF Tell, Status, Arrived
<1>6. GoneInv'
  BY <1>1 DEF GoneInv, Arrived
<1> QED
  BY <1>1, <1>2, <1>3, <1>4, <1>5, <1>6, ReturnKeeps DEF Tell, TypeOK

\* The id of a placed order.
LEMMA ParsedIds ==
  ASSUME Inv, Arrived, call # NoCall, call.req = "place"
  PROVE  /\ ParseOrderId(wire.doc) \subseteq Ids
         /\ kind \notin {"binance", "kraken"} => \A i \in ParseOrderId(wire.doc) : i[1] = "text"
<1>1. kind \in {"binance", "bittrex", "huobi", "kraken", "poloniex"} /\ call.order \in Orders
  BY DEF Inv, TypeOK, CallInv, Asking, Kinds, Questions
<1>2. wire.doc = ErrorDoc(kind) \/ wire.doc = DataDoc(kind, "place", call.order)
  BY DEF Inv, DocInv, Asking, Questions
<1>3. CASE wire.doc = DataDoc(kind, "place", call.order)
  <2>1. wire.doc.holds = call.order
    BY <1>3 DEF DataDoc
  <2> DEFINE tag == CASE kind = "binance" -> "number" [] kind = "kraken" -> "list" [] OTHER -> "text"
  <2>2. ParseOrderId(wire.doc) \subseteq {<<tag, call.order>>, <<tag, NoOrder>>}
    BY <1>1, <2>1 DEF ParseOrderId, IdBinance, IdBittrex, IdHuobi, IdKraken, IdPoloniex
  <2>3. tag \in {"number", "text", "list"} /\ (kind \notin {"binance", "kraken"} => tag = "text")
    OBVIOUS
  <2> HIDE DEF tag
  <2> QED
    BY <1>1, <2>2, <2>3 DEF Ids
<1>4. CASE wire.doc = ErrorDoc(kind)
  <2>1. /\ kind = "binance" => wire.doc.fields = {"code", "msg"}
        /\ kind = "bittrex" => wire.doc.success = FALSE /\ "success" \in wire.doc.fields
        /\ kind \in {"kraken", "poloniex"} => wire.doc.fields = {"error"}
        /\ wire.doc.holds = Null
    BY <1>4 DEF ErrorDoc
  <2>2. kind # "huobi" => ParseOrderId(wire.doc) = {}
    BY <1>1, <2>1 DEF ParseOrderId, IdBinance, IdBittrex, IdKraken, IdPoloniex,
                      BinanceError, BittrexError, KrakenError, PoloniexError
  <2>3. kind = "huobi" => ParseOrderId(wire.doc) \subseteq {<<"text", NoOrder>>}
    BY <2>1 DEF ParseOrderId, IdHuobi
  <2>4. ParseOrderId(wire.doc) \subseteq {<<"text", NoOrder>>}
    BY <2>2, <2>3
  <2> QED
    BY <2>4 DEF Ids
<1> QED
  BY <1>2, <1>3, <1>4

LEMMA ConfirmKeeps ==
  ASSUME Inv, Confirm
  PROVE  Inv'
<1>1. /\ TypeOK /\ CallInv /\ ListInv /\ TagInv /\ GoneInv
      /\ UNCHANGED <<kind, market, list, told>> /\ call' = NoCall /\ wire'.st = "none"
  BY DEF Inv, Confirm, Returned, exchange, NoRequest
<1>2. call # NoCall /\ ~ Asking /\ call.order \in Orders
  BY <1>1 DEF TypeOK, CallInv, Confirm, Over, Asking
<1>3. CASE UNCHANGED <<ours, gone>>
  BY <1>1, <1>3, ReturnKeeps DEF Confirm, TypeOK, ListInv, TagInv, GoneInv, Closed, Asking, Arrived
<1>4. CASE /\ Arrived /\ call.req = "place" /\ UNCHANGED gone
           /\ ours' = [ours EXCEPT ![call.order] = ParseOrderId(wire.doc)]
  <2>1. /\ ParseOrderId(wire.doc) \subseteq Ids
        /\ kind \notin {"binance", "kraken"} => \A i \in ParseOrderId(wire.doc) : i[1] = "text"
    BY <1>2, <1>4, ParsedIds
  <2>2. ours' \in [Orders -> SUBSET Ids]
    BY <1>1, <1>4, <2>1 DEF TypeOK
  <2>3. TagInv'
    BY <1>1, <1>2, <1>4, <2>1 DEF TagInv, TypeOK
  <2>4. ListInv' /\ GoneInv'
    BY <1>1, <1>4 DEF ListInv, GoneInv, Closed, Asking, Arrived
  <2> QED
    BY <1>1, <1>4, <2>2, <2>3, <2>4, ReturnKeeps DEF Confirm, TypeOK
<1>5. CASE Arrived /\ call.req = "cancel" /\ UNCHANGED ours /\ gone' = gone \cup {call.order}
  <2>1. GoneInv'
    BY <1>1, <1>2, <1>5 DEF GoneInv, Arrived
  <2>2. ListInv' /\ TagInv'
    BY <1>1, <1>5 DEF ListInv, TagInv, Closed, Asking
  <2> QED
    BY <1>1, <1>2, <1>5, <2>1, <2>2, ReturnKeeps DEF Confirm, TypeOK
<1> QED
  BY <1>3, <1>4, <1>5 DEF Confirm, Status, Arrived

LEMMA InitInv == Init => Inv
<1> SUFFICES ASSUME Init
             PROVE  Inv
  OBVIOUS
<1>1. ~ Asking /\ ~ Arrived /\ wire.st = "none" /\ call = NoCall
  BY DEF Init, Asking, Arrived, NoRequest
<1>2. market \in [Orders -> States] /\ early \subseteq Orders
  BY DEF Init, States, With, In
<1>3. TypeOK
  BY <1>1, <1>2 DEF Init, TypeOK, States, Told
<1>4. CallInv /\ CopiesInv /\ SeenInv
  BY <1>1 DEF Init, CallInv, CopiesInv, SeenInv
<1>5. ListInv /\ DocInv /\ GoneInv
  BY <1>1 DEF Init, ListInv, DocInv, GoneInv
<1>6. TagInv
  BY DEF Init, TagInv, Told
<1> QED
  BY <1>3, <1>4, <1>5, <1>6 DEF Inv

LEMMA StepInv ==
  ASSUME Inv, [Next]_vars
  PROVE  Inv'
<1>1. CASE UNCHANGED vars
  <2>1. UNCHANGED <<kind, market, early, copies, list, call, wire, ours, told, seen, gone>>
    BY <1>1 DEF vars, exchange, process
  <2>2. TypeOK' /\ CallInv' /\ CopiesInv'
    BY <2>1 DEF Inv, TypeOK, CallInv, CopiesInv, Asking, Tries
  <2>3. SeenInv'
    <3>1. Truth(market, call.req)' = Truth(market, call.req)
      BY <2>1 DEF Truth, In, FreeIn, Shown
    <3> QED
      BY <2>1, <3>1 DEF Inv, SeenInv, Answers, Asking
  <2>4. ListInv' /\ TagInv' /\ GoneInv'
    BY <2>1 DEF Inv, ListInv, TagInv, GoneInv, Asking, Arrived, Closed
  <2>5. DocInv'
    <3>1. \A d, v : HeldRightly(d, v) => HeldRightly(d, v)'
      BY <2>1 DEF HeldRightly
    <3> QED
      BY <2>1, <3>1 DEF Inv, DocInv, Asking, Arrived
  <2> QED
    BY <2>2, <2>3, <2>4, <2>5 DEF Inv
<1> QED
  BY <1>1, CloseKeeps, AnswerKeeps, ExecuteKeeps, RejectKeeps, AskKeeps, DealKeeps,
     SendAgainKeeps, TellKeeps, ConfirmKeeps DEF Next

LEMMA AlwaysInv == Spec => []Inv
BY InitInv, StepInv, PTL DEF Spec

\* The values that the variables take, however often calls are lost and sent again.
THEOREM AdapterTypes == Spec => []TypeOK
BY AlwaysInv, PTL DEF Inv

\* A placed order and the orders read later give it one id, but at Kraken (parse_order_id_*
\* and Trade.from_*): an order that is looked for by its id can be found.
THEOREM SameIds == Spec => []IdsAgree
<1>1. Inv => IdsAgree
  <2> SUFFICES ASSUME Inv, kind # "kraken", NEW i \in told.ids, NEW j \in ours[i[2]],
                      i[2] = j[2]
               PROVE  i = j
    BY DEF IdsAgree
  <2>1. i[1] = "text" /\ i[2] \in Orders /\ kind # "binance"
    BY DEF Inv, TagInv
  <2>2. j[1] = "text"
    BY <2>1 DEF Inv, TagInv
  <2>3. i \in Ids /\ j \in Ids
    BY <2>1 DEF Inv, TypeOK
  <2> QED
    BY <2>1, <2>2, <2>3 DEF Ids
<1> QED
  BY <1>1, AlwaysInv, PTL

\* No call places an order twice, whatever answers are lost (the max_tries of the
\* requests that place orders).
THEOREM OneCopy == Spec => []PlacedOnce
<1>1. Inv => PlacedOnce
  <2> SUFFICES ASSUME CopiesInv, NEW o \in Orders
               PROVE  copies[o] <= 1
    BY DEF Inv, PlacedOnce
  <2>1. copies[o] = 0 \/ copies[o] = 1
    BY DEF CopiesInv
  <2> QED
    BY <2>1
<1> QED
  BY <1>1, AlwaysInv, PTL

\* Where errors have an HTTP status of their own, a cancellation that was confirmed has
\* taken the order off the books before it was filled (cancel_by_exchange).
THEOREM ConfirmedCancellation == Spec => []ConfirmedIsCancelled
BY AlwaysInv, PTL DEF Inv, GoneInv, ConfirmedIsCancelled

-----------------------------------------------------------------------------
(***************************************************************************)
(* The adapter implements OrderInquiry, as long as Poloniex reports its    *)
(* errors by HTTP status: one in an answer with HTTP 200 passes for an     *)
(* empty balance.                                                          *)
(***************************************************************************)
Asked == IF call # NoCall /\ call.req \in Questions THEN call.req ELSE NoCall
Right == [q \in Questions |-> Truth(market, q)]
Heard == [status |-> told.status,
          answer |-> [orders |-> {id[2] : id \in told.ids}, coins |-> told.coins]]

LEMMA RightAnswers ==
  ASSUME Inv
  PROVE  Right \in [Questions -> [orders : SUBSET Orders, coins : 0 .. Coins]]
<1>1. market \in [Orders -> States]
  BY DEF Inv, TypeOK, States
<1>2. \A q \in Questions : Truth(market, q) \in [orders : SUBSET Orders, coins : 0 .. Coins]
  BY <1>1, TruthIsAnswer DEF Answers
<1> QED
  BY <1>2 DEF Right

LEMMA InquiryInit == Init => Inquiry!Init
<1> SUFFICES ASSUME Init
             PROVE  Inquiry!Init
  OBVIOUS
<1>1. Right \in [Questions -> [orders : SUBSET Orders, coins : 0 .. Coins]]
  BY InitInv, RightAnswers
<1>2. Promised(kind) \subseteq Questions
  BY DEF Init, Promised, Questions, Kinds
<1>3. Heard = [status |-> "none", answer |-> [orders |-> {}, coins |-> 0]]
  <2>1. {id[2] : id \in {}} = {}
    OBVIOUS
  <2> QED
    BY <2>1 DEF Init, Heard, Told
<1>4. Asked = NoCall /\ seen = {}
  BY DEF Init, Asked
<1> QED
  BY <1>1, <1>2, <1>3, <1>4 DEF Inquiry!Init, Inquiry!Answers, Right, Heard, Asked

\* The three kinds of steps.
LEMMA IsChange ==
  ASSUME Inv, Inv', UNCHANGED <<kind, told>>, Asked' = Asked,
         seen' = IF Asked = NoCall THEN {} ELSE seen \cup {Right'[Asked]}
  PROVE  Inquiry!Next
<1>1. Right' \in [Questions -> [orders : SUBSET Orders, coins : 0 .. Coins]]
  <2>1. market' \in [Orders -> States]
    BY DEF Inv, TypeOK, States
  <2>2. \A q \in Questions : Truth(market', q) \in [orders : SUBSET Orders, coins : 0 .. Coins]
    BY <2>1, TruthIsAnswer DEF Answers
  <2>3. Right' = [q \in Questions |-> Truth(market', q)]
    BY DEF Right, Truth, In, FreeIn, Shown
  <2> QED
    BY <2>2, <2>3
<1> QED
  BY <1>1 DEF Inquiry!Next, Inquiry!Change, Inquiry!Answers, Right, Asked

LEMMA IsAsk ==
  ASSUME NEW q \in Questions, Ask(q)
  PROVE  Inquiry!Next
<1>1. /\ Asked = NoCall /\ Asked' = q
      /\ UNCHANGED <<kind, market, told>> /\ seen' = {Truth(market, q)}
  <2>1. call' = [req |-> q, order |-> NoOrder, tries |-> 1] /\ call' \in Calls
    BY DEF Ask, Calls
  <2> QED
    BY <2>1 DEF Ask, Asked, exchange, process
<1>2. Right' = Right /\ Right[q] = Truth(market, q)
  BY <1>1 DEF Right, Truth, In, FreeIn, Shown
<1>3. Inquiry!Ask
  BY <1>1, <1>2 DEF Inquiry!Ask, Right, Asked
<1> QED
  BY <1>3 DEF Inquiry!Next

LEMMA IsTell ==
  ASSUME Inv, Tell, "poloniex" \notin SoftErrors
  PROVE  Inquiry!Next
<1>1. /\ Asked # NoCall /\ Asked = call.req /\ Asked' = NoCall /\ seen' = {}
      /\ UNCHANGED <<kind, market>>
  BY TellsRightly DEF Asked, Asking, Tell, Returned, exchange
<1>2. Right' = Right
  BY <1>1 DEF Right, Truth, In, FreeIn, Shown
<1>3. PICK r : r = told' /\ (r \in {Failure, Raised} \/ \E v \in seen : RightAnswer(r, v))
  BY TellsRightly DEF Rightly, NoCoinsTold
<1>4. \/ told'.status \in {"failure", "raised"}
      \/ /\ told'.status = "success"
         /\ \E v \in seen :
              \/ Heard'.answer = v
              \/ Asked \notin Promised(kind) /\ Inquiry!Falls(Heard'.answer, v)
  <2>1. CASE r \in {Failure, Raised}
    BY <1>3, <2>1 DEF Failure, Raised, Told
  <2>2. ASSUME NEW v \in seen, RightAnswer(r, v)
        PROVE  <1>4!2
    <3>1. v \in [orders : SUBSET Orders, coins : 0 .. Coins]
      BY TellsRightly DEF Inv, SeenInv, Answers
    <3>2. PICK S \in SUBSET v.orders, n \in v.coins .. Coins :
            /\ r = Told("success", {<<"text", o>> : o \in S}, n)
            /\ call.req \in Promised(kind) => S = v.orders /\ n = v.coins
      BY <2>2 DEF RightAnswer
    <3>3. r.status = "success" /\ r.ids = {<<"text", o>> : o \in S} /\ r.coins = n
      BY <3>2 DEF Told
    <3>4. {id[2] : id \in r.ids} = S
      <4>1. \A o \in S : <<"text", o>> \in r.ids /\ <<"text", o>>[2] = o
        BY <3>3
      <4>2. \A id \in r.ids : id[2] \in S
        BY <3>3
      <4> QED
        BY <4>1, <4>2
    <3>5. Heard'.answer = [orders |-> S, coins |-> n]
      BY <1>3, <3>3, <3>4 DEF Heard
    <3>6. n >= v.coins
      BY <3>1
    <3>7. S = v.orders /\ n = v.coins => Heard'.answer = v
      BY <3>1, <3>5
    <3>8. Inquiry!Falls(Heard'.answer, v)
      BY <3>5, <3>6 DEF Inquiry!Falls
    <3> QED
      BY <1>1, <1>3, <3>2, <3>3, <3>7, <3>8
  <2> QED
    BY <1>3, <2>1, <2>2
<1>5. Inquiry!Tell
  BY <1>1, <1>2, <1>4 DEF Inquiry!Tell, Right, Asked, Heard
<1> QED
  BY <1>5 DEF Inquiry!Next

LEMMA InquiryStep ==
  ASSUME Inv, Inv', [Next]_vars, "poloniex" \notin SoftErrors
  PROVE  Inquiry!Next \/ UNCHANGED <<Right, kind, Asked, seen, told>>
<1>1. SeenInv /\ (Asking <=> Asked # NoCall) /\ (Asking => Asked = call.req)
  BY DEF Inv, Asked, Asking
<1>2. ASSUME NEW o \in Orders, Close(o) \/ Appear(o)
      PROVE  Inquiry!Next
  <2>1. UNCHANGED <<kind, call, told>> /\ Seen
    BY <1>2 DEF Close, Appear, process
  <2>2. Asked' = Asked
    BY <2>1 DEF Asked
  <2>3. Asking => Right'[Asked] = Truth(market', call.req)
    BY <1>1, <2>1 DEF Right, Truth, In, FreeIn, Shown, Asking
  <2>4. seen' = IF Asked = NoCall THEN {} ELSE seen \cup {Right'[Asked]}
    BY <1>1, <2>1, <2>3 DEF Seen, Asking
  <2> QED
    BY <2>1, <2>2, <2>4, IsChange
<1>3. CASE Execute
  <2>1. UNCHANGED <<kind, call, told, seen>> /\ ~ Asking
    BY <1>3 DEF Execute, process, Asking, Questions
  <2>2. Asked = NoCall /\ Asked' = NoCall /\ seen' = {}
    BY <1>1, <2>1 DEF Asked, SeenInv
  <2> QED
    BY <2>1, <2>2, IsChange
<1>4. CASE Answer \/ Reject \/ UNCHANGED vars
  BY <1>4 DEF Answer, Reject, vars, exchange, process, Right, Truth, In, FreeIn, Shown, Asked
<1>5. CASE SendAgain
  <2>1. UNCHANGED <<kind, market, seen, told>> /\ call' \in Calls
        /\ call # NoCall /\ call' # NoCall /\ call'.req = call.req
    BY <1>5 DEF SendAgain, exchange, process, Inv, TypeOK, CallInv, Calls
  <2> QED
    BY <2>1 DEF Right, Truth, In, FreeIn, Shown, Asked
<1>6. ASSUME NEW q \in {"place", "cancel"}, NEW o \in Orders, Deal(q, o)
      PROVE  UNCHANGED <<Right, kind, Asked, seen, told>>
  <2>1. UNCHANGED <<kind, market, seen, told>> /\ call = NoCall /\ call'.req \notin Questions
    BY <1>6 DEF Deal, exchange, process, Questions
  <2> QED
    BY <2>1 DEF Right, Truth, In, FreeIn, Shown, Asked
<1>7. CASE Confirm
  <2>1. UNCHANGED <<kind, market, told>> /\ call' = NoCall /\ ~ Asking /\ seen' = {}
    BY <1>7 DEF Confirm, Returned, exchange, Asking
  <2>2. seen = {}
    BY <1>1, <2>1 DEF SeenInv
  <2> QED
    BY <1>1, <2>1, <2>2 DEF Right, Truth, In, FreeIn, Shown, Asked
<1> QED
  BY <1>2, <1>3, <1>4, <1>5, <1>6, <1>7, IsAsk, IsTell DEF Next

\* Whatever errors, losses and tries lie between question and answer, an answer that is
\* told is what was true at one moment of the call, or, where completeness is not
\* promised, names no order that was not there then and not less coins
\* (dao/order_utils.py, order_history_utils.py, balance_utils.py).
THEOREM AnswersAreTrue == "poloniex" \notin SoftErrors /\ Spec => Promise
<1> SUFFICES ASSUME "poloniex" \notin SoftErrors
             PROVE  Spec => Inquiry!Spec
  BY DEF Promise
<1>1. Inv /\ Inv' /\ [Next]_vars =>
        [Inquiry!Next]_<<Right, Promised(kind), Asked, seen, Heard>>
  BY InquiryStep DEF Heard
<1>2. Inv /\ Inv' /\ [Next]_vars =>
        [Inquiry!Next]_<<[q \in Questions |-> Truth(market, q)], Promised(kind),
                         IF call # NoCall /\ call.req \in Questions THEN call.req ELSE NoCall,
                         seen,
                         [status |-> told.status,
                          answer |-> [orders |-> {id[2] : id \in told.ids},
                                      coins |-> told.coins]]>>
  BY <1>1 DEF Right, Asked, Heard
<1> QED
  BY <1>2, AlwaysInv, InquiryInit, PTL DEF Spec, Inquiry!Spec
=============================================================================
