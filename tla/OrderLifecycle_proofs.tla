------------------------ MODULE OrderLifecycle_proofs ------------------------
(***************************************************************************)
(* What holds of OrderLifecycle for any number of orders, ids, processes   *)
(* and restarts, and whatever the exchange does.                           *)
(***************************************************************************)
EXTENDS OrderLifecycle, SequenceTheorems, TLAPS

-----------------------------------------------------------------------------
(***************************************************************************)
(* What the queue operations of redis do to the orders in a queue: the     *)
(* facts about sequences that the theorems rest on.                        *)
(***************************************************************************)
\* zrem: one entry goes, and the others keep their order.
LEMMA RemoveAtEntries ==
  ASSUME NEW S, NEW s \in Seq(S), NEW i \in DOMAIN s
  PROVE  /\ RemoveAt(s, i) \in Seq(S)
         /\ Len(RemoveAt(s, i)) = Len(s) - 1
         /\ \A j \in 1 .. Len(s) - 1 :
              RemoveAt(s, i)[j] = IF j < i THEN s[j] ELSE s[j + 1]
<1> DEFINE a == SubSeq(s, 1, i - 1)
           b == SubSeq(s, i + 1, Len(s))
<1>1. Len(s) \in Nat /\ i \in 1 .. Len(s) /\ \A j \in 1 .. Len(s) : s[j] \in S
  BY LenProperties, ElementOfSeq
<1>2. /\ a \in Seq(S)
      /\ Len(a) = i - 1
      /\ \A j \in 1 .. i - 1 : a[j] = s[j]
  <2>1. \A j \in 1 .. i - 1 : s[j] \in S
    BY <1>1
  <2>2. 1 \in Int /\ i - 1 \in Int
    BY <1>1
  <2> QED
    BY <1>1, <2>1, <2>2, SubSeqProperties
<1>3. /\ b \in Seq(S)
      /\ Len(b) = Len(s) - i
      /\ \A j \in 1 .. Len(s) - i : b[j] = s[i + j]
  <2>1. \A j \in i + 1 .. Len(s) : s[j] \in S
    BY <1>1
  <2>2. i + 1 \in Int /\ Len(s) \in Int
    BY <1>1
  <2>3. /\ b \in Seq(S)
        /\ Len(b) = IF i + 1 <= Len(s) THEN Len(s) - (i + 1) + 1 ELSE 0
        /\ \A j \in 1 .. Len(s) - (i + 1) + 1 : b[j] = s[(i + 1) + j - 1]
    BY <2>1, <2>2, SubSeqProperties
  <2> QED
    BY <1>1, <2>3
<1> HIDE DEF a, b
<1>4. /\ a \o b \in Seq(S)
      /\ Len(a \o b) = Len(a) + Len(b)
      /\ \A j \in 1 .. Len(a) + Len(b) :
           (a \o b)[j] = IF j <= Len(a) THEN a[j] ELSE b[j - Len(a)]
  BY <1>2, <1>3, ConcatProperties
<1>5. \A j \in 1 .. Len(s) - 1 : (a \o b)[j] = IF j < i THEN s[j] ELSE s[j + 1]
  <2> SUFFICES ASSUME NEW j \in 1 .. Len(s) - 1
               PROVE  (a \o b)[j] = IF j < i THEN s[j] ELSE s[j + 1]
    OBVIOUS
  <2>1. CASE j < i
    <3>1. j \in 1 .. i - 1 /\ j <= Len(a) /\ j \in 1 .. Len(a) + Len(b)
      BY <1>1, <1>2, <1>3, <2>1
    <3> QED
      BY <1>2, <1>4, <2>1, <3>1
  <2>2. CASE ~ (j < i)
    <3>1. /\ ~ (j <= Len(a)) /\ j \in 1 .. Len(a) + Len(b)
          /\ j - Len(a) \in 1 .. Len(s) - i /\ i + (j - Len(a)) = j + 1
      <4>1. Len(a) = i - 1 /\ Len(b) = Len(s) - i /\ i \in Int /\ j \in Int /\ Len(s) \in Int
        BY <1>1, <1>2, <1>3
      <4> QED
        BY <4>1, <2>2
    <3> QED
      BY <1>3, <1>4, <2>2, <3>1
  <2> QED
    BY <2>1, <2>2
<1>6. Len(a \o b) = Len(s) - 1
  BY <1>1, <1>2, <1>3, <1>4
<1>7. RemoveAt(s, i) = a \o b
  BY DEF RemoveAt, a, b
<1> QED
  BY <1>4, <1>5, <1>6, <1>7

\* After zrem the order is gone from the queue, and no other comes in.
LEMMA RemoveAtOrders ==
  ASSUME NEW s \in Seq(Trade), NEW i \in DOMAIN s, Distinct(s)
  PROVE  /\ RemoveAt(s, i) \in Seq(Trade)
         /\ Distinct(RemoveAt(s, i))
         /\ ~ InSeq(RemoveAt(s, i), s[i].order)
         /\ \A o : InSeq(RemoveAt(s, i), o) => InSeq(s, o)
<1> DEFINE r == RemoveAt(s, i)
<1>1. Len(s) \in Nat /\ DOMAIN s = 1 .. Len(s)
  BY LenProperties
<1>2. /\ r \in Seq(Trade)
      /\ Len(r) = Len(s) - 1
      /\ \A j \in 1 .. Len(s) - 1 : r[j] = IF j < i THEN s[j] ELSE s[j + 1]
  BY RemoveAtEntries
<1>3. DOMAIN r = 1 .. Len(s) - 1
  BY <1>2, LenProperties
<1> HIDE DEF r
\* Every entry of r is an entry of s at another place, and never entry i.
<1> DEFINE At(j) == IF j < i THEN j ELSE j + 1
<1>4. \A j \in DOMAIN r : At(j) \in DOMAIN s /\ At(j) # i /\ r[j] = s[At(j)]
  BY <1>1, <1>2, <1>3
<1>5. \A j, k \in DOMAIN r : At(j) = At(k) => j = k
  BY <1>1, <1>3
<1> HIDE DEF At
<1>6. Distinct(r)
  BY <1>4, <1>5 DEF Distinct
<1>7. ~ InSeq(r, s[i].order)
  BY <1>4 DEF Distinct, InSeq
<1>8. \A o : InSeq(r, o) => InSeq(s, o)
  BY <1>4 DEF InSeq
<1> QED
  BY <1>2, <1>6, <1>7, <1>8 DEF r

\* zadd of an order that is not in the queue puts it there, behind the others.
LEMMA AppendOrders ==
  ASSUME NEW s \in Seq(Trade), NEW t \in Trade
  PROVE  /\ Append(s, t) \in Seq(Trade)
         /\ \A o : InSeq(Append(s, t), o) <=> InSeq(s, o) \/ t.order = o
         /\ Distinct(s) /\ ~ InSeq(s, t.order) => Distinct(Append(s, t))
<1> DEFINE r == Append(s, t)
<1>1. Len(s) \in Nat /\ DOMAIN s = 1 .. Len(s)
  BY LenProperties
<1>2. /\ r \in Seq(Trade)
      /\ Len(r) = Len(s) + 1
      /\ \A j \in 1 .. Len(s) : r[j] = s[j]
      /\ r[Len(s) + 1] = t
  BY AppendProperties
<1>3. DOMAIN r = 1 .. Len(s) + 1
  BY <1>2, LenProperties
<1> HIDE DEF r
<1>4. \A o : InSeq(r, o) <=> InSeq(s, o) \/ t.order = o
  BY <1>1, <1>2, <1>3 DEF InSeq
<1>5. Distinct(s) /\ ~ InSeq(s, t.order) => Distinct(r)
  BY <1>1, <1>2, <1>3 DEF Distinct, InSeq
<1> QED
  BY <1>2, <1>4, <1>5 DEF r

\* lpush likewise, in front of the others.
LEMMA PushOrders ==
  ASSUME NEW s \in Seq(Trade), NEW t \in Trade
  PROVE  /\ <<t>> \o s \in Seq(Trade)
         /\ \A o : InSeq(<<t>> \o s, o) <=> InSeq(s, o) \/ t.order = o
         /\ Distinct(s) /\ ~ InSeq(s, t.order) => Distinct(<<t>> \o s)
<1> DEFINE r == <<t>> \o s
<1>1. Len(s) \in Nat /\ DOMAIN s = 1 .. Len(s)
  BY LenProperties
<1>2. <<t>> \in Seq(Trade) /\ Len(<<t>>) = 1 /\ <<t>>[1] = t
  OBVIOUS
<1>3. /\ r \in Seq(Trade)
      /\ Len(r) = 1 + Len(s)
      /\ \A j \in 1 .. 1 + Len(s) : r[j] = IF j <= 1 THEN t ELSE s[j - 1]
  <2>1. /\ r \in Seq(Trade)
        /\ Len(r) = Len(<<t>>) + Len(s)
        /\ \A j \in 1 .. Len(<<t>>) + Len(s) :
             r[j] = IF j <= Len(<<t>>) THEN <<t>>[j] ELSE s[j - Len(<<t>>)]
    BY <1>2, ConcatProperties
  <2> HIDE DEF r
  <2> QED
    BY <1>1, <1>2, <2>1
<1>4. DOMAIN r = 1 .. 1 + Len(s)
  BY <1>3, LenProperties
<1> HIDE DEF r
<1>5. r[1] = t /\ \A j \in 1 .. Len(s) : j + 1 \in DOMAIN r /\ r[j + 1] = s[j]
  BY <1>1, <1>3, <1>4
<1>6. \A j \in DOMAIN r : j = 1 \/ (j - 1 \in DOMAIN s /\ r[j] = s[j - 1])
  BY <1>1, <1>3, <1>4
<1>7. \A o : InSeq(r, o) <=> InSeq(s, o) \/ t.order = o
  BY <1>1, <1>4, <1>5, <1>6 DEF InSeq
<1>8. Distinct(s) /\ ~ InSeq(s, t.order) => Distinct(r)
  BY <1>1, <1>4, <1>5, <1>6 DEF Distinct, InSeq
<1> QED
  BY <1>3, <1>7, <1>8 DEF r

\* lpop: the order popped is gone from the queue, and no other comes in.
LEMMA TailOrders ==
  ASSUME NEW s \in Seq(Trade), s # <<>>
  PROVE  /\ Head(s) \in Trade /\ Tail(s) \in Seq(Trade)
         /\ InSeq(s, Head(s).order)
         /\ \A o : InSeq(Tail(s), o) => InSeq(s, o)
         /\ Distinct(s) => Distinct(Tail(s)) /\ ~ InSeq(Tail(s), Head(s).order)
<1> DEFINE r == Tail(s)
<1>1. Len(s) \in Nat \ {0} /\ DOMAIN s = 1 .. Len(s)
  BY LenProperties, EmptySeq
<1>2. /\ Head(s) \in Trade /\ r \in Seq(Trade)
      /\ Len(r) = Len(s) - 1
      /\ \A j \in 1 .. Len(r) : r[j] = s[j + 1]
  BY HeadTailProperties
<1>3. Head(s) = s[1] /\ DOMAIN r = 1 .. Len(s) - 1
  BY <1>1, <1>2, LenProperties
<1> HIDE DEF r
<1> QED
  BY <1>1, <1>2, <1>3 DEF Distinct, InSeq, r

-----------------------------------------------------------------------------
\* The Trades in a queue.
Entries(s) == {s[i] : i \in DOMAIN s}

\* What the queue operations do to them.
LEMMA RemoveAtKeeps ==
  ASSUME NEW s \in Seq(Trade), NEW i \in DOMAIN s
  PROVE  Entries(RemoveAt(s, i)) \subseteq Entries(s)
<1> DEFINE r == RemoveAt(s, i)
<1>1. Len(s) \in Nat /\ DOMAIN s = 1 .. Len(s)
  BY LenProperties
<1>2. /\ r \in Seq(Trade) /\ Len(r) = Len(s) - 1
      /\ \A j \in 1 .. Len(s) - 1 : r[j] = IF j < i THEN s[j] ELSE s[j + 1]
  BY RemoveAtEntries
<1>3. DOMAIN r = 1 .. Len(s) - 1
  BY <1>2, LenProperties
<1> HIDE DEF r
<1> DEFINE At(j) == IF j < i THEN j ELSE j + 1
<1>4. \A j \in DOMAIN r : At(j) \in DOMAIN s /\ r[j] = s[At(j)]
  BY <1>1, <1>2, <1>3
<1> HIDE DEF At
<1> QED
  BY <1>4 DEF Entries, r

LEMMA AppendKeeps ==
  ASSUME NEW s \in Seq(Trade), NEW t \in Trade
  PROVE  Entries(Append(s, t)) = Entries(s) \cup {t}
<1> DEFINE r == Append(s, t)
<1>1. Len(s) \in Nat /\ DOMAIN s = 1 .. Len(s)
  BY LenProperties
<1>2. /\ r \in Seq(Trade) /\ Len(r) = Len(s) + 1
      /\ \A j \in 1 .. Len(s) : r[j] = s[j]
      /\ r[Len(s) + 1] = t
  BY AppendProperties
<1>3. DOMAIN r = 1 .. Len(s) + 1
  BY <1>2, LenProperties
<1> HIDE DEF r
<1> QED
  BY <1>1, <1>2, <1>3 DEF Entries, r

LEMMA PushKeeps ==
  ASSUME NEW s \in Seq(Trade), NEW t \in Trade
  PROVE  Entries(<<t>> \o s) = Entries(s) \cup {t}
<1> DEFINE r == <<t>> \o s
<1>1. Len(s) \in Nat /\ DOMAIN s = 1 .. Len(s)
  BY LenProperties
<1>2. <<t>> \in Seq(Trade) /\ Len(<<t>>) = 1 /\ <<t>>[1] = t
  OBVIOUS
<1>3. /\ r \in Seq(Trade)
      /\ Len(r) = 1 + Len(s)
      /\ \A j \in 1 .. 1 + Len(s) : r[j] = IF j <= 1 THEN t ELSE s[j - 1]
  <2>1. /\ r \in Seq(Trade)
        /\ Len(r) = Len(<<t>>) + Len(s)
        /\ \A j \in 1 .. Len(<<t>>) + Len(s) :
             r[j] = IF j <= Len(<<t>>) THEN <<t>>[j] ELSE s[j - Len(<<t>>)]
    BY <1>2, ConcatProperties
  <2> HIDE DEF r
  <2> QED
    BY <1>1, <1>2, <2>1
<1>4. DOMAIN r = 1 .. 1 + Len(s)
  BY <1>3, LenProperties
<1> HIDE DEF r
<1>5. r[1] = t /\ \A j \in DOMAIN s : j + 1 \in DOMAIN r /\ r[j + 1] = s[j]
  BY <1>1, <1>3, <1>4
<1>6. \A j \in DOMAIN r : j = 1 \/ (j - 1 \in DOMAIN s /\ r[j] = s[j - 1])
  BY <1>1, <1>3, <1>4
<1>7. 1 \in DOMAIN r
  BY <1>1, <1>4
<1>8. Entries(r) \subseteq Entries(s) \cup {t}
  BY <1>5, <1>6 DEF Entries
<1>9. Entries(s) \cup {t} \subseteq Entries(r)
  BY <1>5, <1>7 DEF Entries
<1> QED
  BY <1>8, <1>9 DEF r

LEMMA PopKeeps ==
  ASSUME NEW s \in Seq(Trade), s # <<>>
  PROVE  Head(s) \in Entries(s) /\ Entries(Tail(s)) \subseteq Entries(s)
<1> DEFINE r == Tail(s)
<1>1. Len(s) \in Nat \ {0} /\ DOMAIN s = 1 .. Len(s)
  BY LenProperties, EmptySeq
<1>2. /\ r \in Seq(Trade) /\ Len(r) = Len(s) - 1
      /\ \A j \in 1 .. Len(r) : r[j] = s[j + 1]
  BY HeadTailProperties
<1>3. Head(s) = s[1] /\ DOMAIN r = 1 .. Len(s) - 1
  BY <1>1, <1>2, LenProperties
<1> HIDE DEF r
<1> QED
  BY <1>1, <1>2, <1>3 DEF Entries, r

\* zadd, whether or not the Trade is there already.
LEMMA WatchKeeps ==
  ASSUME watch \in Seq(Trade), NEW t \in Trade, AddOrderToWatchQueue(t)
  PROVE  Entries(watch') \subseteq Entries(watch) \cup {t}
<1>1. CASE \E i \in DOMAIN watch : watch[i] = t
  <2> DEFINE i == CHOOSE k \in DOMAIN watch : watch[k] = t
  <2>1. i \in DOMAIN watch
    BY <1>1
  <2>2. watch' = Append(RemoveAt(watch, i), t)
    BY <1>1 DEF AddOrderToWatchQueue
  <2> HIDE DEF i
  <2>3. RemoveAt(watch, i) \in Seq(Trade)
    BY <2>1, RemoveAtEntries
  <2> QED
    BY <2>1, <2>2, <2>3, RemoveAtKeeps, AppendKeeps
<1>2. CASE ~ \E i \in DOMAIN watch : watch[i] = t
  BY <1>2, AppendKeeps DEF AddOrderToWatchQueue
<1> QED
  BY <1>1, <1>2

\* zrem and lpop take one order away and leave the others.
LEMMA RemoveAtLeaves ==
  ASSUME NEW s \in Seq(Trade), NEW i \in DOMAIN s, NEW o, InSeq(s, o), o # s[i].order
  PROVE  InSeq(RemoveAt(s, i), o)
<1> DEFINE r == RemoveAt(s, i)
<1>1. Len(s) \in Nat /\ DOMAIN s = 1 .. Len(s)
  BY LenProperties
<1>2. /\ r \in Seq(Trade) /\ Len(r) = Len(s) - 1
      /\ \A j \in 1 .. Len(s) - 1 : r[j] = IF j < i THEN s[j] ELSE s[j + 1]
  BY RemoveAtEntries
<1>3. DOMAIN r = 1 .. Len(s) - 1
  BY <1>2, LenProperties
<1> HIDE DEF r
<1>4. PICK k \in DOMAIN s : s[k].order = o /\ k # i
  BY DEF InSeq
<1>5. CASE k < i
  <2>1. k \in DOMAIN r /\ r[k] = s[k]
    BY <1>1, <1>2, <1>3, <1>4, <1>5
  <2> QED
    BY <1>4, <2>1 DEF InSeq, r
<1>6. CASE k > i
  <2>1. k - 1 \in DOMAIN r /\ ~ (k - 1 < i) /\ (k - 1) + 1 = k
    BY <1>1, <1>3, <1>4, <1>6
  <2>2. r[k - 1] = s[k]
    BY <1>2, <1>3, <2>1
  <2> QED
    BY <1>4, <2>1, <2>2 DEF InSeq, r
<1> QED
  BY <1>1, <1>4, <1>5, <1>6

LEMMA TailLeaves ==
  ASSUME NEW s \in Seq(Trade), s # <<>>, NEW o, InSeq(s, o), o # Head(s).order
  PROVE  InSeq(Tail(s), o)
<1> DEFINE r == Tail(s)
<1>1. Len(s) \in Nat \ {0} /\ DOMAIN s = 1 .. Len(s)
  BY LenProperties, EmptySeq
<1>2. r \in Seq(Trade) /\ Len(r) = Len(s) - 1 /\ \A j \in 1 .. Len(r) : r[j] = s[j + 1]
  BY HeadTailProperties
<1>3. Head(s) = s[1] /\ DOMAIN r = 1 .. Len(s) - 1
  BY <1>1, <1>2, LenProperties
<1> HIDE DEF r
<1>4. PICK k \in DOMAIN s : s[k].order = o /\ k # 1
  BY <1>3 DEF InSeq
<1>5. k - 1 \in DOMAIN r /\ (k - 1) + 1 = k
  BY <1>1, <1>3, <1>4
<1>6. r[k - 1] = s[k]
  BY <1>1, <1>2, <1>3, <1>5
<1> QED
  BY <1>4, <1>5, <1>6 DEF InSeq, r

-----------------------------------------------------------------------------
USE OrderAssumption

\* What is left of an order on the books, or on its way there, is positive.
FillsBounded ==
  \A id \in Ids : /\ exch[id].done <= exch[id].vol
                  /\ exch[id].st \in {"open", "flight"} => exch[id].done < exch[id].vol

TypeInv == TypeOK /\ FillsBounded

-----------------------------------------------------------------------------
(***************************************************************************)
(* Types.                                                                  *)
(***************************************************************************)
LEMMA AcceptType ==
  ASSUME ExchangeType, FillsBounded,
         NEW id \in FreeIds, NEW o \in Orders, NEW v \in 1 .. Volume,
         NEW st \in {"open", "flight"}, Accept(id, o, v, st)
  PROVE  ExchangeType' /\ FillsBounded'
BY DEF ExchangeType, FillsBounded, FreeIds, Accept

LEMMA CancelType ==
  ASSUME ExchangeType, FillsBounded, NEW id \in OpenOrders, CancelAt(id)
  PROVE  ExchangeType' /\ FillsBounded'
BY DEF ExchangeType, FillsBounded, OpenOrders, CancelAt

\* zadd, for any Trade.
LEMMA WatchType ==
  ASSUME watch \in Seq(Trade), NEW t \in Trade, AddOrderToWatchQueue(t)
  PROVE  watch' \in Seq(Trade)
<1>1. CASE \E i \in DOMAIN watch : watch[i] = t
  <2> DEFINE i == CHOOSE k \in DOMAIN watch : watch[k] = t
  <2>1. i \in DOMAIN watch
    BY <1>1
  <2> HIDE DEF i
  <2>2. RemoveAt(watch, i) \in Seq(Trade)
    BY <2>1, RemoveAtEntries
  <2> QED
    BY <1>1, <2>2, AppendProperties DEF AddOrderToWatchQueue, i
<1>2. CASE ~ \E i \in DOMAIN watch : watch[i] = t
  BY <1>2, AppendProperties DEF AddOrderToWatchQueue
<1> QED
  BY <1>1, <1>2

LEMMA RequeueType ==
  ASSUME TypeOK, NEW p \in Procs, hand[p] \in Trade, Requeue(p)
  PROVE  QueuesType'
<1>1. CASE p \in ExpiredWorkers
  <2>1. AddOrderToWatchQueue(hand[p]) /\ UNCHANGED <<failed, recorded>>
    BY <1>1 DEF Requeue
  <2>2. watch' \in Seq(Trade)
    BY <2>1, WatchType DEF TypeOK, QueuesType
  <2> QED
    BY <2>1, <2>2 DEF TypeOK, QueuesType
<1>2. CASE p \notin ExpiredWorkers
  <2>1. failed' = <<hand[p]>> \o failed /\ UNCHANGED <<watch, recorded>>
    BY <1>2 DEF Requeue, AddFailedOrder
  <2> QED
    BY <2>1, PushOrders DEF TypeOK, QueuesType
<1> QED
  BY <1>1, <1>2

LEMMA ServiceMoves ==
  ASSUME ServiceType, NEW p \in Procs,
         \/ Release(p) \/ Die(p)
         \/ Goto(p, "poll") /\ UNCHANGED hand
         \/ /\ hand[p] \in Trade /\ UNCHANGED hand
            /\ \E l \in {"query", "market", "history", "post", "watch"} : Goto(p, l)
         \/ \E t \in Trade, l \in {"claim", "cancel", "open", "watch", "save"} : Put(p, t, l)
  PROVE  ServiceType'
BY DEF ServiceType, Release, Die, Goto, Put, NoTrade

LEMMA VolumeLeftType ==
  ASSUME ExchangeType, FillsBounded, NEW t \in Trade
  PROVE  VolumeLeft(t) \in -1 .. Volume
BY DEF ExchangeType, FillsBounded, VolumeLeft, Less, Trade, OpenOrders

\* No step of a bot takes a variable out of its type.
LEMMA BotStepType ==
  ASSUME TypeInv, NEW o \in Orders, BotStep(o)
  PROVE  TypeInv'
<1> USE DEF TypeInv
<1>1. CASE BotPost(o)
  <2>1. ExchangeType' /\ FillsBounded'
    <3>1. CASE UNCHANGED exch
      BY <3>1 DEF TypeOK, ExchangeType, FillsBounded
    <3>2. CASE \E id \in FreeIds, st \in {"open", "flight"} : Accept(id, o, Volume, st)
      BY <3>2, AcceptType DEF TypeOK
    <3> QED
      BY <1>1, <3>1, <3>2 DEF BotPost, Unseen
  <2>2. bot' \in [Orders -> {"new", "placed", "refused", "handed", "done", "dead"}]
    BY <1>1 DEF BotPost, TypeOK
  <2>3. UNCHANGED <<queues, service, restarts, history>>
    BY <1>1 DEF BotPost
  <2> QED
    BY <2>1, <2>2, <2>3 DEF TypeOK, QueuesType, ServiceType, queues, service, history
<1>2. CASE BotHandOver(o)
  <2>1. failed' \in Seq(Trade)
    <3>1. [order |-> o, oid |-> NoId, vol |-> Volume] \in Trade
      BY DEF Trade
    <3> QED
      BY <1>2, <3>1, PushOrders DEF BotHandOver, AddFailedOrder, TypeOK, QueuesType
  <2> QED
    BY <1>2, <2>1 DEF BotHandOver, TypeOK, ExchangeType, FillsBounded, QueuesType,
                      ServiceType, service, history
<1>3. CASE BotRecord(o)
  BY <1>3 DEF BotRecord, TypeOK, ExchangeType, FillsBounded, QueuesType,
              ServiceType, service, history
<1>4. CASE BotCrash(o)
  BY <1>4 DEF BotCrash, TypeOK, ExchangeType, FillsBounded, QueuesType,
              ServiceType, queues, service, history
<1> QED
  BY <1>1, <1>2, <1>3, <1>4 DEF BotStep

\* What the two services share: the placement at market rate.
LEMMA PlacementType ==
  ASSUME TypeInv, NEW p \in Procs, Market(p) \/ Post(p) \/ Save(p) \/ Watch(p)
  PROVE  TypeInv'
<1> USE DEF TypeInv
<1>1. pc[p] \notin {"poll", "dead"} => hand[p] \in Trade
  BY DEF TypeOK, ServiceType
<1>2. CASE Market(p)
  <2>1. hand[p] \in Trade
    BY <1>1, <1>2 DEF Market
  <2>2. ServiceType'
    BY <1>2, <2>1, ServiceMoves DEF TypeOK, Market
  <2>3. QueuesType'
    <3>1. CASE UNCHANGED queues
      BY <3>1 DEF TypeOK, QueuesType, queues
    <3>2. CASE Requeue(p)
      BY <2>1, <3>2, RequeueType
    <3> QED
      BY <1>2, <3>1, <3>2 DEF Market
  <2> QED
    BY <1>2, <2>2, <2>3 DEF Market, TypeOK, ExchangeType, FillsBounded, history
<1>3. CASE Post(p)
  <2>1. hand[p] \in Trade
    BY <1>1, <1>3 DEF Post
  <2>2. PICK v \in Affordable(hand[p].vol) :
          \/ v < MinVolume /\ Release(p) /\ UNCHANGED <<exch, lost>>
          \/ /\ v >= MinVolume
             /\ \E id \in FreeIds : /\ Accept(id, hand[p].order, v, "open")
                                    /\ Put(p, [hand[p] EXCEPT !.oid = id, !.vol = v], "save")
             /\ UNCHANGED lost
          \/ /\ v >= MinVolume
             /\ Put(p, [hand[p] EXCEPT !.oid = NoId, !.vol = v], "save")
             /\ UNCHANGED <<exch, lost>>
          \/ /\ v >= MinVolume
             /\ Die(p)
             /\ lost' = lost \cup {hand[p].order}
             /\ \/ UNCHANGED exch
                \/ \E id \in FreeIds, st \in Unseen : Accept(id, hand[p].order, v, st)
    BY <1>3, Zenon DEF Post
  <2>3. hand[p].order \in Orders /\ v \in -1 .. Volume /\ (v >= MinVolume => v \in 1 .. Volume)
    <3>1. hand[p].order \in Orders /\ hand[p].vol \in -1 .. Volume
      BY <2>1 DEF Trade
    <3>2. v = hand[p].vol \/ v \in 0 .. hand[p].vol
      BY <2>2 DEF Affordable
    <3>3. Volume \in Nat /\ MinVolume \in Nat \ {0}
      OBVIOUS
    <3> QED
      BY <3>1, <3>2, <3>3
  <2>4. ExchangeType' /\ FillsBounded'
    <3>1. CASE UNCHANGED exch
      BY <3>1 DEF TypeOK, ExchangeType, FillsBounded
    <3>2. CASE /\ v >= MinVolume
               /\ \E id \in FreeIds, st \in {"open", "flight"} : Accept(id, hand[p].order, v, st)
      BY <3>2, <2>3, AcceptType DEF TypeOK
    <3> QED
      BY <2>2, <3>1, <3>2 DEF Unseen
  <2>5. ServiceType'
    <3>1. \A i \in FreeIds \cup {NoId} :
            v >= MinVolume => [hand[p] EXCEPT !.oid = i, !.vol = v] \in Trade
      BY <2>1, <2>3 DEF Trade, FreeIds
    <3> QED
      BY <2>2, <3>1, ServiceMoves DEF TypeOK
  <2>6. lost' \subseteq Orders
    BY <2>2, <2>3 DEF TypeOK
  <2> QED
    BY <1>3, <2>4, <2>5, <2>6 DEF Post, TypeOK, QueuesType, queues
<1>4. CASE Save(p)
  <2>1. hand[p] \in Trade
    BY <1>1, <1>4 DEF Save
  <2>2. ServiceType'
    BY <1>4, <2>1, ServiceMoves DEF TypeOK, Save
  <2>3. recorded' \subseteq Ids
    BY <1>4, <2>1 DEF Save, TypeOK, QueuesType, Trade
  <2> QED
    BY <1>4, <2>2, <2>3 DEF Save, TypeOK, ExchangeType, FillsBounded, QueuesType, history
<1>5. CASE Watch(p)
  <2>1. hand[p] \in Trade
    BY <1>1, <1>5 DEF Watch
  <2>2. ServiceType'
    BY <1>5, ServiceMoves DEF TypeOK, Watch
  <2>3. watch' \in Seq(Trade)
    BY <1>5, <2>1, WatchType DEF Watch, TypeOK, QueuesType
  <2> QED
    BY <1>5, <2>2, <2>3 DEF Watch, TypeOK, ExchangeType, FillsBounded, QueuesType, history
<1> QED
  BY <1>2, <1>3, <1>4, <1>5

LEMMA ExpiredStepType ==
  ASSUME TypeInv, NEW p \in ExpiredWorkers, ExpiredStep(p)
  PROVE  TypeInv'
<1> USE DEF TypeInv
<1>1. p \in Procs /\ (pc[p] \notin {"poll", "dead"} => hand[p] \in Trade)
  BY DEF TypeOK, ServiceType, Procs
<1>2. CASE First(p)
  <2>1. Head(watch) \in Trade
    BY <1>2, TailOrders DEF First, TypeOK, QueuesType
  <2>2. ServiceType'
    BY <1>1, <1>2, <2>1, ServiceMoves DEF TypeOK, First
  <2> QED
    BY <1>2, <2>2 DEF First, TypeOK, ExchangeType, FillsBounded, QueuesType, queues, history
<1>3. CASE Claim(p)
  <2>1. hand[p] \in Trade
    BY <1>1, <1>3 DEF Claim
  <2>2. ServiceType'
    BY <1>1, <1>3, <2>1, ServiceMoves DEF TypeOK, Claim
  <2>3. QueuesType'
    BY <1>3, RemoveAtEntries DEF Claim, TypeOK, QueuesType, queues
  <2> QED
    BY <1>3, <2>2, <2>3 DEF Claim, TypeOK, ExchangeType, FillsBounded, history
<1>4. CASE Query(p)
  <2>1. hand[p] \in Trade
    BY <1>1, <1>4 DEF Query
  <2>2. [hand[p] EXCEPT !.vol = VolumeLeft(hand[p])] \in Trade
    BY <2>1, VolumeLeftType DEF TypeOK, Trade
  <2>3. ServiceType'
    BY <1>1, <1>4, <2>2, ServiceMoves DEF TypeOK, Query
  <2>4. QueuesType'
    BY <1>1, <1>4, <2>1, RequeueType DEF Query, TypeOK, QueuesType, queues
  <2>5. forgotten' \subseteq Ids
    BY <1>4, <2>1 DEF Query, TypeOK, Trade
  <2> QED
    BY <1>4, <2>3, <2>4, <2>5 DEF Query, TypeOK, ExchangeType, FillsBounded
<1>5. CASE Cancel(p)
  <2>1. hand[p] \in Trade
    BY <1>1, <1>5 DEF Cancel
  <2>2. ServiceType'
    BY <1>1, <1>5, <2>1, ServiceMoves DEF TypeOK, Cancel
  <2>3. QueuesType'
    BY <1>1, <1>5, <2>1, RequeueType DEF Cancel, TypeOK, QueuesType, queues
  <2>4. ExchangeType' /\ FillsBounded'
    <3>1. CASE UNCHANGED exch
      BY <3>1 DEF TypeOK, ExchangeType, FillsBounded
    <3>2. CASE hand[p].oid \in OpenOrders /\ CancelAt(hand[p].oid)
      BY <3>2, CancelType DEF TypeOK
    <3> QED
      BY <1>5, <3>1, <3>2 DEF Cancel
  <2> QED
    BY <1>5, <2>2, <2>3, <2>4 DEF Cancel, TypeOK, history
<1> QED
  BY <1>1, <1>2, <1>3, <1>4, <1>5, PlacementType DEF ExpiredStep

LEMMA FailedStepType ==
  ASSUME TypeInv, NEW p \in FailedWorkers, FailedStep(p)
  PROVE  TypeInv'
<1> USE DEF TypeInv
<1>1. p \in Procs /\ (pc[p] \notin {"poll", "dead"} => hand[p] \in Trade)
  BY DEF TypeOK, ServiceType, Procs
<1>2. CASE Pop(p)
  <2>1. Head(failed) \in Trade /\ failed' \in Seq(Trade)
    BY <1>2, TailOrders DEF Pop, TypeOK, QueuesType
  <2>2. ServiceType'
    BY <1>1, <1>2, <2>1, ServiceMoves DEF TypeOK, Pop
  <2> QED
    BY <1>2, <2>1, <2>2 DEF Pop, TypeOK, ExchangeType, FillsBounded, QueuesType, history
<1>3. CASE SearchOpen(p)
  <2>1. hand[p] \in Trade
    BY <1>1, <1>3 DEF SearchOpen
  <2>2. \A id \in Ids : [hand[p] EXCEPT !.oid = id] \in Trade
    BY <2>1 DEF Trade
  <2>3. \/ Goto(p, "history") /\ UNCHANGED hand
        \/ \E id \in Ids : Put(p, [hand[p] EXCEPT !.oid = id], "watch")
    BY <1>3 DEF SearchOpen, OpenOrders
  <2>4. ServiceType'
    BY <1>1, <2>1, <2>2, <2>3, ServiceMoves DEF TypeOK
  <2> QED
    BY <1>3, <2>4 DEF SearchOpen, TypeOK, ExchangeType, FillsBounded, QueuesType, queues, history
<1>4. CASE SearchHistory(p)
  <2>1. hand[p] \in Trade
    BY <1>1, <1>4 DEF SearchHistory
  <2>2. ServiceType'
    BY <1>1, <1>4, <2>1, ServiceMoves DEF TypeOK, SearchHistory
  <2> QED
    BY <1>4, <2>2 DEF SearchHistory, TypeOK, ExchangeType, FillsBounded, QueuesType, queues, history
<1> QED
  BY <1>1, <1>2, <1>3, <1>4, PlacementType DEF FailedStep

LEMMA FaultType ==
  ASSUME TypeInv, NEW p \in Procs, Crash(p) \/ Restart(p)
  PROVE  TypeInv'
<1> USE DEF TypeInv
<1>1. CASE Crash(p)
  <2>1. ServiceType'
    BY <1>1, ServiceMoves DEF TypeOK, Crash
  <2>2. lost' \subseteq Orders
    <3>1. CASE Holds(p)
      <4>1. hand[p].order \in Orders
        BY <3>1 DEF TypeOK, ServiceType, Holds, Trade
      <4> QED
        BY <1>1, <4>1 DEF Crash, TypeOK
    <3>2. CASE ~ Holds(p)
      BY <1>1, <3>2 DEF Crash, TypeOK
    <3> QED
      BY <3>1, <3>2
  <2> QED
    BY <1>1, <2>1, <2>2 DEF Crash, TypeOK, ExchangeType, FillsBounded, QueuesType, queues
<1>2. CASE Restart(p)
  <2>1. ServiceType'
    BY <1>2, ServiceMoves DEF TypeOK, Restart
  <2> QED
    BY <1>2, <2>1 DEF Restart, TypeOK, ExchangeType, FillsBounded, QueuesType, queues, history
<1> QED
  BY <1>1, <1>2

LEMMA MarketMovesType ==
  ASSUME TypeInv, NEW id \in Ids, Fill(id) \/ Arrive(id)
  PROVE  TypeInv'
<1> USE DEF TypeInv
<1>1. ExchangeType' /\ FillsBounded'
  <2> DEFINE Entry == [st : {"unused", "flight", "open", "filled", "cancelled"},
                       owner : Orders \cup {NoOrder}, vol : 0 .. Volume,
                       done : 0 .. Volume, timely : BOOLEAN]
  \* It is enough that the entry of id is changed into one that is sound.
  <2>1. ASSUME NEW e \in Entry, e.done <= e.vol,
               e.st \in {"open", "flight"} => e.done < e.vol,
               exch' = [exch EXCEPT ![id] = e]
        PROVE  ExchangeType' /\ FillsBounded'
    BY <2>1 DEF TypeOK, ExchangeType, FillsBounded
  <2>2. /\ exch[id] \in Entry /\ exch[id].done <= exch[id].vol
        /\ exch[id].st \in {"open", "flight"} => exch[id].done < exch[id].vol
    BY DEF TypeOK, ExchangeType, FillsBounded
  <2>3. CASE Fill(id)
    <3> DEFINE e == [exch[id] EXCEPT
                       !.done = @ + 1,
                       !.st = IF exch[id].done + 1 = exch[id].vol THEN "filled" ELSE @]
    <3>1. exch[id].st = "open" /\ exch' = [exch EXCEPT ![id] = e]
      BY <2>3 DEF Fill, Live, TypeOK, ExchangeType
    <3>2. e \in Entry
      <4>1. exch[id].done + 1 \in 0 .. Volume
        <5>1. exch[id].done < exch[id].vol /\ exch[id].done \in 0 .. Volume /\ exch[id].vol \in 0 .. Volume
          BY <2>2, <3>1
        <5> QED
          BY <5>1
      <4> QED
        BY <2>2, <4>1
    <3>3. e.done = exch[id].done + 1 /\ e.vol = exch[id].vol
      BY <2>2
    <3>4. e.st = IF exch[id].done + 1 = exch[id].vol THEN "filled" ELSE "open"
      BY <2>2, <3>1
    <3>5. exch[id].done \in Nat /\ exch[id].vol \in Nat
      BY <2>2
    <3>6. e.done <= e.vol /\ (e.st \in {"open", "flight"} => e.done < e.vol)
      BY <2>2, <3>1, <3>3, <3>4, <3>5
    <3> QED
      BY <2>1, <3>1, <3>2, <3>6
  <2>4. CASE Arrive(id)
    <3>1. PICK soon \in BOOLEAN :
            exch' = [exch EXCEPT ![id] = [@ EXCEPT !.st = "open", !.timely = soon]]
      BY <2>4 DEF Arrive, TypeOK, ExchangeType
    <3> DEFINE e == [exch[id] EXCEPT !.st = "open", !.timely = soon]
    <3>2. e \in Entry /\ e.done <= e.vol /\ e.done < e.vol
      BY <2>2, <2>4 DEF Arrive
    <3>3. exch' = [exch EXCEPT ![id] = e]
      BY <3>1
    <3> QED
      BY <2>1, <3>2, <3>3
  <2> QED
    BY <2>3, <2>4
<1> QED
  BY <1>1 DEF Fill, Arrive, Internal, TypeOK, QueuesType, ServiceType, queues, service, history

LEMMA InitType == Init => TypeInv
BY DEF Init, TypeInv, TypeOK, ExchangeType, FillsBounded, QueuesType, ServiceType, Unused

LEMMA StutterType ==
  ASSUME TypeInv, UNCHANGED vars
  PROVE  TypeInv'
BY DEF TypeInv, TypeOK, ExchangeType, FillsBounded, QueuesType, ServiceType,
       vars, queues, service, history

LEMMA StepType ==
  ASSUME TypeInv, [Next]_vars
  PROVE  TypeInv'
BY BotStepType, ExpiredStepType, FailedStepType, FaultType, MarketMovesType, StutterType DEF Next

\* Every variable keeps its type, and no process works without a Trade.
THEOREM TypeCorrect == Safe => []TypeOK
<1>1. Safe => []TypeInv
  BY InitType, StepType, PTL DEF Safe
<1> QED
  BY <1>1, PTL DEF TypeInv

-----------------------------------------------------------------------------
(***************************************************************************)
(* Custody. OneCustodian is inductive as it stands, given the types. Every *)
(* step is one of five moves: no Trade changes place, a process gives its  *)
(* Trade to a queue, a process takes one from a queue, or a bot hands one  *)
(* over.                                                                   *)
(***************************************************************************)

\* A Trade stays where it is, or is let go of.
LEMMA StayMove ==
  ASSUME OneCustodian, UNCHANGED <<watch, failed>>,
         \A p \in Procs, o \in Orders : HeldBy(p, o)' => HeldBy(p, o),
         \A o \in Orders : bot[o] = "handed" => bot'[o] = "handed"
  PROVE  OneCustodian'
BY DEF OneCustodian, Queued, InSeq, Distinct

\* zadd of a Trade whose order is not on the watch list appends it.
LEMMA WatchAppends ==
  ASSUME watch \in Seq(Trade), NEW t \in Trade, ~ InSeq(watch, t.order), AddOrderToWatchQueue(t)
  PROVE  watch' = Append(watch, t)
<1>1. ~ \E i \in DOMAIN watch : watch[i] = t
  BY DEF InSeq
<1> QED
  BY <1>1 DEF AddOrderToWatchQueue

LEMMA GiveMove ==
  ASSUME TypeOK, OneCustodian, UNCHANGED bot,
         NEW p \in Procs, Holds(p), hand[p] \in Trade, ~ Holds(p)',
         \A q \in Procs \ {p} : pc'[q] = pc[q] /\ hand'[q] = hand[q],
         \/ AddOrderToWatchQueue(hand[p]) /\ UNCHANGED failed
         \/ AddFailedOrder(hand[p]) /\ UNCHANGED watch
  PROVE  OneCustodian'
<1> DEFINE t == hand[p]
<1>1. t.order \in Orders /\ HeldBy(p, t.order)
  BY DEF Trade, HeldBy
<1>2. /\ ~ Queued(t.order) /\ bot[t.order] = "handed"
      /\ \A q \in Procs \ {p} : ~ HeldBy(q, t.order)
  BY <1>1 DEF OneCustodian
<1>3. \A q \in Procs, o \in Orders : HeldBy(q, o)' => HeldBy(q, o) /\ q # p
  BY DEF HeldBy, Holds
<1>4. CASE AddOrderToWatchQueue(t) /\ UNCHANGED failed
  <2>1. watch' = Append(watch, t)
    BY <1>2, <1>4, WatchAppends DEF Queued, TypeOK, QueuesType
  <2>2. /\ \A o : InSeq(watch', o) <=> InSeq(watch, o) \/ t.order = o
        /\ Distinct(watch')
    BY <1>2, <2>1, AppendOrders DEF OneCustodian, Queued, TypeOK, QueuesType
  <2>3. Distinct(failed') /\ \A o : InSeq(failed', o) <=> InSeq(failed, o)
    BY <1>4 DEF OneCustodian
  <2> QED
    BY <1>1, <1>2, <1>3, <2>2, <2>3 DEF OneCustodian, Queued
<1>5. CASE AddFailedOrder(t) /\ UNCHANGED watch
  <2>1. /\ \A o : InSeq(failed', o) <=> InSeq(failed, o) \/ t.order = o
        /\ Distinct(failed')
    BY <1>2, <1>5, PushOrders DEF AddFailedOrder, OneCustodian, Queued, TypeOK, QueuesType
  <2>2. Distinct(watch') /\ \A o : InSeq(watch', o) <=> InSeq(watch, o)
    BY <1>5 DEF OneCustodian
  <2>3. \A o \in Orders : ~ (InSeq(watch', o) /\ InSeq(failed', o))
    BY <1>2, <2>1, <2>2 DEF OneCustodian, Queued
  <2>4. \A q \in Procs, o \in Orders : HeldBy(q, o)' => ~ Queued(o)'
    BY <1>1, <1>2, <1>3, <2>1, <2>2 DEF OneCustodian, Queued
  <2>5. \A q, r \in Procs, o \in Orders : HeldBy(q, o)' /\ HeldBy(r, o)' => q = r
    BY <1>3 DEF OneCustodian
  <2>6. \A o \in Orders :
          bot'[o] # "handed" => ~ Queued(o)' /\ \A q \in Procs : ~ HeldBy(q, o)'
    BY <1>2, <1>3, <2>1, <2>2 DEF OneCustodian, Queued
  <2> QED
    BY <2>1, <2>2, <2>3, <2>4, <2>5, <2>6 DEF OneCustodian
<1> QED
  BY <1>4, <1>5

\* The Trade that p works on after the step was in a queue before it, and is in
\* none afterwards.
LEMMA TakeMove ==
  ASSUME OneCustodian, UNCHANGED bot, NEW p \in Procs, hand'[p] \in Trade,
         \A q \in Procs \ {p} : pc'[q] = pc[q] /\ hand'[q] = hand[q],
         Queued(hand'[p].order),
         ~ InSeq(watch', hand'[p].order), ~ InSeq(failed', hand'[p].order),
         Distinct(watch'), Distinct(failed'),
         \A o : InSeq(watch', o) => InSeq(watch, o),
         \A o : InSeq(failed', o) => InSeq(failed, o)
  PROVE  OneCustodian'
<1> DEFINE o1 == hand'[p].order
<1>1. o1 \in Orders /\ \A q \in Procs : ~ HeldBy(q, o1)
  BY DEF OneCustodian, Trade
<1>2. \A q \in Procs \ {p}, o \in Orders : HeldBy(q, o)' => HeldBy(q, o) /\ o # o1
  BY <1>1 DEF HeldBy, Holds
<1>3. \A o \in Orders : HeldBy(p, o)' => o = o1
  BY DEF HeldBy
<1>4. bot'[o1] = "handed"
  BY <1>1 DEF OneCustodian
<1>5. \A o \in Orders : Queued(o)' => Queued(o) /\ o # o1
  BY DEF Queued
<1>6. \A o \in Orders : ~ (InSeq(watch', o) /\ InSeq(failed', o))
  BY DEF OneCustodian
<1>7. \A q, r \in Procs, o \in Orders : HeldBy(q, o)' /\ HeldBy(r, o)' => q = r
  BY <1>2, <1>3 DEF OneCustodian
<1>8. \A q \in Procs, o \in Orders : HeldBy(q, o)' => ~ Queued(o)'
  BY <1>2, <1>3, <1>5 DEF OneCustodian
<1>9. \A o \in Orders :
        bot'[o] # "handed" => ~ Queued(o)' /\ \A q \in Procs : ~ HeldBy(q, o)'
  BY <1>2, <1>3, <1>4, <1>5 DEF OneCustodian
<1> QED
  BY <1>6, <1>7, <1>8, <1>9 DEF OneCustodian

LEMMA HandOverMove ==
  ASSUME TypeOK, OneCustodian, NEW o \in Orders, BotHandOver(o)
  PROVE  OneCustodian'
<1> DEFINE t == [order |-> o, oid |-> NoId, vol |-> Volume]
<1>1. t \in Trade /\ t.order = o
  BY DEF Trade
<1>2. ~ Queued(o) /\ \A q \in Procs : ~ HeldBy(q, o)
  BY DEF OneCustodian, BotHandOver
<1>3. failed' = <<t>> \o failed /\ UNCHANGED <<watch, pc, hand>>
  BY DEF BotHandOver, AddFailedOrder, service
<1> HIDE DEF t
<1>4. /\ \A q : InSeq(failed', q) <=> InSeq(failed, q) \/ o = q
      /\ Distinct(failed')
  BY <1>1, <1>2, <1>3, PushOrders DEF OneCustodian, Queued, TypeOK, QueuesType
<1>5. \A q \in Orders : bot'[q] = IF q = o THEN "handed" ELSE bot[q]
  BY DEF BotHandOver, TypeOK
<1>6. /\ \A q : InSeq(watch', q) <=> InSeq(watch, q)
      /\ Distinct(watch')
      /\ \A q \in Procs, r \in Orders : HeldBy(q, r)' <=> HeldBy(q, r)
  BY <1>3 DEF OneCustodian, HeldBy, Holds
<1> QED
  BY <1>2, <1>4, <1>5, <1>6 DEF OneCustodian, Queued

LEMMA BotStepCustody ==
  ASSUME TypeInv, OneCustodian, NEW o \in Orders, BotStep(o)
  PROVE  OneCustodian'
<1>1. CASE BotHandOver(o)
  BY <1>1, HandOverMove DEF TypeInv
<1>2. CASE BotPost(o) \/ BotRecord(o) \/ BotCrash(o)
  <2>1. UNCHANGED <<watch, failed, pc, hand>>
    BY <1>2 DEF BotPost, BotRecord, BotCrash, queues, service
  <2>2. \A q \in Orders : bot[q] = "handed" => bot'[q] = "handed"
    BY <1>2 DEF BotPost, BotRecord, BotCrash, TypeInv, TypeOK
  <2> QED
    BY <2>1, <2>2, StayMove DEF HeldBy, Holds
<1> QED
  BY <1>1, <1>2 DEF BotStep

\* A process that changes nothing but its own state, and does not come to hold
\* a Trade that it did not hold.
LEMMA OwnMove ==
  ASSUME OneCustodian, UNCHANGED <<watch, failed, bot>>, NEW p \in Procs,
         \A q \in Procs \ {p} : pc'[q] = pc[q] /\ hand'[q] = hand[q],
         Holds(p)' => Holds(p) /\ hand'[p].order = hand[p].order
  PROVE  OneCustodian'
<1>1. \A q \in Procs, o \in Orders : HeldBy(q, o)' => HeldBy(q, o)
  BY DEF HeldBy, Holds
<1> QED
  BY <1>1, StayMove

\* Every form in which a step changes the state of the process that takes it.
LEMMA OnlyOwnState ==
  ASSUME ServiceType, NEW p \in Procs,
         \/ Release(p) \/ Die(p)
         \/ UNCHANGED hand /\ \E l : Goto(p, l)
         \/ \E t, l : Put(p, t, l)
  PROVE  \A q \in Procs \ {p} : pc'[q] = pc[q] /\ hand'[q] = hand[q]
BY DEF ServiceType, Release, Die, Goto, Put

LEMMA LetGo ==
  ASSUME ServiceType, NEW p \in Procs, Release(p) \/ Die(p)
  PROVE  ~ Holds(p)'
BY DEF ServiceType, Release, Die, Goto, Holds

LEMMA RequeueCustody ==
  ASSUME TypeInv, OneCustodian, UNCHANGED bot,
         NEW p \in Procs, Holds(p), Requeue(p), Release(p) \/ Die(p)
  PROVE  OneCustodian'
<1>1. hand[p] \in Trade
  BY DEF Holds, TypeInv, TypeOK, ServiceType
<1>2. \A q \in Procs \ {p} : pc'[q] = pc[q] /\ hand'[q] = hand[q]
  BY OnlyOwnState DEF TypeInv, TypeOK
<1>3. ~ Holds(p)'
  BY LetGo DEF TypeInv, TypeOK
<1>4. \/ AddOrderToWatchQueue(hand[p]) /\ UNCHANGED failed
      \/ AddFailedOrder(hand[p]) /\ UNCHANGED watch
  BY DEF Requeue
<1> QED
  BY <1>1, <1>2, <1>3, <1>4, GiveMove DEF TypeInv

LEMMA PlacementCustody ==
  ASSUME TypeInv, OneCustodian, NEW p \in Procs, Market(p) \/ Post(p) \/ Save(p) \/ Watch(p)
  PROVE  OneCustodian'
<1>1. TypeOK /\ ServiceType /\ UNCHANGED bot
  BY DEF Market, Post, Save, Watch, TypeInv, TypeOK
<1>2. Holds(p) /\ hand[p] \in Trade
  BY <1>1 DEF Market, Post, Save, Watch, Holds, ServiceType
<1>3. CASE Market(p)
  <2>1. CASE Requeue(p) /\ (Release(p) \/ Die(p))
    BY <1>1, <1>2, <2>1, RequeueCustody
  <2>2. CASE Goto(p, "post") /\ UNCHANGED <<queues, hand>>
    <3>1. \A q \in Procs \ {p} : pc'[q] = pc[q] /\ hand'[q] = hand[q]
      BY <1>1, <2>2, OnlyOwnState
    <3> QED
      BY <1>1, <1>2, <2>2, <3>1, OwnMove DEF queues
  <2> QED
    BY <1>3, <2>1, <2>2 DEF Market
<1>4. CASE Post(p)
  <2>1. \/ Release(p) \/ Die(p)
        \/ \E t, l : Put(p, t, l) /\ t.order = hand[p].order
    <3>1. \A i, v : [hand[p] EXCEPT !.oid = i, !.vol = v].order = hand[p].order
      BY <1>2 DEF Trade
    <3> QED
      BY <1>4, <3>1 DEF Post
  <2>2. \A q \in Procs \ {p} : pc'[q] = pc[q] /\ hand'[q] = hand[q]
    BY <1>1, <2>1, OnlyOwnState
  <2>3. Holds(p)' => hand'[p].order = hand[p].order
    BY <1>1, <2>1, LetGo DEF Put, ServiceType
  <2> QED
    BY <1>1, <1>2, <1>4, <2>2, <2>3, OwnMove DEF Post, queues
<1>5. CASE Save(p)
  <2>1. \A q \in Procs \ {p} : pc'[q] = pc[q] /\ hand'[q] = hand[q]
    BY <1>1, <1>5, OnlyOwnState DEF Save
  <2> QED
    BY <1>1, <1>2, <1>5, <2>1, OwnMove DEF Save
<1>6. CASE Watch(p)
  <2>1. \A q \in Procs \ {p} : pc'[q] = pc[q] /\ hand'[q] = hand[q]
    BY <1>1, <1>6, OnlyOwnState DEF Watch
  <2>2. ~ Holds(p)'
    BY <1>1, <1>6, LetGo DEF Watch
  <2> QED
    BY <1>1, <1>2, <1>6, <2>1, <2>2, GiveMove DEF Watch
<1> QED
  BY <1>3, <1>4, <1>5, <1>6

LEMMA ExpiredStepCustody ==
  ASSUME TypeInv, OneCustodian, NEW p \in ExpiredWorkers, ExpiredStep(p)
  PROVE  OneCustodian'
<1>1. p \in Procs /\ TypeOK /\ ServiceType
  BY DEF TypeInv, TypeOK, Procs
<1>2. CASE First(p)
  <2>1. \A q \in Procs \ {p} : pc'[q] = pc[q] /\ hand'[q] = hand[q]
    BY <1>1, <1>2, OnlyOwnState DEF First
  <2>2. ~ Holds(p)'
    BY <1>1, <1>2 DEF First, Put, Goto, Holds, ServiceType
  <2> QED
    BY <1>1, <1>2, <2>1, <2>2, OwnMove DEF First, queues
<1>3. CASE Claim(p)
  <2>1. hand[p] \in Trade /\ ~ Holds(p)
    BY <1>1, <1>3 DEF Claim, ServiceType, Holds
  <2>2. \A q \in Procs \ {p} : pc'[q] = pc[q] /\ hand'[q] = hand[q]
    BY <1>1, <1>3, OnlyOwnState DEF Claim
  <2>3. ASSUME NEW i \in DOMAIN watch, watch[i] = hand[p],
               watch' = RemoveAt(watch, i), UNCHANGED <<hand, failed>>
        PROVE  OneCustodian'
    <3>1. /\ Distinct(watch')
          /\ ~ InSeq(watch', hand[p].order)
          /\ \A o : InSeq(watch', o) => InSeq(watch, o)
      BY <1>1, <2>3, RemoveAtOrders DEF OneCustodian, TypeOK, QueuesType
    <3>2. InSeq(watch, hand[p].order)
      BY <2>3 DEF InSeq
    <3>3. ~ InSeq(failed, hand[p].order) /\ Distinct(failed)
      BY <2>1, <3>2 DEF OneCustodian, Trade
    <3> QED
      BY <1>1, <1>3, <2>1, <2>2, <2>3, <3>1, <3>2, <3>3, TakeMove DEF Claim, Queued
  <2>4. CASE Release(p) /\ UNCHANGED queues
    <3>1. ~ Holds(p)'
      BY <1>1, <2>4, LetGo
    <3> QED
      BY <1>1, <1>3, <2>2, <2>4, <3>1, OwnMove DEF Claim, queues
  <2> QED
    BY <1>3, <2>3, <2>4 DEF Claim
<1>4. CASE Query(p)
  <2>1. Holds(p) /\ hand[p] \in Trade
    BY <1>1, <1>4 DEF Query, Holds, ServiceType
  <2>2. CASE Requeue(p) /\ Release(p)
    BY <1>1, <1>4, <2>1, <2>2, RequeueCustody DEF Query
  <2>3. CASE UNCHANGED queues /\ (Release(p) \/ \E v : Put(p, [hand[p] EXCEPT !.vol = v], "cancel"))
    <3>1. \A q \in Procs \ {p} : pc'[q] = pc[q] /\ hand'[q] = hand[q]
      BY <1>1, <2>3, OnlyOwnState
    <3>2. \A v : [hand[p] EXCEPT !.vol = v].order = hand[p].order
      BY <2>1 DEF Trade
    <3>3. Holds(p)' => hand'[p].order = hand[p].order
      BY <1>1, <2>3, <3>2, LetGo DEF Put, ServiceType
    <3> QED
      BY <1>1, <1>4, <2>1, <2>3, <3>1, <3>3, OwnMove DEF Query, queues
  <2> QED
    BY <1>4, <2>2, <2>3 DEF Query
<1>5. CASE Cancel(p)
  <2>1. Holds(p) /\ hand[p] \in Trade
    BY <1>1, <1>5 DEF Cancel, Holds, ServiceType
  <2>2. CASE Requeue(p) /\ Release(p)
    BY <1>1, <1>5, <2>1, <2>2, RequeueCustody DEF Cancel
  <2>3. CASE Goto(p, "market") /\ UNCHANGED <<queues, hand>>
    <3>1. \A q \in Procs \ {p} : pc'[q] = pc[q] /\ hand'[q] = hand[q]
      BY <1>1, <2>3, OnlyOwnState
    <3> QED
      BY <1>1, <1>5, <2>1, <2>3, <3>1, OwnMove DEF Cancel, queues
  <2> QED
    BY <1>5, <2>2, <2>3 DEF Cancel
<1> QED
  BY <1>1, <1>2, <1>3, <1>4, <1>5, PlacementCustody DEF ExpiredStep

LEMMA FailedStepCustody ==
  ASSUME TypeInv, OneCustodian, NEW p \in FailedWorkers, FailedStep(p)
  PROVE  OneCustodian'
<1>1. p \in Procs /\ TypeOK /\ ServiceType
  BY DEF TypeInv, TypeOK, Procs
<1>2. CASE Pop(p)
  <2>1. \A q \in Procs \ {p} : pc'[q] = pc[q] /\ hand'[q] = hand[q]
    BY <1>1, <1>2, OnlyOwnState DEF Pop
  <2> DEFINE t == Head(failed)
  <2>2. /\ t \in Trade /\ InSeq(failed, t.order)
        /\ Distinct(failed') /\ ~ InSeq(failed', t.order)
        /\ \A o : InSeq(failed', o) => InSeq(failed, o)
    BY <1>1, <1>2, TailOrders DEF Pop, OneCustodian, TypeOK, QueuesType
  <2>3. hand'[p] = t /\ UNCHANGED <<bot, watch>>
    BY <1>1, <1>2 DEF Pop, Put, ServiceType
  <2>4. Distinct(watch) /\ ~ InSeq(watch, t.order)
    BY <2>2 DEF OneCustodian, Trade
  <2> HIDE DEF t
  <2> QED
    BY <1>1, <2>1, <2>2, <2>3, <2>4, TakeMove DEF Queued
<1>3. CASE SearchOpen(p) \/ SearchHistory(p)
  <2>1. Holds(p) /\ hand[p] \in Trade
    BY <1>1, <1>3 DEF SearchOpen, SearchHistory, Holds, ServiceType
  <2>2. \/ UNCHANGED hand /\ \E l : Goto(p, l)
        \/ Release(p)
        \/ \E t, l : Put(p, t, l) /\ t.order = hand[p].order
    <3>1. \A id : [hand[p] EXCEPT !.oid = id].order = hand[p].order
      BY <2>1 DEF Trade
    <3> QED
      BY <1>3, <3>1 DEF SearchOpen, SearchHistory
  <2>3. \A q \in Procs \ {p} : pc'[q] = pc[q] /\ hand'[q] = hand[q]
    BY <1>1, <2>2, OnlyOwnState
  <2>4. Holds(p)' => hand'[p].order = hand[p].order
    BY <1>1, <2>2, LetGo DEF Put, ServiceType
  <2> QED
    BY <1>1, <1>3, <2>1, <2>3, <2>4, OwnMove DEF SearchOpen, SearchHistory, queues
<1> QED
  BY <1>1, <1>2, <1>3, PlacementCustody DEF FailedStep

LEMMA FaultCustody ==
  ASSUME TypeInv, OneCustodian, NEW p \in Procs, Crash(p) \/ Restart(p)
  PROVE  OneCustodian'
<1>1. ServiceType /\ UNCHANGED <<watch, failed, bot>>
  BY DEF Crash, Restart, TypeInv, TypeOK, queues
<1>2. \A q \in Procs \ {p} : pc'[q] = pc[q] /\ hand'[q] = hand[q]
  BY <1>1, OnlyOwnState DEF Crash, Restart
<1>3. ~ Holds(p)'
  BY <1>1, LetGo DEF Crash, Restart, Goto, Holds, ServiceType
<1> QED
  BY <1>1, <1>2, <1>3, OwnMove

LEMMA StepCustody ==
  ASSUME TypeInv, OneCustodian, [Next]_vars
  PROVE  OneCustodian'
<1>1. ASSUME NEW id \in Ids, Fill(id) \/ Arrive(id)
      PROVE  OneCustodian'
  BY <1>1, StayMove DEF Fill, Arrive, Internal, queues, service, HeldBy, Holds
<1>2. CASE UNCHANGED vars
  BY <1>2, StayMove DEF vars, HeldBy, Holds
<1> QED
  BY <1>1, <1>2, BotStepCustody, ExpiredStepCustody, FailedStepCustody, FaultCustody DEF Next

\* However many processes of the two services run, crash and are restarted, a
\* Trade is in one place at most: in one queue, once, or in the hands of one
\* process, and only once its bot has handed it over.
THEOREM Custody == Safe => []OneCustodian
<1>1. Init => OneCustodian
  BY DEF Init, OneCustodian, Queued, InSeq, Distinct, HeldBy, Holds
<1>2. Safe => []TypeInv
  BY InitType, StepType, PTL DEF Safe
<1> QED
  BY <1>1, <1>2, StepCustody, PTL DEF Safe
=============================================================================
