------------------------ MODULE MarketMonitoring_proofs ------------------------
(***************************************************************************)
(* What the readers of the markets ask, file, store and tell of, what a bot*)
(* trades, and what operators are shown, for any lists of pairs, quotes,   *)
(* topics, passes, messages and kills.                                     *)
(***************************************************************************)
EXTENDS MarketMonitoring, SequenceTheorems, WellFoundedInduction, TLAPS

-----------------------------------------------------------------------------
(* Storing. *)

\* A pass stores after its last request, and what it has inserted so far is of
\* what it has been answered.
StoreInv ==
  /\ stored # {} => pc \notin {"ask", "poloniex", "binance"} /\ stored = Rows
  /\ opened # {} => pc = "insert"
  /\ opened \subseteq Rows

\* Nothing is stored when a pass begins.
LEMMA NothingStored == ASSUME Init PROVE StoreInv
BY DEF Init, InitMarket, StoreInv

\* A request forgets what the pass before it stored.
LEMMA RequestForgets ==
  ASSUME NEW k, NEW units, NEW next, Request(k, units, next), next # "insert",
         StoreInv, pc # "insert"
  PROVE  StoreInv'
<1>1. opened = {}
  BY DEF StoreInv
<1> QED
  BY <1>1 DEF Request, StoreInv

\* Answers come before anything is stored.
LEMMA AnswersStoreNothing ==
  ASSUME StoreInv, pc \in {"ask", "poloniex", "binance"}, UNCHANGED tables,
         pc' \in {"ask", "poloniex", "binance", "cap", "decide", "copy", "compare", "insert", "dead"}
  PROVE  StoreInv'
<1>1. stored = {} /\ opened = {}
  BY DEF StoreInv
<1> QED
  BY <1>1 DEF StoreInv, tables

\* The steps that go on with the same answers.
LEMMA SameAnswers ==
  ASSUME StoreInv, UNCHANGED <<results, opened, stored>>,
         pc \notin {"ask", "poloniex", "binance", "insert"},
         pc' \notin {"ask", "poloniex", "binance"}
  PROVE  StoreInv'
<1>1. Rows' = Rows
  BY DEF Rows
<1>2. opened = {}
  BY DEF StoreInv
<1> QED
  BY <1>1, <1>2 DEF StoreInv

\* Whatever fails, a step of a reader leaves a pass with all of its rows or none.
LEMMA ReaderStores ==
  ASSUME StoreInv,
         \/ BeginPass \/ AskBatch \/ Answered \/ AskPoloniex \/ AskBinance
         \/ Compare \/ AlarmsEnd \/ Decide \/ Copy \/ Copied \/ Insert \/ Commit
         \/ SaveAlarm \/ CheckNames \/ UpdateMinCap \/ Tell
         \/ ServiceCrash \/ ServiceRestart
  PROVE  StoreInv'
<1>1. CASE BeginPass
  BY <1>1, RequestForgets DEF BeginPass
<1>2. CASE AskBatch
  BY <1>2, AnswersStoreNothing DEF AskBatch
<1>3. CASE Answered
  <2>1. pc' \in {"cap", "decide", "poloniex", "copy", "insert"}
    BY <1>3 DEF Answered
  <2> QED
    BY <1>3, <2>1, AnswersStoreNothing DEF Answered
<1>4. CASE AskPoloniex
  BY <1>4, AnswersStoreNothing DEF AskPoloniex
<1>5. CASE AskBinance
  <2>1. pc' \in {"copy", "compare", "dead"}
    BY <1>5 DEF AskBinance
  <2> QED
    BY <1>5, <2>1, AnswersStoreNothing DEF AskBinance
<1>6. CASE Compare
  BY <1>6, SameAnswers DEF Compare, answers, tables
<1>7. CASE AlarmsEnd
  BY <1>7, SameAnswers DEF AlarmsEnd, answers, tables
<1>8. CASE Decide
  BY <1>8, SameAnswers DEF Decide, answers, tables
<1>9. CASE Tell
  BY <1>9, SameAnswers DEF Tell, answers, tables
<1>10. CASE SaveAlarm
  BY <1>10, SameAnswers DEF SaveAlarm, answers
<1>11. CASE Copy
  <2>1. Rows' = Rows
    BY <1>11 DEF Copy, Rows, answers
  <2> QED
    BY <1>11, <2>1 DEF Copy, StoreInv
<1>12. CASE Copied
  <2>1. CASE AfterCopy = "end"
    BY <1>12, <2>1, SameAnswers DEF Copied, answers, tables
  <2>2. CASE AfterCopy # "end"
    BY <1>12, <2>2, RequestForgets DEF Copied
  <2> QED
    BY <2>1, <2>2
<1>13. CASE Insert
  <2>1. Rows' = Rows
    BY <1>13 DEF Insert, Rows, answers
  <2> QED
    BY <1>13, <2>1 DEF Insert, ToInsert, StoreInv
<1>14. CASE Commit
  <2>1. Rows' = Rows
    BY <1>14 DEF Commit, Rows, answers
  <2>2. opened = Rows
    BY <1>14 DEF Commit, ToInsert, StoreInv
  <2> QED
    BY <1>14, <2>1, <2>2 DEF Commit, StoreInv
<1>15. CASE CheckNames
  <2>1. CASE pc' = "exit" /\ UNCHANGED <<service, legs, listed, kind, answers, tables, gaps>>
    BY <1>15, <2>1, SameAnswers DEF CheckNames, answers, tables
  <2>2. CASE Request("ticker", <<WorkUnit(Buy, Pair), WorkUnit(Sell, Pair)>>, "ask")
    BY <1>15, <2>2, RequestForgets DEF CheckNames
  <2> QED
    BY <1>15, <2>1, <2>2 DEF CheckNames
<1>16. CASE UpdateMinCap
  <2>1. CASE pc' = "KeyError" /\ UNCHANGED <<service, legs, listed, kind, answers, tables, gaps>>
    BY <1>16, <2>1, SameAnswers DEF UpdateMinCap, answers, tables
  <2>2. CASE Request("book", <<WorkUnit(Sell, Pair), WorkUnit(Buy, Pair)>>, "ask")
    BY <1>16, <2>2, RequestForgets DEF UpdateMinCap
  <2> QED
    BY <1>16, <2>1, <2>2 DEF UpdateMinCap
<1>17. CASE ServiceCrash
  <2>1. Rows' = Rows
    BY <1>17 DEF ServiceCrash, Rows, answers
  <2> QED
    BY <1>17, <2>1 DEF ServiceCrash, StoreInv
<1>18. CASE ServiceRestart
  BY <1>18, SameAnswers DEF ServiceRestart, answers, tables
<1> QED
  BY <1>1, <1>2, <1>3, <1>4, <1>5, <1>6, <1>7, <1>8, <1>9, <1>10, <1>11, <1>12, <1>13,
     <1>14, <1>15, <1>16, <1>17, <1>18

\* The steps of others leave what the reader has stored alone.
LEMMA OthersStoreNothing == ASSUME StoreInv, UNCHANGED market PROVE StoreInv'
BY DEF StoreInv, market, Rows

LEMMA StoreInvHolds == Spec => []StoreInv
<1>1. Init => StoreInv
  BY NothingStored
<1>2. StoreInv /\ [Next]_vars => StoreInv'
  <2> SUFFICES ASSUME StoreInv, [Next]_vars PROVE StoreInv'
    OBVIOUS
  <2>1. CASE Begin
    BY <2>1, ReaderStores DEF Begin
  <2>2. CASE Read
    BY <2>2, ReaderStores DEF Read
  <2>3. CASE Store
    BY <2>3, ReaderStores DEF Store
  <2>4. CASE StartBot
    BY <2>4, ReaderStores DEF StartBot
  <2>5. CASE TellOfGap
    BY <2>5, ReaderStores DEF TellOfGap
  <2>6. CASE Say
    BY <2>6, OthersStoreNothing DEF Say
  <2>7. CASE Notify
    BY <2>7, OthersStoreNothing DEF Notify
  <2>8. CASE Kill
    BY <2>8, ReaderStores, OthersStoreNothing DEF Kill
  <2>9. CASE Restart
    BY <2>9, ReaderStores DEF Restart
  <2>10. CASE UNCHANGED vars
    BY <2>10, OthersStoreNothing DEF vars
  <2> QED
    BY <2>1, <2>2, <2>3, <2>4, <2>5, <2>6, <2>7, <2>8, <2>9, <2>10 DEF Next
<1> QED
  BY <1>1, <1>2, PTL DEF Spec

\* bulk_insert_to_postgres and load_to_postgres: with any answers and failures, a
\* pass has all rows of a kind in its table or none of them.
THEOREM StoredAsAWhole == Spec => []WholeOrNothing
<1>1. StoreInv => WholeOrNothing
  BY DEF StoreInv, WholeOrNothing
<1> QED
  BY <1>1, StoreInvHolds, PTL

-----------------------------------------------------------------------------
(* Telling. *)

\* One, if the notifier has a message of the topic in hand.
Held(t) == IF hand # Nobody /\ Topic = t THEN 1 ELSE 0

\* How many messages of a topic are done with: shown for the last time, or lost.
Settled(t) == added[t] - Len(queue[t]) - Held(t)

\* Every message is settled, in hand or in the queue, in this order; only the
\* first that is not settled may have been shown.
InTurn(t) ==
  /\ Settled(t) \in Nat
  /\ \A i \in 1 .. Len(queue[t]) : queue[t][i] = Settled(t) + Held(t) + i
  /\ hand # Nobody /\ Topic = t => hand = Settled(t) + 1
  /\ 1 .. Settled(t) \subseteq delivered[t] \cup lost[t]
  /\ delivered[t] \subseteq 1 .. Settled(t) + 1

TellTypes ==
  /\ queue \in [TopicSet -> Seq(Nat)]
  /\ added \in [TopicSet -> Nat]
  /\ turn \in DOMAIN Topics
  /\ hand \in Nat
  /\ delivered \in [TopicSet -> SUBSET Nat]
  /\ lost \in [TopicSet -> SUBSET Nat]
  /\ hand # Nobody <=> stage \in {"html", "plain", "back"}

TellInv == TellTypes /\ \A t \in TopicSet : InTurn(t)

\* The loop of the notifier stays among its topics.
LEMMA TopicsGoRound ==
  ASSUME NEW k \in Nat
  PROVE  1 + (k % Len(Topics)) \in DOMAIN Topics
<1>1. Len(Topics) \in Nat \ {0} /\ DOMAIN Topics = 1 .. Len(Topics)
  BY TopicsAssumption
<1>2. k % Len(Topics) \in 0 .. Len(Topics) - 1
  BY <1>1
<1> QED
  BY <1>1, <1>2

LEMMA TopicIsOne == ASSUME TellTypes PROVE Topic \in TopicSet
BY TopicsAssumption DEF TellTypes, Topic, TopicSet

LEMMA NobodyTold == ASSUME InitNotifications PROVE TellInv
<1>1. TellTypes
  BY TopicsAssumption, TopicsGoRound DEF InitNotifications, TellTypes, Nobody
<1>2. ASSUME NEW t \in TopicSet PROVE InTurn(t)
  BY DEF InitNotifications, InTurn, Settled, Held, Nobody
<1> QED
  BY <1>1, <1>2 DEF TellInv

\* A message is pushed behind the others.
LEMMA AddInTurn ==
  ASSUME TellInv, NEW topic \in TopicSet, AddMessage(topic)
  PROVE  TellInv'
<1>1. TellTypes'
  BY DEF TellInv, TellTypes, AddMessage
<1>2. ASSUME NEW t \in TopicSet PROVE InTurn(t)'
  <2>1. Held(t)' = Held(t) /\ (Topic = t <=> (Topic = t)')
    BY DEF AddMessage, Held, Topic
  <2>2. CASE t = topic
    <3>1. added'[t] = added[t] + 1 /\ queue'[t] = Append(queue[t], added[t] + 1)
      BY <2>2 DEF AddMessage, TellInv, TellTypes
    <3>2. Len(queue'[t]) = Len(queue[t]) + 1 /\ Len(queue[t]) \in Nat /\ added[t] \in Nat
      BY <3>1 DEF TellInv, TellTypes
    <3>3. Held(t) \in {0, 1}
      BY DEF Held
    <3>4. Settled(t)' = Settled(t)
      BY <2>1, <3>1, <3>2, <3>3 DEF Settled
    <3>5. ASSUME NEW i \in 1 .. Len(queue'[t])
          PROVE  queue'[t][i] = Settled(t) + Held(t) + i
      <4>1. CASE i = Len(queue[t]) + 1
        <5>1. queue'[t][i] = added[t] + 1
          BY <4>1, <3>1 DEF TellInv, TellTypes
        <5> QED
          BY <4>1, <5>1, <3>2, <3>3 DEF Settled
      <4>2. CASE i # Len(queue[t]) + 1
        BY <4>2, <3>1, <3>2 DEF TellInv, TellTypes, InTurn
      <4> QED
        BY <4>1, <4>2
    <3> QED
      BY <2>1, <3>4, <3>5 DEF TellInv, InTurn, AddMessage
  <2>3. CASE t # topic
    <3>1. added'[t] = added[t] /\ queue'[t] = queue[t]
      BY <2>3 DEF AddMessage, TellInv, TellTypes
    <3> QED
      BY <2>1, <3>1 DEF TellInv, InTurn, Settled, AddMessage
  <2> QED
    BY <2>2, <2>3
<1> QED
  BY <1>1, <1>2 DEF TellInv

LEMMA HeadAndTail ==
  ASSUME NEW s \in Seq(Nat), s # <<>>
  PROVE  /\ Len(s) \in Nat \ {0}
         /\ Head(s) = s[1]
         /\ Tail(s) \in Seq(Nat) /\ Len(Tail(s)) = Len(s) - 1
         /\ \A i \in 1 .. Len(Tail(s)) : Tail(s)[i] = s[i + 1]
OBVIOUS

\* A message is popped: it is in hand, and the next of its topic to be settled.
LEMMA LookInTurn == ASSUME TellInv, Look PROVE TellInv'
<1>1. PICK k \in 0 .. Len(Topics) - 1 :
        /\ queue[Topics[After(k)]] # <<>>
        /\ turn' = After(k)
        /\ hand' = Head(queue[Topics[After(k)]])
        /\ queue' = [queue EXCEPT ![Topics[After(k)]] = Tail(@)]
  BY DEF Look
<1> DEFINE topic == Topics[After(k)]
<1>2. After(k) \in DOMAIN Topics
  <2>1. turn - 1 + k \in Nat
    BY TopicsAssumption DEF TellInv, TellTypes
  <2> QED
    BY <2>1, TopicsGoRound DEF After
<1>3. topic \in TopicSet /\ Topic' = topic
  BY <1>1, <1>2 DEF TopicSet, Topic
<1>4. hand = Nobody
  BY DEF Look, TellInv, TellTypes
<1>5. /\ queue[topic] \in Seq(Nat) /\ queue[topic] # <<>>
      /\ queue'[topic] = Tail(queue[topic])
      /\ added[topic] \in Nat
  BY <1>1, <1>3 DEF TellInv, TellTypes
<1>6. /\ Len(queue[topic]) \in Nat \ {0}
      /\ Len(queue'[topic]) = Len(queue[topic]) - 1
      /\ \A i \in 1 .. Len(queue'[topic]) : queue'[topic][i] = queue[topic][i + 1]
      /\ hand' = queue[topic][1]
  BY <1>1, <1>5, HeadAndTail
<1>7. hand' = Settled(topic) + 1 /\ Settled(topic) \in Nat
  <2>1. Held(topic) = 0
    BY <1>4 DEF Held
  <2> QED
    BY <2>1, <1>3, <1>6 DEF TellInv, InTurn
<1>8. TellTypes'
  <2>1. hand' \in Nat /\ hand' # Nobody
    BY <1>7 DEF Nobody
  <2>2. queue' \in [TopicSet -> Seq(Nat)]
    BY <1>1, <1>3, <1>5 DEF TellInv, TellTypes
  <2> QED
    BY <1>1, <1>2, <2>1, <2>2 DEF Look, TellInv, TellTypes
<1>9. ASSUME NEW t \in TopicSet PROVE InTurn(t)'
  <2>1. Held(t) = 0
    BY <1>4 DEF Held
  <2>2. CASE t = topic
    <3>1. Held(t)' = 1
      BY <2>2, <1>3, <1>7 DEF Held, Nobody
    <3>2. Settled(t)' = Settled(t)
      <4>1. added' = added
        BY DEF Look
      <4>2. Len(queue'[t]) = Len(queue[t]) - 1 /\ Len(queue[t]) \in Nat /\ added[t] \in Nat
        BY <1>5, <1>6, <2>2
      <4> HIDE DEF topic
      <4> QED
        BY <2>1, <3>1, <4>1, <4>2 DEF Settled
    <3>3. ASSUME NEW i \in 1 .. Len(queue'[t])
          PROVE  queue'[t][i] = Settled(t) + 1 + i
      <4>1. queue'[t][i] = queue[t][i + 1] /\ i + 1 \in 1 .. Len(queue[t])
        BY <1>6, <2>2
      <4>2. queue[t][i + 1] = Settled(t) + Held(t) + (i + 1)
        BY <4>1 DEF TellInv, InTurn
      <4> QED
        BY <4>1, <4>2, <2>1, <2>2, <1>7
    <3> QED
      BY <3>1, <3>2, <3>3, <1>7, <2>2 DEF TellInv, InTurn, Look
  <2>3. CASE t # topic
    <3>1. Held(t)' = 0
      BY <2>3, <1>3 DEF Held
    <3>2. queue'[t] = queue[t]
      BY <1>1, <2>3 DEF TellInv, TellTypes
    <3> QED
      BY <2>1, <3>1, <3>2, <1>3, <2>3 DEF TellInv, InTurn, Settled, Look
  <2> QED
    BY <2>2, <2>3
<1> QED
  BY <1>8, <1>9 DEF TellInv

\* Messages that a chat has shown, or that are lost, are numbers.
LEMMA NumbersGrow ==
  ASSUME NEW f \in [TopicSet -> SUBSET Nat], NEW t \in TopicSet, NEW n \in Nat
  PROVE  [f EXCEPT ![t] = @ \cup {n}] \in [TopicSet -> SUBSET Nat]
OBVIOUS

\* The message in hand is settled: it was shown, or it is lost.
LEMMA SettleInTurn ==
  ASSUME TellInv, hand # Nobody, hand' = Nobody, UNCHANGED <<queue, added>>,
         turn' \in DOMAIN Topics, stage' \in {"look", "dead"},
         \/ delivered' = [delivered EXCEPT ![Topic] = @ \cup {hand}] /\ UNCHANGED lost
         \/ lost' = [lost EXCEPT ![Topic] = @ \cup {hand}] /\ UNCHANGED delivered
  PROVE  TellInv'
<1>1. Topic \in TopicSet
  BY TopicIsOne DEF TellInv
<1>2. TellTypes'
  <2>1. /\ hand \in Nat /\ delivered \in [TopicSet -> SUBSET Nat] /\ lost \in [TopicSet -> SUBSET Nat]
    BY DEF TellInv, TellTypes
  <2>2. delivered' \in [TopicSet -> SUBSET Nat] /\ lost' \in [TopicSet -> SUBSET Nat]
    BY <1>1, <2>1, NumbersGrow
  <2>3. hand' \in Nat /\ (hand' # Nobody <=> stage' \in {"html", "plain", "back"})
    BY DEF Nobody
  <2>4. queue' \in [TopicSet -> Seq(Nat)] /\ added' \in [TopicSet -> Nat]
    BY DEF TellInv, TellTypes
  <2> QED
    BY <2>2, <2>3, <2>4 DEF TellTypes
<1>3. ASSUME NEW t \in TopicSet PROVE InTurn(t)'
  <2>1. Held(t)' = 0
    BY DEF Held
  <2>2. Len(queue[t]) \in Nat /\ added[t] \in Nat
    BY DEF TellInv, TellTypes
  <2>3. CASE t = Topic
    <3>1. Held(t) = 1 /\ hand = Settled(t) + 1 /\ Settled(t) \in Nat
      BY <2>3 DEF Held, TellInv, InTurn
    <3>2. Settled(t)' = Settled(t) + 1
      BY <2>1, <2>2, <3>1 DEF Settled
    <3>3. ASSUME NEW i \in 1 .. Len(queue'[t])
          PROVE  queue'[t][i] = Settled(t)' + i
      <4>1. queue[t][i] = Settled(t) + Held(t) + i
        BY DEF TellInv, InTurn
      <4> QED
        BY <4>1, <3>1, <3>2
    <3>4. /\ delivered'[t] \cup lost'[t] = delivered[t] \cup lost[t] \cup {hand}
          /\ delivered'[t] \subseteq delivered[t] \cup {hand}
      BY <2>3 DEF TellInv, TellTypes
    <3>5. 1 .. Settled(t)' \subseteq delivered'[t] \cup lost'[t]
      BY <3>1, <3>2, <3>4 DEF TellInv, InTurn
    <3>6. delivered'[t] \subseteq 1 .. Settled(t)' + 1
      <4>1. delivered[t] \subseteq 1 .. Settled(t) + 1
        BY DEF TellInv, InTurn
      <4> QED
        BY <4>1, <3>1, <3>2, <3>4
    <3> QED
      BY <2>1, <3>1, <3>2, <3>3, <3>5, <3>6 DEF InTurn
  <2>4. CASE t # Topic
    <3>1. Held(t) = 0 /\ delivered'[t] = delivered[t] /\ lost'[t] = lost[t]
      BY <2>4 DEF Held, TellInv, TellTypes
    <3> QED
      BY <2>1, <3>1 DEF TellInv, InTurn, Settled
  <2> QED
    BY <2>3, <2>4
<1> QED
  BY <1>2, <1>3 DEF TellInv

LEMMA NextTopicIsOne == ASSUME TellTypes, NextTopic PROVE turn' \in DOMAIN Topics
<1>1. turn \in Nat
  BY TopicsAssumption DEF TellTypes
<1> QED
  BY <1>1, TopicsGoRound DEF NextTopic

LEMMA SendInTurn ==
  ASSUME TellInv, NEW topic \in TopicSet, Send(topic)
  PROVE  TellInv'
<1>1. hand # Nobody
  BY DEF Send, TellInv, TellTypes
<1>2. turn' \in DOMAIN Topics
  BY NextTopicIsOne DEF Send, TellInv
<1> QED
  BY <1>1, <1>2, SettleInTurn DEF Send, Shown

LEMMA CrashInTurn == ASSUME TellInv, NotifierCrash PROVE TellInv'
<1>1. turn' \in DOMAIN Topics
  BY DEF NotifierCrash, TellInv, TellTypes
<1> QED
  BY <1>1, SettleInTurn DEF NotifierCrash

\* A call that failed may have shown the message; it stays in hand.
LEMMA SendFailsInTurn == ASSUME TellInv, SendFails PROVE TellInv'
<1>1. Topic \in TopicSet /\ hand # Nobody
  BY TopicIsOne DEF SendFails, TellInv, TellTypes
<1>2. TellTypes'
  <2>1. hand \in Nat /\ delivered \in [TopicSet -> SUBSET Nat]
    BY DEF TellInv, TellTypes
  <2>2. delivered' \in [TopicSet -> SUBSET Nat]
    BY <1>1, <2>1, NumbersGrow DEF SendFails, Shown
  <2>3. hand' # Nobody <=> stage' \in {"html", "plain", "back"}
    BY <1>1 DEF SendFails
  <2>4. UNCHANGED <<queue, added, turn, hand, lost>>
    BY DEF SendFails
  <2> QED
    BY <2>2, <2>3, <2>4 DEF TellInv, TellTypes
<1>3. ASSUME NEW t \in TopicSet PROVE InTurn(t)'
  <2>1. Settled(t)' = Settled(t) /\ Held(t)' = Held(t) /\ (Topic = t <=> (Topic = t)')
    BY DEF SendFails, Settled, Held, Topic
  <2>2. delivered'[t] \in {delivered[t], IF t = Topic THEN delivered[t] \cup {hand} ELSE delivered[t]}
    BY DEF SendFails, Shown, TellInv, TellTypes
  <2>3. delivered[t] \subseteq delivered'[t] /\ delivered'[t] \subseteq 1 .. Settled(t) + 1
    <3>1. CASE t = Topic
      <4>1. hand \in 1 .. Settled(t) + 1
        BY <1>1, <3>1 DEF TellInv, InTurn
      <4> QED
        BY <4>1, <3>1, <2>2 DEF TellInv, InTurn
    <3>2. CASE t # Topic
      BY <3>2, <2>2 DEF TellInv, InTurn
    <3> QED
      BY <3>1, <3>2
  <2> QED
    BY <2>1, <2>3 DEF TellInv, InTurn, SendFails
<1> QED
  BY <1>2, <1>3 DEF TellInv

\* What was put back is the next of its topic again.
LEMMA PutBackInTurn == ASSUME TellInv, PutBack PROVE TellInv'
<1>1. Topic \in TopicSet /\ hand # Nobody
  BY TopicIsOne DEF PutBack, TellInv, TellTypes
<1>2. TellTypes'
  <2>1. turn' \in DOMAIN Topics
    BY NextTopicIsOne DEF PutBack, TellInv
  <2>2. queue' \in [TopicSet -> Seq(Nat)]
    <3>1. <<hand>> \o queue[Topic] \in Seq(Nat)
      BY <1>1 DEF TellInv, TellTypes
    <3> QED
      BY <3>1, <1>1 DEF PutBack, TellInv, TellTypes
  <2> QED
    BY <2>1, <2>2 DEF PutBack, TellInv, TellTypes, Nobody
<1>3. ASSUME NEW t \in TopicSet PROVE InTurn(t)'
  <2>1. Held(t)' = 0
    BY DEF PutBack, Held
  <2>2. CASE t = Topic
    <3>1. Held(t) = 1 /\ hand = Settled(t) + 1 /\ Settled(t) \in Nat
      BY <1>1, <2>2 DEF Held, TellInv, InTurn
    <3>2. /\ queue[t] \in Seq(Nat) /\ added[t] \in Nat
          /\ queue'[t] = <<hand>> \o queue[t]
      BY <2>2 DEF PutBack, TellInv, TellTypes
    <3>3. /\ Len(queue[t]) \in Nat /\ Len(queue'[t]) = Len(queue[t]) + 1
          /\ queue'[t][1] = hand
          /\ \A i \in 1 .. Len(queue[t]) : queue'[t][i + 1] = queue[t][i]
      <4>1. hand \in Nat
        BY DEF TellInv, TellTypes
      <4> QED
        BY <3>2, <4>1
    <3>4. Settled(t)' = Settled(t)
      BY <2>1, <3>1, <3>2, <3>3 DEF Settled, PutBack
    <3>5. ASSUME NEW i \in 1 .. Len(queue'[t])
          PROVE  queue'[t][i] = Settled(t) + i
      <4>1. CASE i = 1
        BY <4>1, <3>1, <3>3
      <4>2. CASE i # 1
        <5>1. i - 1 \in 1 .. Len(queue[t]) /\ (i - 1) + 1 = i
          BY <4>2, <3>3
        <5>2. queue[t][i - 1] = Settled(t) + Held(t) + (i - 1)
          BY <5>1 DEF TellInv, InTurn
        <5> QED
          BY <5>1, <5>2, <3>1, <3>3
      <4> QED
        BY <4>1, <4>2
    <3> QED
      BY <2>1, <3>1, <3>4, <3>5 DEF TellInv, InTurn, PutBack
  <2>3. CASE t # Topic
    <3>1. Held(t) = 0 /\ queue'[t] = queue[t]
      BY <2>3 DEF Held, PutBack, TellInv, TellTypes
    <3> QED
      BY <2>1, <3>1 DEF TellInv, InTurn, Settled, PutBack
  <2> QED
    BY <2>2, <2>3
<1> QED
  BY <1>2, <1>3 DEF TellInv

\* The notifier begins with its first topic, and has nothing in hand.
LEMMA RestartInTurn == ASSUME TellInv, NotifierRestart PROVE TellInv'
<1>1. hand = Nobody /\ hand' = Nobody
  BY DEF NotifierRestart, TellInv, TellTypes
<1>2. 1 \in DOMAIN Topics
  BY TopicsAssumption
<1>3. TellTypes'
  BY <1>1, <1>2 DEF NotifierRestart, TellInv, TellTypes
<1>4. ASSUME NEW t \in TopicSet PROVE InTurn(t)'
  <2>1. Held(t) = 0 /\ Held(t)' = 0
    BY <1>1 DEF Held
  <2> QED
    BY <2>1, <1>1 DEF TellInv, InTurn, Settled, NotifierRestart
<1> QED
  BY <1>3, <1>4 DEF TellInv

LEMMA OthersTellNothing == ASSUME TellInv, UNCHANGED notifications PROVE TellInv'
<1>1. TellTypes'
  BY DEF TellInv, TellTypes, notifications
<1>2. ASSUME NEW t \in TopicSet PROVE InTurn(t)'
  <2>1. Held(t)' = Held(t) /\ (Topic = t <=> (Topic = t)')
    BY DEF Held, Topic, notifications
  <2> QED
    BY <2>1 DEF TellInv, InTurn, Settled, notifications
<1> QED
  BY <1>1, <1>2 DEF TellInv

LEMMA TellInvHolds == Spec => []TellInv
<1>1. Init => TellInv
  BY NobodyTold DEF Init
<1>2. TellInv /\ [Next]_vars => TellInv'
  <2> SUFFICES ASSUME TellInv, [Next]_vars PROVE TellInv'
    OBVIOUS
  <2>1. CASE UNCHANGED notifications
    BY <2>1, OthersTellNothing
  <2>2. CASE TellOfGap
    <3>1. AlarmTopic \in TopicSet
      BY MonitoringAssumption, TopicsAssumption DEF AlarmTopic, TopicSet
    <3> QED
      BY <2>2, <3>1, AddInTurn DEF TellOfGap
  <2>3. CASE Say
    BY <2>3, AddInTurn DEF Say
  <2>4. CASE Notify
    BY <2>4, LookInTurn, SendInTurn, SendFailsInTurn, PutBackInTurn, RestartInTurn
    DEF Notify, NotifierStep
  <2>5. CASE Kill
    BY <2>5, CrashInTurn, OthersTellNothing DEF Kill
  <2> QED
    BY <2>1, <2>2, <2>3, <2>4, <2>5
    DEF Next, Begin, Read, Store, StartBot, Restart, vars
<1> QED
  BY <1>1, <1>2, PTL DEF Spec

\* The notifier's topics, loop and recovery: whatever fails, and whoever is killed,
\* a chat shows the messages of its topic in order, and all that are not lost.
THEOREM ShownInOrder == Spec => []InOrder
<1>1. TellInv => InOrder
  <2> SUFFICES ASSUME TellInv, NEW t \in TopicSet, NEW m \in delivered[t]
               PROVE  1 .. m - 1 \subseteq delivered[t] \cup lost[t]
    BY DEF InOrder
  <2>1. /\ Settled(t) \in Nat
        /\ 1 .. Settled(t) \subseteq delivered[t] \cup lost[t]
        /\ m \in 1 .. Settled(t) + 1
    BY DEF TellInv, InTurn
  <2>2. 1 .. m - 1 \subseteq 1 .. Settled(t)
    BY <2>1
  <2> QED
    BY <2>1, <2>2
<1> QED
  BY <1>1, TellInvHolds, PTL

-----------------------------------------------------------------------------
(* Starting a bot. *)

LEMMA PairsOfEach ==
  /\ Pairs["BITTREX"] = BittrexPairs /\ Pairs["KRAKEN"] = KrakenPairs
  /\ Pairs["POLONIEX"] = PoloniexPairs /\ Pairs["BINANCE"] = BinancePairs
  /\ Pairs["HUOBI"] = HuobiPairs
BY DEF Pairs, Exchanges

LEMMA CurrenciesOfEach ==
  /\ Currencies["BITTREX"] = BittrexCurrencies /\ Currencies["KRAKEN"] = KrakenCurrencies
  /\ Currencies["POLONIEX"] = PoloniexCurrencies /\ Currencies["BINANCE"] = BinanceCurrencies
  /\ Currencies["HUOBI"] = HuobiCurrencies
BY DEF Currencies, Exchanges

\* Where Binance's lot is whole or has an entry it is no finer than Huobi's, but
\* for six pairs.
LEMMA BinanceIsCoarser ==
  ASSUME NEW p, p \in BinancePairs, p \in HuobiPairs, p \notin MisfitAtHuobi
  PROVE  BinanceDecimals(p) <= HuobiDecimals(p)
<1>1. CASE p[1] = "BTC"
  <2>1. p = <<"BTC", p[2]>> /\ p[2] \in BinanceCommon \cup {"ETH", "GAS"}
    BY <1>1 DEF BinancePairs
  <2>2. p[2] \in {"ADA", "BAT", "BCC", "BLZ", "BTG", "DASH", "ELA", "ELF", "ENG", "EOS", "ETC", "ETH", "HSR",
               "ICX", "LINK", "LSK", "LTC", "NAS", "NEO", "OMG", "ONT", "QSP", "QTUM", "RCN", "RDN",
               "REQ", "TRX", "VEN", "XEM", "XRP", "ZEC", "ZIL", "ZRX"}
    BY <1>1 DEF HuobiPairs
  <2> QED
    BY <1>1, <2>1, <2>2, SMTT(60) DEF BinanceDecimals, HuobiDecimals, Unrounded, MisfitAtHuobi, BinanceCommon
<1>2. CASE p[1] = "ETH"
  <2>1. p = <<"ETH", p[2]>> /\ p[2] \in BinanceCommon
    BY <1>2 DEF BinancePairs
  <2>2. p[2] \in {"ADA", "BAT", "BLZ", "ELA", "ELF", "ENG", "EOS", "HSR", "ICX", "LINK", "LSK", "NAS",
                      "OMG", "ONT", "QSP", "QTUM", "RCN", "RDN", "REQ", "TRX", "VEN", "ZIL"}
    BY <1>2 DEF HuobiPairs
  <2> QED
    BY <1>2, <2>1, <2>2, SMTT(60) DEF BinanceDecimals, HuobiDecimals, Unrounded, MisfitAtHuobi, BinanceCommon
<1>3. CASE p[1] = "USDT"
  <2>1. p = <<"USDT", p[2]>> /\ p[2] \in {"BCC", "BTC", "ETH", "LTC", "NEO"}
    BY <1>3 DEF BinancePairs
  <2>2. p[2] \in {"BCC", "NEO"}
    BY <2>1 DEF MisfitAtHuobi
  <2>3. CASE p[2] = "BCC"
    BY <2>1, <2>3 DEF BinanceDecimals, HuobiDecimals, Unrounded
  <2>4. CASE p[2] = "NEO"
    BY <2>1, <2>4 DEF BinanceDecimals, HuobiDecimals, Unrounded
  <2> QED
    BY <2>2, <2>3, <2>4
<1>4. p[1] \in {"BTC", "ETH", "USDT"}
  BY DEF BinancePairs
<1> QED
  BY <1>1, <1>2, <1>3, <1>4

\* No entry of a table has more decimals than a volume that is left alone.
LEMMA BinanceCuts ==
  ASSUME NEW p \in BinancePairs
  PROVE  BinanceDecimals(p) \in 0 .. Unrounded
<1>1. p[1] \in {"BTC", "ETH", "USDT"}
  BY DEF BinancePairs
<1>2. CASE p[1] = "BTC"
  BY <1>2 DEF BinanceDecimals, Unrounded
<1>3. CASE p[1] = "ETH"
  BY <1>3 DEF BinanceDecimals, Unrounded
<1>4. CASE p[1] = "USDT"
  BY <1>4 DEF BinanceDecimals, Unrounded
<1> QED
  BY <1>1, <1>2, <1>3, <1>4

LEMMA HuobiCuts == ASSUME NEW p PROVE HuobiDecimals(p) \in 0 .. Unrounded
BY DEF HuobiDecimals, Unrounded

\* The lot that both legs get suits each exchange.
LEMMA LotsSuit ==
  ASSUME NEW sell \in Exchanges, NEW buy \in Exchanges, sell # buy,
         NEW p, p \in Pairs[sell], p \in Pairs[buy],
         ~ ({sell, buy} = {"BINANCE", "HUOBI"} /\ p \in MisfitAtHuobi),
         NEW e \in {sell, buy}
  PROVE  DecimalsOfLegs(sell, buy, p) <= DecimalsAt(e, p)
<1>1. CASE "BINANCE" \in {sell, buy} /\ e = "HUOBI"
  <2>1. {sell, buy} = {"BINANCE", "HUOBI"}
    BY <1>1
  <2>2. p \in BinancePairs /\ p \in HuobiPairs /\ p \notin MisfitAtHuobi
    BY <2>1, PairsOfEach
  <2>3. DecimalsOfLegs(sell, buy, p) = BinanceDecimals(p)
    BY <1>1 DEF DecimalsOfLegs
  <2>4. DecimalsAt(e, p) = HuobiDecimals(p)
    BY <1>1 DEF DecimalsAt
  <2> QED
    BY <2>2, <2>3, <2>4, BinanceIsCoarser
<1>2. CASE e = "BINANCE"
  <2>1. DecimalsOfLegs(sell, buy, p) = BinanceDecimals(p)
    BY <1>2 DEF DecimalsOfLegs
  <2>2. DecimalsAt(e, p) = BinanceDecimals(p)
    BY <1>2 DEF DecimalsAt
  <2>3. p \in BinancePairs
    BY <1>2, PairsOfEach
  <2> QED
    BY <2>1, <2>2, <2>3, BinanceCuts DEF Unrounded
<1>3. CASE e = "HUOBI" /\ "BINANCE" \notin {sell, buy}
  <2>1. DecimalsOfLegs(sell, buy, p) = HuobiDecimals(p) /\ DecimalsAt(e, p) = HuobiDecimals(p)
    BY <1>3 DEF DecimalsOfLegs, DecimalsAt
  <2> QED
    BY <2>1, HuobiCuts DEF Unrounded
<1>4. CASE e \notin {"BINANCE", "HUOBI"}
  <2>1. DecimalsAt(e, p) = Unrounded
    BY <1>4 DEF DecimalsAt
  <2>2. CASE "BINANCE" \in {sell, buy}
    <3>1. p \in BinancePairs /\ DecimalsOfLegs(sell, buy, p) = BinanceDecimals(p)
      BY <2>2, PairsOfEach DEF DecimalsOfLegs
    <3> QED
      BY <2>1, <3>1, BinanceCuts DEF Unrounded
  <2>3. CASE "BINANCE" \notin {sell, buy} /\ "HUOBI" \in {sell, buy}
    BY <2>1, <2>3, HuobiCuts DEF DecimalsOfLegs, Unrounded
  <2>4. CASE "BINANCE" \notin {sell, buy} /\ "HUOBI" \notin {sell, buy}
    BY <2>1, <2>4 DEF DecimalsOfLegs, Unrounded
  <2> QED
    BY <2>2, <2>3, <2>4
<1> QED
  BY <1>1, <1>2, <1>3, <1>4

\* What is traded has a balance, but for a pair of Bittrex.
LEMMA BalancesHaveNames ==
  ASSUME NEW e \in Exchanges, NEW p \in Pairs[e], p # <<"BTC", "RDD">>
  PROVE  {p[1], p[2]} \subseteq Currencies[e]
<1>1. CASE e = "BITTREX"
  BY <1>1, PairsOfEach, CurrenciesOfEach DEF BittrexPairs, BittrexCurrencies
<1>2. CASE e = "KRAKEN"
  BY <1>2, PairsOfEach, CurrenciesOfEach DEF KrakenPairs, KrakenCurrencies
<1>3. CASE e = "POLONIEX"
  BY <1>3, PairsOfEach, CurrenciesOfEach DEF PoloniexPairs, PoloniexCurrencies
<1>4. CASE e = "BINANCE"
  BY <1>4, PairsOfEach, CurrenciesOfEach DEF BinancePairs, BinanceCurrencies, BinanceCommon
<1>5. CASE e = "HUOBI"
  BY <1>5, PairsOfEach, CurrenciesOfEach DEF HuobiPairs, HuobiCurrencies
<1> QED
  BY <1>1, <1>2, <1>3, <1>4, <1>5 DEF Exchanges

\* Only Huobi trades the pair that does not split, only Bittrex the one without a
\* balance, and only Kraken trades for USD.
LEMMA OddPairsAreAlone ==
  ASSUME NEW e \in Exchanges, NEW p \in Pairs[e]
  PROVE  /\ p = <<"USDT", "OMG">> => e = "HUOBI"
         /\ p = <<"BTC", "RDD">> => e = "BITTREX"
         /\ p[1] \notin {"BTC", "ETH", "USDT"} => e = "KRAKEN"
         /\ p = <<p[1], p[2]>>
<1>1. CASE e = "BITTREX"
  BY <1>1, PairsOfEach DEF BittrexPairs
<1>2. CASE e = "KRAKEN"
  BY <1>2, PairsOfEach DEF KrakenPairs
<1>3. CASE e = "POLONIEX"
  BY <1>3, PairsOfEach DEF PoloniexPairs
<1>4. CASE e = "BINANCE"
  BY <1>4, PairsOfEach DEF BinancePairs, BinanceCommon
<1>5. CASE e = "HUOBI"
  BY <1>5, PairsOfEach DEF HuobiPairs
<1> QED
  BY <1>1, <1>2, <1>3, <1>4, <1>5 DEF Exchanges

\* A pair that is traded at two exchanges is in every table.
LEMMA SharedPairs ==
  ASSUME NEW sell \in Exchanges, NEW buy \in Exchanges, sell # buy,
         NEW p, p \in Pairs[sell], p \in Pairs[buy]
  PROVE  /\ Splits(p)
         /\ SplitCurrencyPairs(p)[1] \in BaseCurrencies
         /\ \A e \in {sell, buy} : {p[1], p[2]} \subseteq Currencies[e]
<1>1. p # <<"USDT", "OMG">> /\ p # <<"BTC", "RDD">> /\ p[1] \in {"BTC", "ETH", "USDT"}
  BY OddPairsAreAlone
<1>2. p \in NamedPairs
  BY DEF NamedPairs, Traded
<1>3. Splits(p)
  BY <1>1, <1>2 DEF Splits
<1>4. SplitCurrencyPairs(p)[1] \in BaseCurrencies
  BY <1>1 DEF SplitCurrencyPairs, BaseCurrencies
<1> QED
  BY <1>1, <1>3, <1>4, BalancesHaveNames

\* What a bot goes through, and what it knows of its pair as soon as it has
\* passed the check of the names.
BotInv ==
  service = "bot" =>
    /\ legs \in Bots
    /\ pc \in {"begin", "exit", "ask", "cap", "decide", "trade", "dead"}
    /\ pc \notin {"begin", "exit"} => \A e \in Legs : Pair \in Pairs[e]

LEMMA BotLegs ==
  ASSUME legs \in Bots
  PROVE  Sell \in Exchanges /\ Buy \in Exchanges /\ Sell # Buy /\ Legs = {Sell, Buy}
BY DEF Bots, Sell, Buy, Legs

\* A step that stays with the checked pair.
LEMMA BotGoesOn ==
  ASSUME BotInv, UNCHANGED <<service, legs, listed>>,
         service = "bot" =>
           \/ pc' \in {"begin", "exit"}
           \/ pc \notin {"begin", "exit"} /\ pc' \in {"ask", "cap", "decide", "trade", "dead"}
           \/ pc' = pc
  PROVE  BotInv'
BY DEF BotInv, Legs, Sell, Buy, Pair

LEMMA BotSteps ==
  ASSUME BotInv,
         \/ BeginPass \/ AskBatch \/ Answered \/ AskPoloniex \/ AskBinance
         \/ Compare \/ AlarmsEnd \/ Decide \/ Copy \/ Copied \/ Insert \/ Commit
         \/ SaveAlarm \/ CheckNames \/ UpdateMinCap \/ Tell
         \/ ServiceCrash \/ ServiceRestart
  PROVE  BotInv'
<1>1. CASE BeginPass
  <2>1. service # "bot" /\ service' = service
    BY <1>1 DEF BeginPass, Request, Services
  <2> QED
    BY <2>1 DEF BotInv
<1>2. CASE AskBatch
  BY <1>2, BotGoesOn DEF AskBatch
<1>3. CASE Answered
  <2>1. service = "bot" => pc' \in {"cap", "decide"}
    BY <1>3 DEF Answered
  <2> QED
    BY <1>3, <2>1, BotGoesOn DEF Answered
<1>4. CASE AskPoloniex \/ AskBinance \/ Compare \/ AlarmsEnd \/ Copy \/ Insert \/ Commit \/ SaveAlarm \/ Tell
  <2>1. /\ pc \in {"poloniex", "binance", "compare", "alarms", "copy", "insert", "save"}
        /\ service' = service
    BY <1>4 DEF AskPoloniex, AskBinance, Compare, AlarmsEnd, Copy, Insert, Commit, SaveAlarm, Tell
  <2>2. service # "bot"
    BY <2>1 DEF BotInv
  <2> QED
    BY <2>1, <2>2 DEF BotInv
<1>5. CASE Copied
  <2>1. pc = "copied" /\ service' = service
    BY <1>5 DEF Copied, Request
  <2> QED
    BY <2>1 DEF BotInv
<1>6. CASE Decide
  BY <1>6, BotGoesOn DEF Decide
<1>7. CASE CheckNames
  <2>1. CASE pc' = "exit" /\ UNCHANGED <<service, legs, listed, kind, answers, tables, gaps>>
    BY <2>1, BotGoesOn
  <2>2. CASE ~ (\E e \in Legs : PairNameAt(e, Pair) = None)
    <3>1. \A e \in Legs : Pair \in Pairs[e]
      BY <2>2 DEF PairNameAt
    <3>2. pc' = "ask" /\ UNCHANGED <<service, legs, listed>>
      BY <1>7, <2>2 DEF CheckNames, Request
    <3> QED
      BY <3>1, <3>2 DEF BotInv, Legs, Sell, Buy, Pair
  <2> QED
    BY <1>7, <2>1, <2>2 DEF CheckNames
<1>8. CASE UpdateMinCap
  <2>1. CASE service # "bot"
    BY <1>8, <2>1 DEF UpdateMinCap, Request, BotInv
  <2>2. CASE service = "bot"
    <3>1. Splits(Pair) /\ SplitCurrencyPairs(Pair)[1] \in BaseCurrencies
      BY <1>8, <2>2, BotLegs, SharedPairs DEF UpdateMinCap, BotInv
    <3>2. pc' = "ask" /\ UNCHANGED <<service, legs, listed>>
      BY <1>8, <3>1 DEF UpdateMinCap, Request
    <3> QED
      BY <1>8, <3>2, BotGoesOn DEF UpdateMinCap
  <2> QED
    BY <2>1, <2>2
<1>9. CASE ServiceCrash
  BY <1>9 DEF ServiceCrash, Services, BotInv
<1>10. CASE ServiceRestart
  BY <1>10, BotGoesOn DEF ServiceRestart
<1> QED
  BY <1>1, <1>2, <1>3, <1>4, <1>5, <1>6, <1>7, <1>8, <1>9, <1>10

LEMMA OthersLeaveBots == ASSUME BotInv, UNCHANGED market PROVE BotInv'
BY DEF BotInv, market, Legs, Sell, Buy, Pair

LEMMA BotsStart == ASSUME Init PROVE BotInv
BY DEF Init, InitMarket, BotInv, Services

LEMMA BotInvHolds == Spec => []BotInv
<1>1. BotInv /\ [Next]_vars => BotInv'
  <2> SUFFICES ASSUME BotInv, [Next]_vars PROVE BotInv'
    OBVIOUS
  <2>1. CASE Begin
    BY <2>1, BotSteps DEF Begin
  <2>2. CASE Read
    BY <2>2, BotSteps DEF Read
  <2>3. CASE Store
    BY <2>3, BotSteps DEF Store
  <2>4. CASE StartBot
    BY <2>4, BotSteps DEF StartBot
  <2>5. CASE TellOfGap
    BY <2>5, BotSteps DEF TellOfGap
  <2>6. CASE Say
    BY <2>6, OthersLeaveBots DEF Say
  <2>7. CASE Notify
    BY <2>7, OthersLeaveBots DEF Notify
  <2>8. CASE Kill
    BY <2>8, BotSteps, OthersLeaveBots DEF Kill
  <2>9. CASE Restart
    BY <2>9, BotSteps DEF Restart
  <2>10. CASE UNCHANGED vars
    BY <2>10, OthersLeaveBots DEF vars
  <2> QED
    BY <2>1, <2>2, <2>3, <2>4, <2>5, <2>6, <2>7, <2>8, <2>9, <2>10 DEF Next
<1> QED
  BY <1>1, BotsStart, PTL DEF Spec

\* arbitrage_between_pair.py and update_min_cap: a bot that starts to ask for
\* prices never looks up a currency, a base or a balance that a table does not
\* have, whichever exchanges and pair of the tables it was started with.
THEOREM NoKeyErrors == Spec => []NeverAKeyError
<1>1. BotInv => NeverAKeyError
  <2> SUFFICES ASSUME BotInv, service = "bot", pc \notin {"begin", "exit"}
               PROVE  pc # "KeyError" /\ \A e \in Legs : {Pair[1], Pair[2]} \subseteq Currencies[e]
    BY DEF NeverAKeyError
  <2> QED
    BY BotLegs, SharedPairs DEF BotInv
<1> QED
  BY <1>1, BotInvHolds, PTL

\* round_volume_by_exchange_rules: whichever exchanges and pair a bot trades, the
\* volume of both legs has no more decimals than either exchange takes, but for
\* the six pairs at Binance and Huobi.
THEOREM VolumesFit == Spec => []LegsFit
<1>1. BotInv => LegsFit
  <2> SUFFICES ASSUME BotInv, service = "bot", pc = "trade",
                      ~ (Legs = {"BINANCE", "HUOBI"} /\ Pair \in MisfitAtHuobi),
                      NEW e \in Legs
               PROVE  DecimalsOfLegs(Sell, Buy, Pair) <= DecimalsAt(e, Pair)
    BY DEF LegsFit
  <2> QED
    BY BotLegs, LotsSuit DEF BotInv
<1> QED
  BY <1>1, BotInvHolds, PTL

-----------------------------------------------------------------------------
(* Sequences put together from others. *)

\* A set of numbers that has one has a least one.
LEMMA LeastNumber ==
  ASSUME NEW S, S \subseteq Nat, S # {}
  PROVE  \E n \in S : \A m \in S : n <= m
<1> DEFINE R == {x \in Nat \X Nat : x[1] < x[2]}
<1>1. IsWellFoundedOn(R, Nat)
  BY NatLessThanWellFounded DEF OpToRel
<1>2. PICK n \in S : \A m \in S : <<m, n>> \notin R
  <2> HIDE DEF R
  <2> QED
    BY <1>1, WFMin
<1>3. ASSUME NEW m \in S PROVE n <= m
  <2>1. m \in Nat /\ n \in Nat /\ <<m, n>> \in Nat \X Nat
    OBVIOUS
  <2>2. ~ (m < n)
    BY <1>2, <2>1
  <2> QED
    BY <2>1, <2>2
<1> QED
  BY <1>3

\* What holds of 0 and of the number behind each of which it holds, holds of all.
LEMMA NumbersInduction ==
  ASSUME NEW S, 0 \in S, \A n \in Nat \ {0} : n - 1 \in S => n \in S
  PROVE  Nat \subseteq S
<1> SUFFICES ASSUME NEW k \in Nat, k \notin S PROVE FALSE
  OBVIOUS
<1> DEFINE T == {n \in Nat : n \notin S}
<1>1. PICK n \in T : \A m \in T : n <= m
  <2>1. T \subseteq Nat /\ k \in T
    OBVIOUS
  <2> HIDE DEF T
  <2> QED
    BY <2>1, LeastNumber
<1>2. n \in Nat \ {0} /\ n - 1 \in Nat /\ ~ (n <= n - 1)
  OBVIOUS
<1>3. n - 1 \notin T
  BY <1>1, <1>2
<1> QED
  BY <1>2, <1>3

LEMMA ToSetConcat ==
  ASSUME NEW S, NEW s \in Seq(S), NEW u \in Seq(S)
  PROVE  s \o u \in Seq(S) /\ ToSet(s \o u) = ToSet(s) \cup ToSet(u)
<1>1. /\ Len(s) \in Nat /\ Len(u) \in Nat /\ DOMAIN s = 1 .. Len(s) /\ DOMAIN u = 1 .. Len(u)
      /\ s \o u \in Seq(S) /\ DOMAIN (s \o u) = 1 .. Len(s) + Len(u)
      /\ \A i \in 1 .. Len(s) + Len(u) :
           (s \o u)[i] = IF i <= Len(s) THEN s[i] ELSE u[i - Len(s)]
  OBVIOUS
<1> DEFINE w == s \o u
<1> HIDE DEF w
<1>2. ASSUME NEW x \in ToSet(s) PROVE x \in ToSet(w)
  <2>1. PICK i \in 1 .. Len(s) : x = s[i]
    BY <1>1 DEF ToSet
  <2>2. i \in DOMAIN w /\ w[i] = x
    BY <1>1, <2>1 DEF w
  <2> QED
    BY <2>2 DEF ToSet
<1>3. ASSUME NEW x \in ToSet(u) PROVE x \in ToSet(w)
  <2>1. PICK i \in 1 .. Len(u) : x = u[i]
    BY <1>1 DEF ToSet
  <2>2. Len(s) + i \in 1 .. Len(s) + Len(u) /\ ~ (Len(s) + i <= Len(s)) /\ (Len(s) + i) - Len(s) = i
    BY <1>1
  <2>3. Len(s) + i \in DOMAIN w /\ w[Len(s) + i] = x
    BY <1>1, <2>1, <2>2 DEF w
  <2> QED
    BY <2>3 DEF ToSet
<1>4. ASSUME NEW x \in ToSet(w) PROVE x \in ToSet(s) \cup ToSet(u)
  <2>1. PICK i \in 1 .. Len(s) + Len(u) : x = w[i]
    BY <1>1 DEF ToSet, w
  <2>2. CASE i <= Len(s)
    <3>1. i \in DOMAIN s /\ x = s[i]
      BY <1>1, <2>1, <2>2 DEF w
    <3> QED
      BY <3>1 DEF ToSet
  <2>3. CASE ~ (i <= Len(s))
    <3>1. i - Len(s) \in DOMAIN u /\ x = u[i - Len(s)]
      BY <1>1, <2>1, <2>3 DEF w
    <3> QED
      BY <3>1 DEF ToSet
  <2> QED
    BY <2>2, <2>3
<1> QED
  BY <1>1, <1>2, <1>3, <1>4 DEF w

\* The first i sequences, g being those of the ones before.
Joined(g, ss, i) == IF i = 1 THEN ss[i] ELSE g[i - 1] \o ss[i]

LEMMA JoinsExist ==
  ASSUME NEW ss
  PROVE  \A n \in Nat : \E g : g = [i \in 1 .. n |-> Joined(g, ss, i)]
<1> DEFINE S == {n \in Nat : \E g : g = [i \in 1 .. n |-> Joined(g, ss, i)]}
<1>1. 0 \in S
  <2> DEFINE g == [i \in 1 .. 0 |-> 0]
  <2>1. g = [i \in 1 .. 0 |-> Joined(g, ss, i)]
    OBVIOUS
  <2> HIDE DEF g
  <2> QED
    BY <2>1
<1>2. ASSUME NEW n \in Nat \ {0}, n - 1 \in S PROVE n \in S
  <2>1. PICK g : g = [i \in 1 .. n - 1 |-> Joined(g, ss, i)]
    BY <1>2
  <2> DEFINE h == [i \in 1 .. n |-> Joined(g, ss, i)]
  <2>2. ASSUME NEW i \in 1 .. n PROVE Joined(h, ss, i) = Joined(g, ss, i)
    <3>1. CASE i = 1
      BY <3>1 DEF Joined
    <3>2. CASE i # 1
      <4>1. i - 1 \in 1 .. n - 1 /\ i - 1 \in 1 .. n
        BY <3>2
      <4>2. h[i - 1] = Joined(g, ss, i - 1)
        BY <4>1
      <4> HIDE DEF h
      <4>3. g[i - 1] = Joined(g, ss, i - 1)
        BY <2>1, <4>1
      <4> QED
        BY <3>2, <4>2, <4>3 DEF Joined
    <3> QED
      BY <3>1, <3>2
  <2>3. h = [i \in 1 .. n |-> Joined(h, ss, i)]
    <3>1. h = [i \in 1 .. n |-> Joined(g, ss, i)]
      OBVIOUS
    <3> HIDE DEF h
    <3> QED
      BY <2>2, <3>1
  <2> HIDE DEF h
  <2> QED
    BY <2>3
<1>3. Nat \subseteq S
  <2> HIDE DEF S
  <2> QED
    BY <1>1, <1>2, NumbersInduction
<1> QED
  BY <1>3

LEMMA FlattenUnfolds ==
  ASSUME NEW ss, Len(ss) \in Nat \ {0}
  PROVE  \E f : /\ FlattenSeq(ss) = f[Len(ss)]
                /\ \A i \in 1 .. Len(ss) : f[i] = Joined(f, ss, i)
<1> DEFINE Body(flatten) == [i \in 1 .. Len(ss) |-> IF i = 1 THEN ss[i] ELSE flatten[i - 1] \o ss[i]]
           f == CHOOSE flatten : flatten = Body(flatten)
<1>1. FlattenSeq(ss) = f[Len(ss)]
  BY DEF FlattenSeq
<1>2. \A g : Body(g) = [i \in 1 .. Len(ss) |-> Joined(g, ss, i)]
  BY DEF Joined
<1> HIDE DEF Body
<1>3. \E g : g = Body(g)
  <2>1. PICK g : g = [i \in 1 .. Len(ss) |-> Joined(g, ss, i)]
    BY JoinsExist
  <2>2. g = Body(g)
    BY <1>2, <2>1
  <2> QED
    BY <2>2
<1>4. f = Body(f)
  BY <1>3
<1> HIDE DEF f
<1>5. \A i \in 1 .. Len(ss) : f[i] = Joined(f, ss, i)
  BY <1>2, <1>4
<1> QED
  BY <1>1, <1>5

\* FlattenSeq has what its sequences have, and nothing else.
LEMMA FlattenHas ==
  ASSUME NEW S, NEW ss \in Seq(Seq(S))
  PROVE  /\ FlattenSeq(ss) \in Seq(S)
         /\ \A x : x \in ToSet(FlattenSeq(ss)) <=> \E j \in DOMAIN ss : x \in ToSet(ss[j])
<1>1. Len(ss) \in Nat /\ DOMAIN ss = 1 .. Len(ss) /\ \A i \in 1 .. Len(ss) : ss[i] \in Seq(S)
  OBVIOUS
<1>2. CASE Len(ss) = 0
  <2>1. FlattenSeq(ss) = ss /\ ss = <<>> /\ DOMAIN ss = {}
    BY <1>1, <1>2 DEF FlattenSeq
  <2> QED
    BY <2>1 DEF ToSet
<1>3. CASE Len(ss) # 0
  <2>1. PICK f : /\ FlattenSeq(ss) = f[Len(ss)]
                 /\ \A i \in 1 .. Len(ss) : f[i] = Joined(f, ss, i)
    BY <1>1, <1>3, FlattenUnfolds
  <2> DEFINE T == {n \in Nat : n \in 1 .. Len(ss) =>
                     /\ f[n] \in Seq(S)
                     /\ \A x : x \in ToSet(f[n]) <=> \E j \in 1 .. n : x \in ToSet(ss[j])}
  <2>2. 0 \in T
    OBVIOUS
  <2>3. ASSUME NEW n \in Nat \ {0}, n - 1 \in T PROVE n \in T
    <3> SUFFICES ASSUME n \in 1 .. Len(ss)
                 PROVE  /\ f[n] \in Seq(S)
                        /\ \A x : x \in ToSet(f[n]) <=> \E j \in 1 .. n : x \in ToSet(ss[j])
      OBVIOUS
    <3>1. CASE n = 1
      <4>1. f[n] = ss[1] /\ 1 .. n = {1}
        BY <2>1, <3>1 DEF Joined
      <4> QED
        BY <1>1, <3>1, <4>1
    <3>2. CASE n # 1
      <4>1. n - 1 \in 1 .. Len(ss) /\ 1 .. n = (1 .. n - 1) \cup {n}
        BY <1>1, <3>2
      <4>2. f[n] = f[n - 1] \o ss[n]
        BY <2>1, <3>2 DEF Joined
      <4>3. /\ f[n - 1] \in Seq(S)
            /\ \A x : x \in ToSet(f[n - 1]) <=> \E j \in 1 .. n - 1 : x \in ToSet(ss[j])
        BY <2>3, <4>1
      <4>4. f[n] \in Seq(S) /\ ToSet(f[n]) = ToSet(f[n - 1]) \cup ToSet(ss[n])
        BY <1>1, <4>2, <4>3, ToSetConcat
      <4> QED
        BY <4>1, <4>3, <4>4
    <3> QED
      BY <3>1, <3>2
  <2>4. Nat \subseteq T
    <3> HIDE DEF T
    <3> QED
      BY <2>2, <2>3, NumbersInduction
  <2>5. Len(ss) \in T
    <3> HIDE DEF T
    <3> QED
      BY <1>1, <2>4
  <2>6. Len(ss) \in 1 .. Len(ss)
    BY <1>1, <1>3
  <2> QED
    BY <1>1, <2>1, <2>5, <2>6
<1> QED
  BY <1>2, <1>3

LEMMA FlattenShort ==
  /\ FlattenSeq(<<>>) = <<>>
  /\ \A a : FlattenSeq(<<a>>) = a
  /\ \A a, b : FlattenSeq(<<a, b>>) = a \o b
<1>1. FlattenSeq(<<>>) = <<>>
  BY DEF FlattenSeq
<1>2. ASSUME NEW a PROVE FlattenSeq(<<a>>) = a
  <2> DEFINE ss == <<a>>
  <2>1. Len(ss) = 1 /\ Len(ss) \in Nat \ {0} /\ ss[1] = a
    OBVIOUS
  <2> HIDE DEF ss
  <2>2. PICK f : FlattenSeq(ss) = f[Len(ss)] /\ \A i \in 1 .. Len(ss) : f[i] = Joined(f, ss, i)
    BY <2>1, FlattenUnfolds
  <2>3. f[1] = a
    BY <2>1, <2>2 DEF Joined
  <2> QED
    BY <2>1, <2>2, <2>3 DEF ss
<1>3. ASSUME NEW a, NEW b PROVE FlattenSeq(<<a, b>>) = a \o b
  <2> DEFINE ss == <<a, b>>
  <2>1. Len(ss) = 2 /\ Len(ss) \in Nat \ {0} /\ ss[1] = a /\ ss[2] = b
    OBVIOUS
  <2> HIDE DEF ss
  <2>2. PICK f : FlattenSeq(ss) = f[Len(ss)] /\ \A i \in 1 .. Len(ss) : f[i] = Joined(f, ss, i)
    BY <2>1, FlattenUnfolds
  <2>3. f[1] = a /\ f[2] = f[1] \o b
    BY <2>1, <2>2 DEF Joined
  <2> QED
    BY <2>1, <2>2, <2>3 DEF ss
<1> QED
  BY <1>1, <1>2, <1>3

LEMMA AmongHas ==
  ASSUME NEW S, NEW s \in Seq(S), NEW T
  PROVE  /\ Among(s, T) \in Seq(S)
         /\ ToSet(Among(s, T)) = ToSet(s) \cap T
<1> DEFINE ss == [i \in DOMAIN s |-> IF s[i] \in T THEN <<s[i]>> ELSE <<>>]
<1>1. DOMAIN s = 1 .. Len(s) /\ Len(s) \in Nat /\ \A i \in DOMAIN s : s[i] \in S
  OBVIOUS
<1>2. ASSUME NEW i \in DOMAIN s PROVE ss[i] \in Seq(S)
  BY <1>1
<1>3. ASSUME NEW i \in DOMAIN s, NEW x PROVE x \in ToSet(ss[i]) <=> x = s[i] /\ x \in T
  BY DEF ToSet
<1>4. ss \in Seq(Seq(S)) /\ DOMAIN ss = DOMAIN s
  <2>1. ss \in [1 .. Len(s) -> Seq(S)]
    BY <1>1, <1>2
  <2> QED
    BY <1>1, <2>1
<1>5. Among(s, T) = FlattenSeq(ss)
  BY DEF Among
<1> HIDE DEF ss
<1>6. /\ FlattenSeq(ss) \in Seq(S)
      /\ \A x : x \in ToSet(FlattenSeq(ss)) <=> \E j \in DOMAIN ss : x \in ToSet(ss[j])
  BY <1>4, FlattenHas
<1>7. ASSUME NEW x PROVE x \in ToSet(Among(s, T)) <=> x \in ToSet(s) \cap T
  <2>1. x \in ToSet(Among(s, T)) <=> \E j \in DOMAIN s : x \in ToSet(ss[j])
    BY <1>4, <1>5, <1>6
  <2>2. x \in ToSet(Among(s, T)) <=> \E j \in DOMAIN s : x = s[j] /\ x \in T
    BY <1>3, <2>1
  <2>3. x \in ToSet(s) <=> \E j \in DOMAIN s : x = s[j]
    BY DEF ToSet
  <2> QED
    BY <2>2, <2>3
<1> QED
  BY <1>5, <1>6, <1>7

-----------------------------------------------------------------------------
(* What becomes of an answer. *)

\* Each table leads from a pair to its name, and from there back to the pair.
LEMMA NamesLeadBack ==
  ASSUME NEW e \in Exchanges, NEW p
  PROVE  /\ PairNameAt(e, p) # None <=> p \in Pairs[e]
         /\ p \in Pairs[e] => PairFrom(e, PairNameAt(e, p)) = p
<1>1. PairNameAt(e, p) # None <=> p \in Pairs[e]
  BY NamesAssumption DEF PairNameAt
<1>2. ASSUME p \in Pairs[e] PROVE PairFrom(e, PairNameAt(e, p)) = p
  <2> DEFINE name == PairNameAt(e, p)
             called == {q \in Pairs[e] : IF e = "KRAKEN" THEN name \in KrakenAliases(q)
                                                         ELSE name = PairNameAt(e, q)}
  <2>1. \A q \in called : q = p
    <3>1. CASE e = "KRAKEN"
      <4>1. Pairs[e] = KrakenPairs /\ name = KrakenPairName(p)
        BY <1>2, <3>1, PairsOfEach DEF PairNameAt
      <4> QED
        BY <1>2, <3>1, <4>1, NamesAssumption
    <3>2. CASE e # "KRAKEN"
      BY <1>2, <3>2, NamesAssumption
    <3> QED
      BY <3>1, <3>2
  <2>2. p \in called
    <3>1. CASE e = "KRAKEN"
      <4>1. name = KrakenPairName(p)
        BY <1>2, <3>1 DEF PairNameAt
      <4>2. name \in KrakenAliases(p)
        BY <4>1 DEF KrakenAliases
      <4> QED
        BY <1>2, <3>1, <4>2
    <3>2. CASE e # "KRAKEN"
      BY <1>2, <3>2
    <3> QED
      BY <3>1, <3>2
  <2>3. PairFrom(e, name) = IF called = {} THEN NoPair ELSE CHOOSE q \in called : TRUE
    BY DEF PairFrom
  <2> HIDE DEF called, name
  <2>4. PairFrom(e, name) = p
    BY <2>1, <2>2, <2>3
  <2> QED
    BY <2>4 DEF name
<1> QED
  BY <1>1, <1>2

\* The requests for the pairs of a list.
UnitsOf(k, ps) ==
  {WorkUnit(x[1], x[2]) :
     x \in {y \in Exchanges \X ToSet(ps) :
              y[2] \in Pairs[y[1]] /\ (k \in {"candle", "history"} => y[1] # "KRAKEN")}}

\* The row of an answer, where the code files it.
RowOf(k, u, quote) ==
  [kind |-> k,
   exchange |-> IF k = "history" /\ u.exchange = "HUOBI" THEN "BINANCE" ELSE u.exchange,
   pair |-> u.pair, quote |-> quote, of |-> <<u.exchange, u.pair>>]

RowsOf(k, ps) == {RowOf(k, x[1], x[2]) : x \in UnitsOf(k, ps) \X (Quotes \cup {NoQuote})}

LEMMA UnitFacts ==
  ASSUME NEW k, NEW ps, NEW u \in UnitsOf(k, ps)
  PROVE  /\ u.exchange \in Exchanges /\ u.pair \in ToSet(ps) /\ u.pair \in Pairs[u.exchange]
         /\ k \in {"candle", "history"} => u.exchange # "KRAKEN"
         /\ u = WorkUnit(u.exchange, u.pair)
         /\ PairFrom(u.exchange, u.name) = u.pair
<1>1. PICK e \in Exchanges, p \in ToSet(ps) :
        /\ u = WorkUnit(e, p) /\ p \in Pairs[e]
        /\ k \in {"candle", "history"} => e # "KRAKEN"
  BY DEF UnitsOf
<1>2. u.exchange = e /\ u.pair = p /\ u.name = PairNameAt(e, p)
  BY <1>1 DEF WorkUnit
<1> QED
  BY <1>1, <1>2, NamesLeadBack

LEMMA UnitIs ==
  ASSUME NEW k, NEW ps, NEW e \in Exchanges, NEW p \in ToSet(ps), p \in Pairs[e],
         k \in {"candle", "history"} => e # "KRAKEN"
  PROVE  WorkUnit(e, p) \in UnitsOf(k, ps)
<1> DEFINE x == <<e, p>>
<1>1. x \in Exchanges \X ToSet(ps) /\ x[1] = e /\ x[2] = p
  OBVIOUS
<1> HIDE DEF x
<1> QED
  BY <1>1 DEF UnitsOf

LEMMA PairsAreThere == ASSUME NEW e \in Exchanges PROVE NoPair \notin Pairs[e]
BY PairsOfEach DEF Exchanges, NoPair, BittrexPairs, KrakenPairs, PoloniexPairs, BinancePairs, HuobiPairs

\* An object knows the market that was asked for.
LEMMA FiledRight ==
  ASSUME NEW k, NEW ps, NEW u \in UnitsOf(k, ps), NEW record
  PROVE  /\ Candle(u, record) = RowOf("candle", u, record.quote)
         /\ TradeHistory(u, record) = RowOf("history", u, record.quote)
         /\ Ticker(u, record) = RowOf("ticker", u, record.quote)
         /\ OrderBook(u, record) = RowOf("book", u, record.quote)
<1>1. PairFrom(u.exchange, u.name) = u.pair /\ u.pair # NoPair
  BY UnitFacts, PairsAreThere
<1> QED
  BY <1>1 DEF Candle, TradeHistory, Ticker, OrderBook, Filed, RowOf

-----------------------------------------------------------------------------
(* The processors. *)

\* A document that has nothing, and one that has a record.
Fails(d) ==
  /\ d.records = <<>> /\ d.holds \in {"absent", "null", "unusable"}
  /\ d = Document(d.error, d.holds, d.records)
Tells(k, d, r) ==
  /\ d = Document(FALSE, "records", <<r>>)
  /\ r.quote \in Quotes \cup {NoQuote} /\ r.blank \in BOOLEAN
  /\ k = "book" => ~ r.blank

LEMMA DocumentShapes ==
  ASSUME NEW k \in Types, NEW e, NEW d \in Documents(k, e) \cup {Unusable}
  PROVE  /\ Fails(d) \/ \E r : Tells(k, d, r)
         /\ d # Unusable => d.holds # "unusable"
<1> DEFINE Full == Blanks(k, e) \cup {Record(q) : q \in IF k = "ticker" THEN Quotes ELSE {NoQuote}}
<1>1. CASE d = Unusable
  BY <1>1 DEF Unusable, Document, Fails
<1>2. ASSUME NEW error \in BOOLEAN, NEW holds \in {"absent", "null"}, d = Document(error, holds, <<>>)
      PROVE  Fails(d) /\ d.holds # "unusable"
  BY <1>2 DEF Document, Fails
<1>3. ASSUME NEW r \in Full, d = Document(FALSE, "records", <<r>>)
      PROVE  Tells(k, d, r) /\ d.holds # "unusable"
  <2>1. CASE r \in Blanks(k, e)
    <3>1. r = Blank /\ k # "book"
      BY <2>1 DEF Blanks
    <3>2. r.quote = NoQuote /\ r.blank = TRUE
      BY <3>1 DEF Blank
    <3> QED
      BY <1>3, <3>1, <3>2 DEF Document, Tells
  <2>2. CASE r \in {Record(q) : q \in IF k = "ticker" THEN Quotes ELSE {NoQuote}}
    <3>1. PICK q \in Quotes \cup {NoQuote} : r = Record(q)
      BY <2>2
    <3>2. r.quote = q /\ r.blank = FALSE
      BY <3>1 DEF Record
    <3> QED
      BY <1>3, <3>2 DEF Document, Tells
  <2> QED
    BY <2>1, <2>2
<1> DEFINE Hollow == {Document(error, holds, <<>>) : error \in BOOLEAN, holds \in {"absent", "null"}}
           Whole == {Document(FALSE, "records", <<r>>) : r \in Full}
<1>4. Documents(k, e) = Hollow \cup Whole
  BY DEF Documents
<1>5. CASE d \in Hollow
  <2>1. PICK error \in BOOLEAN, holds \in {"absent", "null"} : d = Document(error, holds, <<>>)
    BY <1>5
  <2> QED
    BY <1>2, <2>1
<1>6. CASE d \in Whole
  <2> HIDE DEF Full
  <2>1. PICK r \in Full : d = Document(FALSE, "records", <<r>>)
    BY <1>6
  <2> QED
    BY <1>3, <2>1
<1> HIDE DEF Full, Hollow, Whole
<1> QED
  BY <1>1, <1>4, <1>5, <1>6

LEMMA TellsFields ==
  ASSUME NEW k, NEW d, NEW r, Tells(k, d, r)
  PROVE  d.error = FALSE /\ d.holds = "records" /\ d.records = <<r>>
BY DEF Tells, Document

\* The objects of the one record there is, and none of a document that has nothing.
LEMMA AllOfOne ==
  ASSUME NEW u, NEW d, NEW r, d.holds = "records", d.records = <<r>>
  PROVE  /\ All(Candle, u, d) = <<Candle(u, r)>>
         /\ All(TradeHistory, u, d) = <<TradeHistory(u, r)>>
         /\ All(Ticker, u, d) = <<Ticker(u, r)>>
         /\ All(OrderBook, u, d) = <<OrderBook(u, r)>>
<1>1. DOMAIN d.records = {1} /\ d.records[1] = r
  OBVIOUS
<1>2. ASSUME NEW g, g = [i \in {1} |-> g[1]] PROVE g = <<g[1]>>
  BY <1>2
<1> QED
  BY <1>1, <1>2 DEF All, Each

LEMMA AllOfNothing ==
  ASSUME NEW u, NEW d, Fails(d)
  PROVE  /\ All(Candle, u, d) = Unparsed /\ All(TradeHistory, u, d) = Unparsed
         /\ All(Ticker, u, d) = Unparsed /\ All(OrderBook, u, d) = Unparsed
BY DEF All, Fails

\* What _process_futures makes of one answer.
Became(k, u, d, res) ==
  \/ k \in {"candle", "history"} /\ res = <<>>
  \/ res = <<ErrorString>> /\ (k = "ticker" => ~ Has(d))
  \/ \E r : Tells(k, d, r) /\ res = <<RowOf(k, u, r.quote)>>

LEMMA CandlesBecome ==
  ASSUME NEW ps, NEW u \in UnitsOf("candle", ps), NEW d,
         Fails(d) \/ \E r : Tells("candle", d, r)
  PROVE  Became("candle", u, d, CandlesOf(u, d))
<1>1. u.exchange \in {"POLONIEX", "BITTREX", "BINANCE", "HUOBI"}
  BY UnitFacts DEF Exchanges
<1>2. CASE Fails(d)
  <2> DEFINE none == [d EXCEPT !.records = Among(@, {r \in ToSet(@) : ~ r.blank})]
  <2>1. All(Candle, u, none) = Unparsed
    BY <1>2 DEF All, Fails
  <2>2. CandlesOf(u, d) \in {<<>>, Unparsed}
    BY <1>1, <1>2, <2>1, AllOfNothing
    DEF CandlesOf, CandlesPoloniex, CandlesBittrex, CandlesBinance, CandlesHuobi
  <2> QED
    BY <2>2 DEF Became, Unparsed
<1>3. ASSUME NEW r, Tells("candle", d, r) PROVE Became("candle", u, d, CandlesOf(u, d))
  <2>1. Candle(u, r) = RowOf("candle", u, r.quote)
    BY FiledRight
  <2>2. All(Candle, u, d) = <<Candle(u, r)>>
    <3>1. d.holds = "records" /\ d.records = <<r>>
      BY <1>3, TellsFields
    <3> QED
      BY <3>1, AllOfOne, Zenon
  <2>3. CASE u.exchange # "POLONIEX"
    <3>1. CandlesOf(u, d) \in {<<>>, <<Candle(u, r)>>}
      BY <1>1, <1>3, <2>2, <2>3, TellsFields DEF CandlesOf, CandlesBittrex, CandlesBinance, CandlesHuobi
    <3> QED
      BY <1>3, <2>1, <3>1 DEF Became
  <2>4. CASE u.exchange = "POLONIEX"
    <3> DEFINE of == Among(d.records, {x \in ToSet(d.records) : ~ x.blank})
               e == [d EXCEPT !.records = of]
    <3>1. of = FlattenSeq(<<IF ~ r.blank THEN <<r>> ELSE <<>> >>)
      <4>1. d.records = <<r>> /\ DOMAIN <<r>> = {1} /\ <<r>>[1] = r /\ ToSet(<<r>>) = {r}
        <5>1. d.records = <<r>>
          BY <1>3, TellsFields
        <5>2. DOMAIN <<r>> = {1} /\ <<r>>[1] = r
          OBVIOUS
        <5> QED
          BY <5>1, <5>2 DEF ToSet
      <4>2. ASSUME NEW x PROVE [i \in {1} |-> x] = <<x>>
        OBVIOUS
      <4>3. of = FlattenSeq([i \in {1} |-> IF ~ r.blank THEN <<r>> ELSE <<>>])
        BY <4>1 DEF Among
      <4> QED
        BY <4>2, <4>3
    <3>2. of = IF ~ r.blank THEN <<r>> ELSE <<>>
      BY <3>1, FlattenShort
    <3> HIDE DEF of
    <3>3. CandlesOf(u, d) = IF d.error THEN <<>> ELSE All(Candle, u, e)
      BY <2>4 DEF CandlesOf, CandlesPoloniex, PoloniexError, of
    <3>4. e.holds = "records" /\ e.records = of
      BY <1>3 DEF Tells, Document
    <3> HIDE DEF e
    <3>5. CASE r.blank
      <4>1. All(Candle, u, e) = <<>>
        BY <3>2, <3>4, <3>5 DEF All, Each
      <4> QED
        BY <3>3, <4>1 DEF Became, e
    <3>6. CASE ~ r.blank
      <4>1. All(Candle, u, e) = <<Candle(u, r)>>
        <5>1. e.holds = "records" /\ e.records = <<r>>
          BY <3>2, <3>4, <3>6
        <5> QED
          BY <5>1, AllOfOne, Zenon
      <4>2. CandlesOf(u, d) \in {<<>>, <<Candle(u, r)>>}
        BY <3>3, <4>1 DEF e
      <4> QED
        BY <1>3, <2>1, <4>2 DEF Became
    <3> QED
      BY <3>5, <3>6
  <2> QED
    BY <2>3, <2>4
<1> QED
  BY <1>2, <1>3

LEMMA HistoriesBecome ==
  ASSUME NEW ps, NEW u \in UnitsOf("history", ps), NEW d,
         Fails(d) \/ \E r : Tells("history", d, r)
  PROVE  Became("history", u, d, HistoryOf(u, d))
<1>1. u.exchange \in {"POLONIEX", "BITTREX", "BINANCE", "HUOBI"}
  BY UnitFacts DEF Exchanges
<1>2. CASE Fails(d)
  <2>1. HistoryOf(u, d) \in {<<>>, Unparsed}
    BY <1>1, <1>2, AllOfNothing
    DEF HistoryOf, HistoryPoloniex, HistoryBittrex, HistoryBinance, HistoryHuobi
  <2> QED
    BY <2>1 DEF Became, Unparsed
<1>3. ASSUME NEW r, Tells("history", d, r) PROVE Became("history", u, d, HistoryOf(u, d))
  <2>1. TradeHistory(u, r) = RowOf("history", u, r.quote)
    BY FiledRight
  <2>2. All(TradeHistory, u, d) = <<TradeHistory(u, r)>>
    <3>1. d.holds = "records" /\ d.records = <<r>>
      BY <1>3, TellsFields
    <3> QED
      BY <3>1, AllOfOne, Zenon
  <2>3. HistoryOf(u, d) \in {<<>>, <<TradeHistory(u, r)>>}
    BY <1>1, <2>2 DEF HistoryOf, HistoryPoloniex, HistoryBittrex, HistoryBinance, HistoryHuobi
  <2> QED
    BY <1>3, <2>1, <2>3 DEF Became
<1> QED
  BY <1>2, <1>3

LEMMA TickersBecome ==
  ASSUME NEW ps, NEW u \in UnitsOf("ticker", ps), NEW d,
         Fails(d) \/ \E r : Tells("ticker", d, r)
  PROVE  Became("ticker", u, d, TickersOf(u, d))
<1>1. u.exchange \in {"POLONIEX", "KRAKEN", "BITTREX", "BINANCE", "HUOBI"}
  BY UnitFacts DEF Exchanges
<1>2. CASE Fails(d)
  <2>1. TickersOf(u, d) = Unparsed
    BY <1>1, <1>2, AllOfNothing
    DEF TickersOf, TickerPoloniex, TickerKraken, TickerBittrex, TickerBinance, TickerHuobi
  <2>2. ~ Has(d)
    BY <1>2 DEF Fails, Has
  <2> QED
    BY <2>1, <2>2 DEF Became, Unparsed
<1>3. ASSUME NEW r, Tells("ticker", d, r) PROVE Became("ticker", u, d, TickersOf(u, d))
  <2>1. Ticker(u, r) = RowOf("ticker", u, r.quote)
    BY FiledRight
  <2>2. All(Ticker, u, d) = <<Ticker(u, r)>>
    <3>1. d.holds = "records" /\ d.records = <<r>>
      BY <1>3, TellsFields
    <3> QED
      BY <3>1, AllOfOne, Zenon
  <2>3. Blank \in {d.records[i] : i \in DOMAIN d.records} <=> r = Blank
    <3>1. d.records = <<r>>
      BY <1>3, TellsFields
    <3>2. DOMAIN <<r>> = {1} /\ <<r>>[1] = r
      OBVIOUS
    <3> QED
      BY <3>1, <3>2
  <2>4. CASE r = Blank
    <3>1. ~ Has(d)
      <4>1. d.records = <<r>>
        BY <1>3, TellsFields
      <4>2. <<r>>[1] = r
        OBVIOUS
      <4>3. r.blank = TRUE
        BY <2>4 DEF Blank
      <4> QED
        BY <4>1, <4>2, <4>3 DEF Has
    <3>2. TickersOf(u, d) \in {Unparsed, <<Ticker(u, r)>>}
      BY <1>1, <2>2
      DEF TickersOf, TickerPoloniex, TickerKraken, TickerBittrex, TickerBinance, TickerHuobi
    <3> QED
      BY <1>3, <2>1, <3>1, <3>2 DEF Became, Unparsed
  <2>5. CASE r # Blank
    <3>1. TickersOf(u, d) = <<Ticker(u, r)>>
      BY <1>1, <1>3, <2>2, <2>3, <2>5, TellsFields
      DEF TickersOf, TickerPoloniex, TickerKraken, TickerBittrex, TickerBinance, TickerHuobi,
          PoloniexError, KrakenError, BittrexError, BinanceError, HuobiError
    <3> QED
      BY <1>3, <2>1, <3>1 DEF Became
  <2> QED
    BY <2>4, <2>5
<1> QED
  BY <1>2, <1>3

LEMMA BooksBecome ==
  ASSUME NEW ps, NEW u \in UnitsOf("book", ps), NEW d,
         Fails(d) \/ \E r : Tells("book", d, r)
  PROVE  Became("book", u, d, BooksOf(u, d))
<1>1. u.exchange \in {"POLONIEX", "KRAKEN", "BITTREX", "BINANCE", "HUOBI"}
  BY UnitFacts DEF Exchanges
<1>2. CASE Fails(d)
  <2>1. BooksOf(u, d) = Unparsed
    BY <1>1, <1>2, AllOfNothing
    DEF BooksOf, BookPoloniex, BookKraken, BookBittrex, BookBinance, BookHuobi
  <2> QED
    BY <2>1 DEF Became, Unparsed
<1>3. ASSUME NEW r, Tells("book", d, r) PROVE Became("book", u, d, BooksOf(u, d))
  <2>1. OrderBook(u, r) = RowOf("book", u, r.quote)
    BY FiledRight
  <2>2. All(OrderBook, u, d) = <<OrderBook(u, r)>>
    <3>1. d.holds = "records" /\ d.records = <<r>>
      BY <1>3, TellsFields
    <3> QED
      BY <3>1, AllOfOne, Zenon
  <2>3. BooksOf(u, d) \in {Unparsed, <<OrderBook(u, r)>>}
    BY <1>1, <2>2
    DEF BooksOf, BookPoloniex, BookKraken, BookBittrex, BookBinance, BookHuobi
  <2> QED
    BY <1>3, <2>1, <2>3 DEF Became, Unparsed
<1> QED
  BY <1>2, <1>3

LEMMA ProcessedBecomes ==
  ASSUME NEW k \in Types, NEW ps, NEW u \in UnitsOf(k, ps),
         NEW d \in Documents(k, u.exchange) \cup {Unusable}
  PROVE  Became(k, u, d, Processed(k, u, d))
<1>1. Fails(d) \/ \E r : Tells(k, d, r)
  BY DocumentShapes
<1>2. CASE d = Unusable
  <2>1. Processed(k, u, d) = <<ErrorString>>
    BY <1>2 DEF Processed, Unparsed
  <2>2. ~ Has(d)
    BY <1>2 DEF Unusable, Document, Has
  <2> QED
    BY <2>1, <2>2 DEF Became
<1>3. CASE d # Unusable
  <2>1. CASE k = "candle"
    BY <1>1, <1>3, <2>1, CandlesBecome DEF Processed
  <2>2. CASE k = "history"
    BY <1>1, <1>3, <2>2, HistoriesBecome DEF Processed
  <2>3. CASE k = "ticker"
    BY <1>1, <1>3, <2>3, TickersBecome DEF Processed
  <2>4. CASE k = "book"
    BY <1>1, <1>3, <2>4, BooksBecome DEF Processed
  <2> QED
    BY <2>1, <2>2, <2>3, <2>4 DEF Types
<1> QED
  BY <1>2, <1>3


-----------------------------------------------------------------------------
(* The messages that a chat has shown or that are lost were pushed. *)

ToldInv ==
  /\ stage \in {"look", "html", "plain", "back", "dead"}
  /\ \A t \in TopicSet : delivered[t] \cup lost[t] \subseteq 1 .. added[t]

LEMMA HandIsKnown ==
  ASSUME TellInv, hand # Nobody
  PROVE  Topic \in TopicSet /\ hand \in 1 .. added[Topic]
<1>1. Topic \in TopicSet
  BY TopicIsOne DEF TellInv
<1>2. InTurn(Topic) /\ TellTypes
  BY <1>1 DEF TellInv
<1>3. /\ hand = Settled(Topic) + 1 /\ Settled(Topic) \in Nat
      /\ Settled(Topic) = added[Topic] - Len(queue[Topic]) - 1
  BY <1>2 DEF InTurn, Settled, Held
<1>4. Len(queue[Topic]) \in Nat /\ added[Topic] \in Nat
  BY <1>1, <1>2 DEF TellTypes
<1> QED
  BY <1>1, <1>3, <1>4

LEMMA ToldSteps ==
  ASSUME TellInv, ToldInv,
         \/ \E t \in TopicSet : AddMessage(t) \/ Send(t)
         \/ Look \/ SendFails \/ PutBack \/ NotifierCrash \/ NotifierRestart
         \/ UNCHANGED notifications
  PROVE  ToldInv'
<1>1. TellTypes
  BY DEF TellInv
<1>2. stage' \in {"look", "html", "plain", "back", "dead"}
  BY DEF ToldInv, AddMessage, Send, Look, SendFails, PutBack, NotifierCrash, NotifierRestart, notifications
<1>3. CASE \E t \in TopicSet : AddMessage(t)
  <2>1. PICK topic \in TopicSet : AddMessage(topic)
    BY <1>3
  <2>2. ASSUME NEW t \in TopicSet PROVE added[t] \in Nat /\ added'[t] \in {added[t], added[t] + 1}
    BY <1>1, <2>1 DEF AddMessage, TellTypes
  <2>3. ASSUME NEW t \in TopicSet PROVE delivered'[t] \cup lost'[t] \subseteq 1 .. added'[t]
    <3>1. delivered'[t] \cup lost'[t] \subseteq 1 .. added[t]
      BY <2>1 DEF AddMessage, ToldInv
    <3> QED
      BY <2>2, <3>1
  <2> QED
    BY <1>2, <2>3 DEF ToldInv
<1>4. CASE Look \/ PutBack \/ NotifierRestart \/ UNCHANGED notifications
  <2>1. UNCHANGED <<added, delivered, lost>>
    BY <1>4 DEF Look, PutBack, NotifierRestart, notifications
  <2> QED
    BY <1>2, <2>1 DEF ToldInv
<1>5. CASE (\E t \in TopicSet : Send(t)) \/ SendFails \/ NotifierCrash
  <2>1. hand # Nobody /\ UNCHANGED added
    BY <1>1, <1>5 DEF Send, SendFails, NotifierCrash, TellTypes
  <2>2. ASSUME NEW t \in TopicSet
        PROVE  delivered'[t] \cup lost'[t] \subseteq delivered[t] \cup lost[t] \cup (IF t = Topic THEN {hand} ELSE {})
    BY <1>1, <1>5 DEF Send, SendFails, NotifierCrash, Shown, TellTypes
  <2>3. Topic \in TopicSet /\ hand \in 1 .. added[Topic]
    BY <2>1, HandIsKnown
  <2> QED
    BY <1>2, <2>1, <2>2, <2>3 DEF ToldInv
<1> QED
  BY <1>3, <1>4, <1>5

LEMMA ToldTypes == ASSUME TellInv, ToldInv PROVE NotificationsTypeOK
<1>1. ASSUME NEW t \in TopicSet PROVE queue[t] \in Seq(Nat \ {0})
  <2>1. queue[t] \in Seq(Nat) /\ InTurn(t)
    BY DEF TellInv, TellTypes
  <2>2. Held(t) \in Nat /\ Settled(t) \in Nat
    BY <2>1 DEF Held, InTurn
  <2>3. \A i \in 1 .. Len(queue[t]) : queue[t][i] \in Nat \ {0}
    <3> TAKE i \in 1 .. Len(queue[t])
    <3>1. queue[t][i] = Settled(t) + Held(t) + i /\ i \in Nat \ {0}
      BY <2>1 DEF InTurn
    <3> QED
      BY <2>2, <3>1
  <2> QED
    BY <2>1, <2>3
<1>2. queue \in [TopicSet -> Seq(Nat \ {0})]
  BY <1>1 DEF TellInv, TellTypes
<1> QED
  BY <1>2 DEF TellInv, TellTypes, ToldInv, NotificationsTypeOK

-----------------------------------------------------------------------------
(* Gaps. *)

LEMMA QuotientAtLeast ==
  ASSUME NEW x \in Int, NEW n \in Nat \ {0}, NEW k \in Int, k * n <= x
  PROVE  x \div n \in Int /\ k <= x \div n
<1> DEFINE q == x \div n
<1>1. q \in Int /\ x < q * n + n
  OBVIOUS
<1> HIDE DEF q
<1>2. CASE q < k
  <2>1. q + 1 <= k
    BY <1>1, <1>2
  <2>2. (q + 1) * n <= k * n
    BY <1>1, <2>1
  <2>3. (q + 1) * n = q * n + n
    BY <1>1
  <2> QED
    BY <1>1, <2>2, <2>3
<1> QED
  BY <1>1, <1>2 DEF q

\* get_change, though it cuts, does not cut a gap off, nor does it take for one
\* what is none.
LEMMA GapIsReal ==
  ASSUME NEW a \in Nat, NEW b \in Nat
  PROVE  /\ a > 0 /\ b > 0 /\ 200000 * (a - b) >= Threshold * (a + b) => GetChange(a, b) >= Threshold
         /\ GetChange(a, b) >= Threshold => a > b
<1>1. PICK k \in Int : Threshold = 10 * k /\ k > 10
  BY MarketAssumption
<1>2. ASSUME a > 0, b > 0, 200000 * (a - b) >= Threshold * (a + b) PROVE GetChange(a, b) >= Threshold
  <2>1. a + b \in Nat \ {0} /\ a - b \in Int
    BY <1>2
  <2>2. Threshold * (a + b) = 10 * (k * (a + b))
    BY <1>1, <2>1
  <2>3. k * (a + b) \in Int /\ 10 * (a + b) < k * (a + b)
    BY <1>1, <2>1
  <2>4. k * (a + b) <= 20000 * (a - b)
    BY <1>2, <2>1, <2>2, <2>3
  <2>5. (20000 * (a - b)) \div (a + b) \in Int /\ k <= (20000 * (a - b)) \div (a + b)
    BY <2>1, <2>4, QuotientAtLeast
  <2>6. 2000 * (a - b) > a + b
    BY <2>1, <2>3, <2>4
  <2>7. GetChange(a, b) = 10 * ((20000 * (a - b)) \div (a + b))
    BY <2>6 DEF GetChange
  <2> QED
    BY <1>1, <2>5, <2>7
<1>3. ASSUME GetChange(a, b) >= Threshold PROVE a > b
  <2>1. 2000 * (a - b) > a + b
    BY <1>1, <1>3 DEF GetChange
  <2> QED
    BY <2>1
<1> QED
  BY <1>2, <1>3

\* A sequence made of at most one element at each place.
LEMMA FlattenMaps ==
  ASSUME NEW S, NEW n \in Nat, NEW ss, DOMAIN ss = 1 .. n, ss = [i \in 1 .. n |-> ss[i]],
         \A i \in 1 .. n : ss[i] \in Seq(S)
  PROVE  /\ FlattenSeq(ss) \in Seq(S)
         /\ \A x : x \in ToSet(FlattenSeq(ss)) <=> \E j \in 1 .. n : x \in ToSet(ss[j])
<1>1. ss \in Seq(Seq(S))
  <2>1. ss \in [1 .. n -> Seq(S)]
    OBVIOUS
  <2> QED
    BY <2>1
<1> QED
  BY <1>1, FlattenHas

LEMMA ToSetOfOne == ASSUME NEW x PROVE ToSet(<<x>>) = {x} /\ ToSet(<<>>) = {}
<1>1. DOMAIN <<x>> = {1} /\ <<x>>[1] = x /\ DOMAIN <<>> = {}
  OBVIOUS
<1> QED
  BY <1>1 DEF ToSet

LEMMA ToSetInSeq ==
  ASSUME NEW S, NEW s \in Seq(S)
  PROVE  /\ ToSet(s) \subseteq S
         /\ s \in Seq(ToSet(s))
         /\ DOMAIN s = 1 .. Len(s) /\ Len(s) \in Nat
         /\ \A x : x \in ToSet(s) <=> \E i \in DOMAIN s : x = s[i]
<1>1. DOMAIN s = 1 .. Len(s) /\ Len(s) \in Nat /\ \A i \in DOMAIN s : s[i] \in S
  OBVIOUS
<1>2. \A i \in DOMAIN s : s[i] \in ToSet(s)
  BY DEF ToSet
<1>3. \A x : x \in ToSet(s) <=> \E i \in DOMAIN s : x = s[i]
  BY DEF ToSet
<1>4. s \in Seq(ToSet(s))
  BY <1>1, <1>2
<1> QED
  BY <1>1, <1>3, <1>4

LEMMA BulkHas ==
  ASSUME listed \in Seq(ValuePairs), NEW e \in Exchanges
  PROVE  Bulk(e) \in Seq(ToSet(listed) \cap Pairs[e])
<1> DEFINE once == {i \in DOMAIN listed : \A j \in 1 .. i - 1 : listed[j] # listed[i]}
           ss == [i \in DOMAIN listed |->
                    IF i \in once /\ listed[i] \in PolledPairs(e) THEN <<listed[i]>> ELSE <<>>]
           S == ToSet(listed) \cap Pairs[e]
<1>1. DOMAIN listed = 1 .. Len(listed) /\ Len(listed) \in Nat /\ \A i \in DOMAIN listed : listed[i] \in ToSet(listed)
  BY ToSetInSeq
<1>2. PolledPairs(e) \subseteq Pairs[e]
  BY DEF PolledPairs
<1>3. \A i \in DOMAIN listed : ss[i] \in Seq(S)
  <2> HIDE DEF once
  <2> TAKE i \in DOMAIN listed
  <2>1. CASE i \in once /\ listed[i] \in PolledPairs(e)
    <3>1. listed[i] \in S
      BY <1>1, <1>2, <2>1
    <3> HIDE DEF S
    <3> QED
      BY <2>1, <3>1
  <2>2. CASE ~ (i \in once /\ listed[i] \in PolledPairs(e))
    BY <2>2
  <2> QED
    BY <2>1, <2>2
<1>4. Bulk(e) = FlattenSeq(ss)
  BY DEF Bulk
<1>5. DOMAIN ss = 1 .. Len(listed) /\ ss = [i \in 1 .. Len(listed) |-> ss[i]]
  BY <1>1
<1> HIDE DEF ss, S
<1> QED
  BY <1>1, <1>3, <1>4, <1>5, FlattenMaps DEF S

\* check_all_combinations_list has the gaps between any two of its tickers.
LEMMA GapsHave ==
  ASSUME NEW S, NEW tickers \in Seq(S),
         NEW G, \A a, b \in ToSet(tickers) : Gap(a, b) => [first |-> a, second |-> b] \in G
  PROVE  /\ GapsOf(tickers) \in Seq(G)
         /\ \A x : x \in ToSet(GapsOf(tickers)) <=>
                     \E i, j \in DOMAIN tickers :
                       /\ i # j /\ Gap(tickers[i], tickers[j])
                       /\ x = [first |-> tickers[i], second |-> tickers[j]]
<1> DEFINE n == Len(tickers)
           Compared(i, j) ==
             IF <<i, j>> \in Permutations2(Len(tickers)) /\ Gap(tickers[i], tickers[j])
               THEN <<[first |-> tickers[i], second |-> tickers[j]]>> ELSE <<>>
           Row1(i) == [j \in DOMAIN tickers |-> Compared(i, j)]
           ss == [i \in DOMAIN tickers |-> FlattenSeq(Row1(i))]
<1>1. DOMAIN tickers = 1 .. n /\ n \in Nat /\ \A i \in DOMAIN tickers : tickers[i] \in ToSet(tickers)
  BY ToSetInSeq
<1>2. \A i, j \in 1 .. n : <<i, j>> \in Permutations2(Len(tickers)) <=> i # j
  BY DEF Permutations2
<1>3. ASSUME NEW i \in 1 .. n, NEW j \in 1 .. n
      PROVE  /\ Compared(i, j) \in Seq(G)
             /\ \A x : x \in ToSet(Compared(i, j)) <=>
                         /\ i # j /\ Gap(tickers[i], tickers[j])
                         /\ x = [first |-> tickers[i], second |-> tickers[j]]
  <2> DEFINE g == [first |-> tickers[i], second |-> tickers[j]]
  <2>1. CASE i # j /\ Gap(tickers[i], tickers[j])
    <3>1. Compared(i, j) = <<g>>
      BY <1>2, <2>1
    <3>2. g \in G
      BY <1>1, <2>1
    <3> HIDE DEF g, Compared
    <3>3. <<g>> \in Seq(G)
      BY <3>2
    <3>4. ToSet(<<g>>) = {g}
      BY ToSetOfOne
    <3> QED
      BY <2>1, <3>1, <3>3, <3>4 DEF g
  <2>2. CASE ~ (i # j /\ Gap(tickers[i], tickers[j]))
    <3>1. Compared(i, j) = <<>>
      BY <1>2, <2>2
    <3> HIDE DEF Compared
    <3>2. ToSet(<<>>) = {}
      BY ToSetOfOne
    <3>3. <<>> \in Seq(G)
      OBVIOUS
    <3> QED
      BY <2>2, <3>1, <3>2, <3>3
  <2> QED
    BY <2>1, <2>2
<1>4. GapsOf(tickers) = FlattenSeq(ss)
  BY DEF GapsOf
<1>5. ASSUME NEW i \in 1 .. n
      PROVE  /\ FlattenSeq(Row1(i)) \in Seq(G)
             /\ \A x : x \in ToSet(FlattenSeq(Row1(i))) <=> \E j \in 1 .. n : x \in ToSet(Compared(i, j))
  <2> HIDE DEF Compared
  <2> DEFINE r == Row1(i)
  <2>1. DOMAIN r = 1 .. n /\ r = [j \in 1 .. n |-> r[j]] /\ \A j \in 1 .. n : r[j] = Compared(i, j)
    BY <1>1
  <2>2. FlattenSeq(Row1(i)) = FlattenSeq(r) /\ n \in Nat
    BY <1>1
  <2> HIDE DEF r, Row1, n
  <2>3. \A j \in 1 .. n : r[j] \in Seq(G)
    BY <1>3, <2>1
  <2>4. /\ FlattenSeq(r) \in Seq(G)
        /\ \A x : x \in ToSet(FlattenSeq(r)) <=> \E j \in 1 .. n : x \in ToSet(r[j])
    BY <2>1, <2>2, <2>3, FlattenMaps
  <2> QED
    BY <2>1, <2>2, <2>4
<1> HIDE DEF Compared, Row1
<1>6. DOMAIN ss = 1 .. n /\ ss = [i \in 1 .. n |-> ss[i]] /\ \A i \in 1 .. n : ss[i] = FlattenSeq(Row1(i))
  BY <1>1
<1> HIDE DEF ss, n
<1>7. /\ FlattenSeq(ss) \in Seq(G)
      /\ \A x : x \in ToSet(FlattenSeq(ss)) <=> \E i \in 1 .. n : x \in ToSet(ss[i])
  <2>1. \A i \in 1 .. n : ss[i] \in Seq(G)
    BY <1>5, <1>6
  <2> QED
    BY <1>1, <1>6, <2>1, FlattenMaps
<1>8. \A x : x \in ToSet(FlattenSeq(ss)) <=> \E i \in 1 .. n : \E j \in 1 .. n : x \in ToSet(Compared(i, j))
  BY <1>5, <1>6, <1>7
<1>9. ASSUME NEW x
      PROVE  x \in ToSet(FlattenSeq(ss)) <=>
               \E i, j \in DOMAIN tickers :
                 /\ i # j /\ Gap(tickers[i], tickers[j])
                 /\ x = [first |-> tickers[i], second |-> tickers[j]]
  <2> DEFINE Is(i, j) == /\ i # j /\ Gap(tickers[i], tickers[j])
                         /\ x = [first |-> tickers[i], second |-> tickers[j]]
  <2>1. \A i, j \in 1 .. n : x \in ToSet(Compared(i, j)) <=> Is(i, j)
    BY <1>3
  <2> HIDE DEF Is
  <2>2. x \in ToSet(FlattenSeq(ss)) <=> \E i, j \in 1 .. n : Is(i, j)
    BY <1>8, <2>1
  <2>3. x \in ToSet(FlattenSeq(ss)) <=> \E i, j \in DOMAIN tickers : Is(i, j)
    BY <1>1, <2>2
  <2> QED
    BY <2>3 DEF Is
<1> QED
  BY <1>4, <1>7, <1>9

\* compare_price has the gaps between any two tickers of one listed pair.
LEMMA ComparedAll ==
  ASSUME listed \in Seq(ValuePairs), NEW S, NEW tickers \in Seq(S), NEW G,
         \A a, b \in ToSet(tickers) : a.pair = b.pair /\ Gap(a, b) => [first |-> a, second |-> b] \in G
  PROVE  /\ ComparePrice(tickers) \in Seq(G)
         /\ \A a, b \in ToSet(tickers) :
              a # b /\ a.pair = b.pair /\ a.pair \in ToSet(listed) /\ Gap(a, b) =>
                [first |-> a, second |-> b] \in ToSet(ComparePrice(tickers))
<1> DEFINE n == Len(listed)
           Of(i) == Among(tickers, {t \in ToSet(tickers) : t.pair = listed[i]})
           ss == [i \in DOMAIN listed |-> GapsOf(Of(i))]
<1>1. /\ DOMAIN listed = 1 .. n /\ n \in Nat
      /\ \A p : p \in ToSet(listed) <=> \E i \in 1 .. n : p = listed[i]
  <2>1. DOMAIN listed = 1 .. n /\ n \in Nat
    BY ToSetInSeq
  <2>2. \A p : p \in ToSet(listed) <=> \E i \in DOMAIN listed : p = listed[i]
    BY ToSetInSeq
  <2> HIDE DEF n
  <2> QED
    BY <2>1, <2>2
<1>2. ASSUME NEW i \in 1 .. n
      PROVE  /\ Of(i) \in Seq(S)
             /\ ToSet(Of(i)) = {t \in ToSet(tickers) : t.pair = listed[i]}
  <2> DEFINE T == {t \in ToSet(tickers) : t.pair = listed[i]}
  <2>1. ToSet(tickers) \cap T = T
    OBVIOUS
  <2> HIDE DEF T
  <2>2. Among(tickers, T) \in Seq(S) /\ ToSet(Among(tickers, T)) = ToSet(tickers) \cap T
    BY AmongHas
  <2> QED
    BY <2>1, <2>2 DEF T
<1>3. ComparePrice(tickers) = FlattenSeq(ss)
  BY DEF ComparePrice
<1>4. DOMAIN ss = 1 .. n /\ ss = [i \in 1 .. n |-> ss[i]] /\ \A i \in 1 .. n : ss[i] = GapsOf(Of(i))
  BY <1>1
<1> HIDE DEF ss, Of, n
<1>5. ASSUME NEW i \in 1 .. n
      PROVE  /\ ss[i] \in Seq(G)
             /\ \A x : x \in ToSet(ss[i]) <=>
                         \E k, j \in DOMAIN Of(i) :
                           /\ k # j /\ Gap(Of(i)[k], Of(i)[j])
                           /\ x = [first |-> Of(i)[k], second |-> Of(i)[j]]
  <2>1. \A a, b \in ToSet(Of(i)) : Gap(a, b) => [first |-> a, second |-> b] \in G
    BY <1>2
  <2> QED
    BY <1>2, <1>4, <2>1, GapsHave
<1>6. /\ FlattenSeq(ss) \in Seq(G)
      /\ \A x : x \in ToSet(FlattenSeq(ss)) <=> \E i \in 1 .. n : x \in ToSet(ss[i])
  <2>1. \A i \in 1 .. n : ss[i] \in Seq(G)
    BY <1>5
  <2> QED
    BY <1>1, <1>4, <2>1, FlattenMaps
<1>7. ASSUME NEW a \in ToSet(tickers), NEW b \in ToSet(tickers),
             a # b, a.pair = b.pair, a.pair \in ToSet(listed), Gap(a, b)
      PROVE  [first |-> a, second |-> b] \in ToSet(FlattenSeq(ss))
  <2>1. PICK i \in 1 .. n : a.pair = listed[i]
    BY <1>1, <1>7
  <2>2. a \in ToSet(Of(i)) /\ b \in ToSet(Of(i))
    BY <1>2, <1>7, <2>1
  <2>3. PICK k \in DOMAIN Of(i), j \in DOMAIN Of(i) : a = Of(i)[k] /\ b = Of(i)[j]
    BY <2>2 DEF ToSet
  <2>4. [first |-> a, second |-> b] \in ToSet(ss[i])
    BY <1>5, <1>7, <2>3
  <2> QED
    BY <1>6, <2>4
<1> QED
  BY <1>3, <1>6, <1>7

\* get_<kind>_speedup asks for listed pairs, at exchanges that know them.
LEMMA WorkUnitsAre ==
  ASSUME NEW k \in Types, NEW ps \in Seq(ValuePairs)
  PROVE  WorkUnits(k, ps) \in Seq(UnitsOf(k, ps))
<1> DEFINE U == UnitsOf(k, ps)
           At(e) == [j \in DOMAIN Known(e, ps) |-> WorkUnit(e, Known(e, ps)[j])]
           ss == [i \in DOMAIN Asked(k) |-> At(Asked(k)[i])]
<1>1. PICK n \in Nat :
        /\ DOMAIN Asked(k) = 1 .. n
        /\ \A i \in 1 .. n : Asked(k)[i] \in Exchanges
        /\ k \in {"candle", "history"} => \A i \in 1 .. n : Asked(k)[i] # "KRAKEN"
  <2>1. CASE k = "ticker"
    <3>1. Asked(k) = <<"BITTREX", "KRAKEN", "HUOBI">>
      BY <2>1 DEF Asked
    <3>2. DOMAIN Asked(k) = 1 .. 3
      BY <3>1
    <3>3. \A i \in 1 .. 3 : Asked(k)[i] \in Exchanges
      BY <3>1 DEF Exchanges
    <3> QED
      BY <2>1, <3>2, <3>3
  <2>2. CASE k \in {"candle", "history"}
    <3>1. Asked(k) = <<"POLONIEX", "BITTREX", "BINANCE", "HUOBI">>
      BY <2>2 DEF Asked
    <3>2. DOMAIN Asked(k) = 1 .. 4
      BY <3>1
    <3>3. \A i \in 1 .. 4 : Asked(k)[i] \in Exchanges /\ Asked(k)[i] # "KRAKEN"
      BY <3>1 DEF Exchanges
    <3> QED
      BY <2>2, <3>2, <3>3
  <2>3. CASE k = "book"
    <3>1. Asked(k) = <<"POLONIEX", "KRAKEN", "BITTREX", "BINANCE", "HUOBI">>
      BY <2>3 DEF Asked
    <3>2. DOMAIN Asked(k) = 1 .. 5
      BY <3>1
    <3>3. \A i \in 1 .. 5 : Asked(k)[i] \in Exchanges
      BY <3>1 DEF Exchanges
    <3> QED
      BY <2>3, <3>2, <3>3
  <2> QED
    BY <2>1, <2>2, <2>3 DEF Types
<1>2. ASSUME NEW e \in Exchanges, k \in {"candle", "history"} => e # "KRAKEN"
      PROVE  At(e) \in Seq(U)
  <2> DEFINE named == {p \in ToSet(ps) : PairNameAt(e, p) # None}
             known == Known(e, ps)
  <2>1. known = Among(ps, named)
    BY DEF Known
  <2> HIDE DEF named, known
  <2>2. known \in Seq(ValuePairs) /\ ToSet(known) = ToSet(ps) \cap named
    BY <2>1, AmongHas
  <2>3. DOMAIN known = 1 .. Len(known) /\ Len(known) \in Nat /\ \A j \in DOMAIN known : known[j] \in ToSet(known)
    BY <2>2, ToSetInSeq
  <2>4. ASSUME NEW j \in DOMAIN known PROVE WorkUnit(e, known[j]) \in U
    <3>1. known[j] \in ToSet(ps) /\ PairNameAt(e, known[j]) # None
      BY <2>2, <2>3 DEF named
    <3>2. known[j] \in Pairs[e]
      BY <3>1, NamesLeadBack
    <3> QED
      BY <1>2, <3>1, <3>2, UnitIs
  <2> HIDE DEF U
  <2>5. [j \in DOMAIN known |-> WorkUnit(e, known[j])] \in [1 .. Len(known) -> U]
    BY <2>3, <2>4
  <2>6. At(e) = [j \in DOMAIN known |-> WorkUnit(e, known[j])]
    BY DEF known
  <2> HIDE DEF At
  <2> QED
    BY <2>3, <2>5, <2>6
<1>3. WorkUnits(k, ps) = FlattenSeq(ss)
  BY DEF WorkUnits
<1> HIDE DEF At, U
<1>4. DOMAIN ss = 1 .. n /\ ss = [i \in 1 .. n |-> ss[i]] /\ \A i \in 1 .. n : ss[i] = At(Asked(k)[i])
  BY <1>1
<1> HIDE DEF ss
<1>5. \A i \in 1 .. n : ss[i] \in Seq(U)
  BY <1>1, <1>2, <1>4
<1>6. FlattenSeq(ss) \in Seq(U)
  BY <1>4, <1>5, FlattenMaps
<1> QED
  BY <1>3, <1>6 DEF U

-----------------------------------------------------------------------------
(* What a process has in hand. *)

AnswerOf(k, ps) == RowsOf(k, ps) \cup {ErrorString}

\* Two tickers of one pair between which there is a gap.
TickerGaps(ps) ==
  {g \in [first : RowsOf("ticker", ps), second : RowsOf("ticker", ps)] :
     g.first.pair = g.second.pair /\ Gap(g.first, g.second)}

Telling == {"alarms", "save", "insert"}

\* What is asked, answered and told of is about the listed pairs; a transaction
\* fails only where alarms are stored and what comes after them.
MarketInv ==
  /\ service \in Services \cup {"bot"}
  /\ legs \in Bots \cup {<<>>}
  /\ service = "bot" => legs \in Bots /\ listed \in {<<p>> : p \in NamedPairs}
  /\ listed \in Seq(ValuePairs)
  /\ kind \in Types
  /\ pc \in {"poloniex", "binance", "compare"} => kind = "ticker"
  /\ pc = "cap" => service = "bot"
  /\ todo \in Seq(UnitsOf(kind, listed))
  /\ results \in Seq(AnswerOf(kind, listed))
  /\ found \in Seq(TickerGaps(listed))
  /\ told \subseteq TickerGaps(listed)
  /\ alarms \subseteq told
  /\ pc = "save" => found # <<>> /\ Head(found) \in told
  /\ aborted \in BOOLEAN
  /\ aborted => pc \in Telling

LEMMA MarketStarts == ASSUME Init PROVE MarketInv
<1>1. service = "bot" => legs \in Bots /\ listed \in {<<p>> : p \in NamedPairs}
  BY DEF Init, InitMarket, Services
<1>2. listed \in Seq(ValuePairs)
  <2>1. CASE listed \in Lists
    BY <2>1, MarketAssumption
  <2>2. CASE listed \in {<<p>> : p \in NamedPairs}
    <3>1. PICK p \in NamedPairs : listed = <<p>>
      BY <2>2
    <3>2. p \in ValuePairs
      BY DEF ValuePairs
    <3> QED
      BY <3>1, <3>2
  <2> QED
    BY <2>1, <2>2 DEF Init, InitMarket
<1>3. kind \in Types /\ service \in Services \cup {"bot"} /\ legs \in Bots \cup {<<>>}
  BY DEF Init, InitMarket, Types
<1>4. /\ pc = "begin" /\ todo = <<>> /\ results = <<>> /\ found = <<>> /\ told = {} /\ alarms = {}
      /\ aborted = FALSE
  BY DEF Init, InitMarket
<1>5. \A S : <<>> \in Seq(S)
  OBVIOUS
<1> QED
  BY <1>1, <1>2, <1>3, <1>4, <1>5 DEF MarketInv

\* A round of requests.
LEMMA RequestKeeps ==
  ASSUME MarketInv, NEW k \in Types, NEW units \in Seq(UnitsOf(k, listed)),
         Request(k, units, "ask"), pc \notin Telling
  PROVE  MarketInv'
BY DEF Request, MarketInv, Telling

\* Answers, and going on to other requests.
LEMMA AnswersKeep ==
  ASSUME MarketInv, UNCHANGED <<service, legs, listed, kind, tables, gaps>>,
         pc \notin Telling, pc' \notin {"save", "cap"},
         pc' \in {"poloniex", "binance", "compare"} => kind = "ticker",
         todo' \in Seq(UnitsOf(kind, listed)), results' \in Seq(AnswerOf(kind, listed))
  PROVE  MarketInv'
BY DEF MarketInv, Telling, tables, gaps

LEMMA ConcatIn ==
  ASSUME NEW S, NEW s \in Seq(S), NEW u \in Seq(S)
  PROVE  s \o u \in Seq(S)
OBVIOUS

\* A batch and what is left are requests too.
LEMMA BatchIs ==
  ASSUME NEW S, NEW units \in Seq(S), units # <<>>
  PROVE  /\ Batch(units) \in Seq(S)
         /\ Len(Batch(units)) \in 1 .. Len(units)
         /\ DOMAIN Batch(units) = 1 .. Len(Batch(units))
         /\ \A i \in DOMAIN Batch(units) : Batch(units)[i] = units[i] /\ units[i] \in S
         /\ SubSeq(units, Len(Batch(units)) + 1, Len(units)) \in Seq(S)
<1> DEFINE n == IF Len(units) < PoolSize THEN Len(units) ELSE PoolSize
<1>1. PoolSize \in Nat \ {0} /\ Len(units) \in Nat \ {0} /\ \A i \in 1 .. Len(units) : units[i] \in S
  BY MarketAssumption
<1>2. n \in 1 .. Len(units)
  BY <1>1
<1>3. Batch(units) = SubSeq(units, 1, n)
  BY DEF Batch
<1> HIDE DEF n
<1>4. /\ SubSeq(units, 1, n) \in Seq(S)
      /\ Len(SubSeq(units, 1, n)) = n
      /\ \A i \in 1 .. n : SubSeq(units, 1, n)[i] = units[i]
  <2>1. 1 \in Int /\ n \in Int /\ 1 <= n /\ n - 1 + 1 = n
    BY <1>1, <1>2
  <2>2. \A i \in 1 .. n : units[i] \in S
    BY <1>1, <1>2
  <2>3. /\ SubSeq(units, 1, n) \in Seq(S)
        /\ Len(SubSeq(units, 1, n)) = IF 1 <= n THEN n - 1 + 1 ELSE 0
        /\ \A i \in 1 .. n - 1 + 1 : SubSeq(units, 1, n)[i] = units[1 + i - 1]
    BY <2>1, <2>2, SubSeqProperties
  <2>4. \A i \in 1 .. n : 1 + i - 1 = i
    BY <2>1
  <2> QED
    BY <2>1, <2>3, <2>4
<1>5. SubSeq(units, n + 1, Len(units)) \in Seq(S)
  <2>1. n + 1 \in Int /\ Len(units) \in Int /\ \A i \in n + 1 .. Len(units) : units[i] \in S
    BY <1>1, <1>2
  <2> QED
    BY <2>1, SubSeqProperties
<1>6. DOMAIN SubSeq(units, 1, n) = 1 .. n
  <2> DEFINE b == SubSeq(units, 1, n)
  <2>1. b \in Seq(S) /\ Len(b) = n
    BY <1>4
  <2> HIDE DEF b
  <2>2. DOMAIN b = 1 .. n
    BY <2>1
  <2> QED
    BY <2>2 DEF b
<1> QED
  BY <1>1, <1>2, <1>3, <1>4, <1>5, <1>6

\* What becomes of a document is a row of its request, or a string.
LEMMA BecameAnswers ==
  ASSUME NEW k, NEW ps, NEW u \in UnitsOf(k, ps), NEW d, NEW res, Became(k, u, d, res)
  PROVE  res \in Seq(AnswerOf(k, ps))
<1> DEFINE S == AnswerOf(k, ps)
<1>1. CASE res = <<>>
  BY <1>1
<1>2. CASE res = <<ErrorString>>
  <2>1. ErrorString \in S
    BY DEF AnswerOf
  <2> HIDE DEF S
  <2>2. <<ErrorString>> \in Seq(S)
    BY <2>1
  <2> QED
    BY <1>2, <2>2 DEF S
<1>3. CASE \E r : Tells(k, d, r) /\ res = <<RowOf(k, u, r.quote)>>
  <2>1. PICK r : Tells(k, d, r) /\ res = <<RowOf(k, u, r.quote)>>
    BY <1>3
  <2> DEFINE x == <<u, r.quote>>
             row == RowOf(k, u, r.quote)
  <2>2. x \in UnitsOf(k, ps) \X (Quotes \cup {NoQuote}) /\ row = RowOf(k, x[1], x[2])
    BY <2>1 DEF Tells
  <2> HIDE DEF x, row
  <2>3. row \in S
    BY <2>2 DEF AnswerOf, RowsOf
  <2> HIDE DEF S
  <2>4. <<row>> \in Seq(S)
    BY <2>3
  <2> QED
    BY <2>1, <2>4 DEF S, row
<1> QED
  BY <1>1, <1>2, <1>3 DEF Became

\* What a batch has come to.
LEMMA BatchAnswers ==
  ASSUME NEW ps, kind \in Types, NEW batch \in Seq(UnitsOf(kind, ps)), NEW as \in DocumentsOf(batch)
  PROVE  /\ FlattenSeq([i \in DOMAIN batch |-> Processed(kind, batch[i], as[i])]) \in Seq(AnswerOf(kind, ps))
         /\ \A i \in DOMAIN batch :
              /\ batch[i] \in UnitsOf(kind, ps)
              /\ Became(kind, batch[i], as[i], Processed(kind, batch[i], as[i]))
         /\ \A x : x \in ToSet(FlattenSeq([i \in DOMAIN batch |-> Processed(kind, batch[i], as[i])])) <=>
                     \E i \in DOMAIN batch : x \in ToSet(Processed(kind, batch[i], as[i]))
<1> DEFINE ss == [i \in DOMAIN batch |-> Processed(kind, batch[i], as[i])]
           S == AnswerOf(kind, ps)
<1>1. DOMAIN batch = 1 .. Len(batch) /\ Len(batch) \in Nat
  BY ToSetInSeq
<1>2. ASSUME NEW i \in DOMAIN batch
      PROVE  /\ batch[i] \in UnitsOf(kind, ps)
             /\ Became(kind, batch[i], as[i], Processed(kind, batch[i], as[i]))
  <2>1. batch[i] \in UnitsOf(kind, ps)
    <3> DEFINE U == UnitsOf(kind, ps)
    <3> HIDE DEF U
    <3>1. batch \in Seq(U)
      BY DEF U
    <3>2. batch[i] \in U
      BY <3>1
    <3> QED
      BY <3>2 DEF U
  <2>2. as[i] \in Documents(kind, batch[i].exchange) \cup {Unusable}
    BY DEF DocumentsOf
  <2> QED
    BY <2>1, <2>2, ProcessedBecomes
<1>3. \A i \in DOMAIN batch : ss[i] \in Seq(S)
  BY <1>2, BecameAnswers
<1>4. /\ DOMAIN ss = 1 .. Len(batch) /\ ss = [i \in 1 .. Len(batch) |-> ss[i]]
      /\ \A i \in DOMAIN batch : ss[i] = Processed(kind, batch[i], as[i])
  BY <1>1
<1> HIDE DEF ss, S
<1>5. /\ FlattenSeq(ss) \in Seq(S)
      /\ \A x : x \in ToSet(FlattenSeq(ss)) <=> \E j \in 1 .. Len(batch) : x \in ToSet(ss[j])
  BY <1>1, <1>3, <1>4, FlattenMaps
<1>6. \A x : x \in ToSet(FlattenSeq(ss)) <=>
               \E i \in DOMAIN batch : x \in ToSet(Processed(kind, batch[i], as[i]))
  BY <1>1, <1>4, <1>5
<1> QED
  BY <1>2, <1>5, <1>6 DEF ss, S

\* A batch of answers.
LEMMA BatchKeeps == ASSUME MarketInv, AskBatch PROVE MarketInv'
<1> DEFINE batch == Batch(todo)
           S == AnswerOf(kind, listed)
<1>1. PICK as \in DocumentsOf(batch) :
        /\ results' = results \o FlattenSeq([i \in DOMAIN batch |-> Processed(kind, batch[i], as[i])])
        /\ todo' = SubSeq(todo, Len(batch) + 1, Len(todo))
  BY DEF AskBatch
<1>2. kind \in Types /\ todo \in Seq(UnitsOf(kind, listed)) /\ todo # <<>> /\ results \in Seq(S)
  BY DEF AskBatch, MarketInv
<1>3. batch \in Seq(UnitsOf(kind, listed)) /\ todo' \in Seq(UnitsOf(kind, listed))
  BY <1>1, <1>2, BatchIs
<1>4. FlattenSeq([i \in DOMAIN batch |-> Processed(kind, batch[i], as[i])]) \in Seq(S)
  BY <1>2, <1>3, BatchAnswers
<1>5. results' \in Seq(S)
  <2> HIDE DEF S
  <2> QED
    BY <1>1, <1>2, <1>4, ConcatIn
<1>6. pc = "ask" /\ pc' = "ask" /\ UNCHANGED <<service, legs, listed, kind, tables, gaps>>
  BY DEF AskBatch
<1> HIDE DEF batch
<1> QED
  BY <1>3, <1>5, <1>6, AnswersKeep DEF Telling

\* The tickers of a bulk answer are of the pairs that it was searched for.
LEMMA TakenAre ==
  ASSUME listed \in Seq(ValuePairs), NEW e \in Exchanges, NEW qs, DOMAIN qs \subseteq ToSet(Bulk(e)),
         \A p \in DOMAIN qs : qs[p] \in Quotes
  PROVE  LET in == Among(Bulk(e), DOMAIN qs)
             new == [i \in DOMAIN in |-> Ticker(WorkUnit(e, in[i]), Record(qs[in[i]]))]
         IN  /\ new \in Seq(AnswerOf("ticker", listed))
             /\ \A i \in DOMAIN in :
                  /\ WorkUnit(e, in[i]) \in UnitsOf("ticker", listed)
                  /\ new[i] = RowOf("ticker", WorkUnit(e, in[i]), qs[in[i]])
             /\ \A p \in DOMAIN qs : \E i \in DOMAIN in : in[i] = p
<1> DEFINE in == Among(Bulk(e), DOMAIN qs)
           new == [i \in DOMAIN in |-> Ticker(WorkUnit(e, in[i]), Record(qs[in[i]]))]
           S == AnswerOf("ticker", listed)
           B == ToSet(listed) \cap Pairs[e]
<1>1. Bulk(e) \in Seq(B)
  BY BulkHas
<1>2. in \in Seq(B) /\ ToSet(in) = DOMAIN qs
  <2> HIDE DEF B
  <2>1. in \in Seq(B) /\ ToSet(in) = ToSet(Bulk(e)) \cap DOMAIN qs
    BY <1>1, AmongHas
  <2> QED
    BY <2>1
<1> HIDE DEF in
<1>3. /\ DOMAIN in = 1 .. Len(in) /\ Len(in) \in Nat
      /\ \A x : x \in ToSet(in) <=> \E i \in DOMAIN in : x = in[i]
      /\ ToSet(in) \subseteq B
  BY <1>2, ToSetInSeq
<1>4. ASSUME NEW i \in DOMAIN in
      PROVE  /\ WorkUnit(e, in[i]) \in UnitsOf("ticker", listed)
             /\ new[i] = RowOf("ticker", WorkUnit(e, in[i]), qs[in[i]])
             /\ new[i] \in S
  <2>1. in[i] \in DOMAIN qs /\ in[i] \in ToSet(listed) /\ in[i] \in Pairs[e]
    BY <1>2, <1>3
  <2> DEFINE u == WorkUnit(e, in[i])
             q == qs[in[i]]
             x == <<u, q>>
  <2>2. u \in UnitsOf("ticker", listed)
    BY <2>1, UnitIs
  <2>3. Record(q).quote = q
    BY DEF Record
  <2>4. new[i] = Ticker(u, Record(q))
    OBVIOUS
  <2> HIDE DEF new, u, q
  <2>5. new[i] = RowOf("ticker", u, q)
    BY <2>2, <2>3, <2>4, FiledRight
  <2>6. q \in Quotes
    BY <2>1 DEF q
  <2>7. x \in UnitsOf("ticker", listed) \X (Quotes \cup {NoQuote}) /\ x[1] = u /\ x[2] = q
    BY <2>2, <2>6
  <2> HIDE DEF x
  <2>8. RowOf("ticker", u, q) \in S
    BY <2>7 DEF AnswerOf, RowsOf
  <2> QED
    BY <2>2, <2>5, <2>8 DEF u, q
<1>5. new \in Seq(S)
  <2>1. DOMAIN new = 1 .. Len(in) /\ new = [i \in 1 .. Len(in) |-> new[i]]
    BY <1>3
  <2> HIDE DEF new, S
  <2>2. new \in [1 .. Len(in) -> S]
    BY <1>3, <1>4, <2>1
  <2> QED
    BY <1>3, <2>2
<1>6. \A p \in DOMAIN qs : \E i \in DOMAIN in : in[i] = p
  BY <1>2, <1>3
<1> HIDE DEF new, S
<1>7. /\ new \in Seq(S)
      /\ \A i \in DOMAIN in :
                  /\ WorkUnit(e, in[i]) \in UnitsOf("ticker", listed)
                  /\ new[i] = RowOf("ticker", WorkUnit(e, in[i]), qs[in[i]])
      /\ \A p \in DOMAIN qs : \E i \in DOMAIN in : in[i] = p
  BY <1>4, <1>5, <1>6
<1> QED
  BY <1>7 DEF new, S, in

LEMMA BulkKeeps ==
  ASSUME MarketInv, AskPoloniex \/ AskBinance
  PROVE  MarketInv'
<1>1. /\ pc \in {"poloniex", "binance"} /\ pc' \in {"binance", "dead", "copy", "compare"}
      /\ kind = "ticker" /\ listed \in Seq(ValuePairs)
      /\ UNCHANGED <<service, legs, listed, kind, todo, tables, gaps>>
      /\ results \in Seq(AnswerOf("ticker", listed)) /\ todo \in Seq(UnitsOf(kind, listed))
  BY DEF AskPoloniex, AskBinance, MarketInv
<1>2. ASSUME NEW e \in Exchanges, NEW ps \in SUBSET ToSet(Bulk(e)), NEW qs \in [ps -> Quotes], Take(e, qs)
      PROVE  results' \in Seq(AnswerOf("ticker", listed))
  <2> DEFINE in == Among(Bulk(e), DOMAIN qs)
             new == [i \in DOMAIN in |-> Ticker(WorkUnit(e, in[i]), Record(qs[in[i]]))]
             S == AnswerOf("ticker", listed)
  <2>1. results' = results \o new
    BY <1>2 DEF Take
  <2>2. new \in Seq(S)
    BY <1>1, TakenAre
  <2> HIDE DEF new, S
  <2> QED
    BY <1>1, <2>1, <2>2, ConcatIn DEF S
<1>3. results' \in Seq(AnswerOf("ticker", listed))
  <2>1. CASE results' = results
    BY <1>1, <2>1
  <2>2. CASE \E e \in Exchanges : \E ps \in SUBSET ToSet(Bulk(e)) : \E qs \in [ps -> Quotes] : Take(e, qs)
    BY <1>2, <2>2
  <2>3. "POLONIEX" \in Exchanges /\ "BINANCE" \in Exchanges
    BY DEF Exchanges
  <2> QED
    BY <2>1, <2>2, <2>3 DEF AskPoloniex, AskBinance
<1> QED
  BY <1>1, <1>3, AnswersKeep DEF Telling

\* What is stored and compared are the objects among the answers.
LEMMA RowsAre ==
  ASSUME MarketInv
  PROVE  /\ Rows = ToSet(results) \ {ErrorString}
         /\ Rows \subseteq RowsOf(kind, listed)
         /\ Objects(results) \in Seq(RowsOf(kind, listed))
<1> DEFINE S == AnswerOf(kind, listed)
           R == RowsOf(kind, listed)
<1>1. results \in Seq(S)
  BY DEF MarketInv
<1>2. S \ {ErrorString} \subseteq R
  BY DEF AnswerOf
<1> HIDE DEF S, R
<1>3. /\ Objects(results) \in Seq(S)
      /\ ToSet(Objects(results)) = ToSet(results) \cap (ToSet(results) \ {ErrorString})
  BY <1>1, AmongHas DEF Objects
<1>4. ToSet(results) \subseteq S
  BY <1>1, ToSetInSeq
<1>5. ToSet(Objects(results)) \subseteq R
  BY <1>2, <1>3, <1>4
<1>6. Objects(results) \in Seq(ToSet(Objects(results)))
  BY <1>3, ToSetInSeq
<1>7. Objects(results) \in Seq(R)
  <2> DEFINE o == Objects(results)
             T == ToSet(Objects(results))
  <2>1. o \in Seq(T) /\ T \subseteq R
    BY <1>5, <1>6
  <2> HIDE DEF o, T
  <2>2. o \in Seq(R)
    BY <2>1
  <2> QED
    BY <2>2 DEF o
<1> QED
  BY <1>3, <1>5, <1>7 DEF Rows, R

LEMMA CompareKeeps ==
  ASSUME MarketInv, Compare
  PROVE  /\ MarketInv'
         /\ \A a, b \in Rows :
              a # b /\ a.pair = b.pair /\ Gap(a, b) => [first |-> a, second |-> b] \in ToSet(found')
<1> DEFINE tickers == Objects(results)
           R == RowsOf("ticker", listed)
           G == TickerGaps(listed)
<1>1. /\ pc = "compare" /\ kind = "ticker" /\ listed \in Seq(ValuePairs) /\ pc' = "alarms"
      /\ found' = ComparePrice(tickers)
      /\ UNCHANGED <<service, legs, listed, kind, answers, tables, told, alarms>>
  BY DEF Compare, MarketInv
<1>2. tickers \in Seq(R) /\ Rows = ToSet(tickers) /\ Rows \subseteq R
  BY <1>1, RowsAre DEF Rows
<1> HIDE DEF tickers
<1>3. \A a, b \in R : a.pair = b.pair /\ Gap(a, b) => [first |-> a, second |-> b] \in G
  BY DEF TickerGaps
<1>4. \A a \in R : a.pair \in ToSet(listed)
  <2> TAKE a \in R
  <2>1. PICK x \in UnitsOf("ticker", listed) \X (Quotes \cup {NoQuote}) : a = RowOf("ticker", x[1], x[2])
    BY DEF RowsOf
  <2>2. x[1].pair \in ToSet(listed)
    BY UnitFacts
  <2> QED
    BY <2>1, <2>2 DEF RowOf
<1> HIDE DEF R, G
<1>5. /\ ComparePrice(tickers) \in Seq(G)
      /\ \A a, b \in ToSet(tickers) :
           a # b /\ a.pair = b.pair /\ a.pair \in ToSet(listed) /\ Gap(a, b) =>
             [first |-> a, second |-> b] \in ToSet(ComparePrice(tickers))
  <2>1. \A a, b \in ToSet(tickers) : a.pair = b.pair /\ Gap(a, b) => [first |-> a, second |-> b] \in G
    BY <1>2, <1>3
  <2> QED
    BY <1>1, <1>2, <2>1, ComparedAll
<1>6. MarketInv'
  BY <1>1, <1>5 DEF MarketInv, answers, tables, Telling, G
<1> QED
  BY <1>1, <1>2, <1>4, <1>5, <1>6

LEMMA HeadAndRest ==
  ASSUME NEW S, NEW s \in Seq(S), s # <<>>
  PROVE  Head(s) \in S /\ Tail(s) \in Seq(S) /\ ToSet(s) = {Head(s)} \cup ToSet(Tail(s))
<1>1. /\ DOMAIN s = 1 .. Len(s) /\ Len(s) \in Nat \ {0} /\ Head(s) = s[1] /\ Head(s) \in S
      /\ Tail(s) \in Seq(S) /\ DOMAIN Tail(s) = 1 .. Len(s) - 1
      /\ \A i \in 1 .. Len(s) - 1 : Tail(s)[i] = s[i + 1]
  BY HeadTailProperties
<1>2. ASSUME NEW x \in ToSet(s) PROVE x \in {Head(s)} \cup ToSet(Tail(s))
  <2>1. PICK i \in 1 .. Len(s) : x = s[i]
    BY <1>1 DEF ToSet
  <2>2. CASE i = 1
    BY <1>1, <2>1, <2>2
  <2>3. CASE i # 1
    <3>1. i - 1 \in 1 .. Len(s) - 1 /\ (i - 1) + 1 = i
      BY <1>1, <2>3
    <3>2. i - 1 \in DOMAIN Tail(s) /\ Tail(s)[i - 1] = x
      BY <1>1, <2>1, <3>1
    <3> QED
      BY <3>2 DEF ToSet
  <2> QED
    BY <2>2, <2>3
<1>3. Head(s) \in ToSet(s)
  <2>1. 1 \in DOMAIN s
    BY <1>1
  <2> QED
    BY <1>1, <2>1 DEF ToSet
<1>4. ASSUME NEW x \in ToSet(Tail(s)) PROVE x \in ToSet(s)
  <2>1. PICK i \in 1 .. Len(s) - 1 : x = Tail(s)[i]
    BY <1>1 DEF ToSet
  <2>2. i + 1 \in DOMAIN s /\ s[i + 1] = x
    BY <1>1, <2>1
  <2> QED
    BY <2>2 DEF ToSet
<1> QED
  BY <1>1, <1>2, <1>3, <1>4

LEMMA AlarmsKeep ==
  ASSUME MarketInv, Tell \/ SaveAlarm \/ AlarmsEnd
  PROVE  MarketInv'
<1> DEFINE G == TickerGaps(listed)
<1>1. found \in Seq(G) /\ told \subseteq G /\ alarms \subseteq told
  BY DEF MarketInv
<1>2. UNCHANGED <<service, legs, listed, kind, answers>>
  BY DEF Tell, SaveAlarm, AlarmsEnd
<1> HIDE DEF G
<1>3. CASE Tell
  <2>1. found # <<>> /\ told' = told \cup {Head(found)} /\ pc' = "save" /\ UNCHANGED <<aborted, found, alarms>>
    BY <1>3 DEF Tell, tables
  <2>2. Head(found) \in G
    BY <1>1, <2>1, HeadAndRest
  <2> QED
    BY <1>1, <1>2, <2>1, <2>2 DEF MarketInv, answers, Telling, G
<1>4. CASE SaveAlarm
  <2>1. /\ pc = "save" /\ pc' = "alarms" /\ found' = Tail(found) /\ told' = told
        /\ aborted' \in {aborted, TRUE} /\ alarms' \in {alarms, alarms \cup {Head(found)}}
    BY <1>4 DEF SaveAlarm
  <2>2. found # <<>> /\ Head(found) \in told
    BY <2>1 DEF MarketInv
  <2>3. Tail(found) \in Seq(G)
    BY <1>1, <2>2, HeadAndRest
  <2> QED
    BY <1>1, <1>2, <2>1, <2>2, <2>3 DEF MarketInv, answers, Telling, G
<1>5. CASE AlarmsEnd
  BY <1>2, <1>5 DEF AlarmsEnd, MarketInv, answers, tables, gaps, Telling
<1> QED
  BY <1>3, <1>4, <1>5

LEMMA StartsAsked ==
  ASSUME MarketInv, NEW e \in Exchanges, NEW f \in Exchanges, service = "bot",
         Pair \in Pairs[e], Pair \in Pairs[f], NEW k \in {"ticker", "book"}
  PROVE  <<WorkUnit(e, Pair), WorkUnit(f, Pair)>> \in Seq(UnitsOf(k, listed))
<1>1. PICK p \in NamedPairs : listed = <<p>>
  BY DEF MarketInv
<1>2. Pair = p /\ ToSet(listed) = {p}
  BY <1>1, ToSetOfOne DEF Pair
<1>3. WorkUnit(e, Pair) \in UnitsOf(k, listed) /\ WorkUnit(f, Pair) \in UnitsOf(k, listed)
  BY <1>2, UnitIs
<1> DEFINE U == UnitsOf(k, listed)
           u == WorkUnit(e, Pair)
           v == WorkUnit(f, Pair)
<1>4. u \in U /\ v \in U
  BY <1>3
<1> HIDE DEF U, u, v
<1>5. <<u, v>> \in Seq(U)
  BY <1>4
<1> QED
  BY <1>5 DEF U, u, v

\* Every step of a process keeps to what was asked and to what was answered.
LEMMA MarketSteps ==
  ASSUME MarketInv, BotInv,
         \/ BeginPass \/ AskBatch \/ Answered \/ AskPoloniex \/ AskBinance
         \/ Compare \/ AlarmsEnd \/ Decide \/ Copy \/ Copied \/ Insert \/ Commit
         \/ SaveAlarm \/ CheckNames \/ UpdateMinCap \/ Tell
         \/ ServiceCrash \/ ServiceRestart
  PROVE  MarketInv'
<1>1. CASE BeginPass
  <2>1. FirstKind(service) \in Types /\ pc \notin Telling /\ listed \in Seq(ValuePairs)
    BY <1>1 DEF BeginPass, FirstKind, Types, Telling, MarketInv
  <2>2. WorkUnits(FirstKind(service), listed) \in Seq(UnitsOf(FirstKind(service), listed))
    BY <2>1, WorkUnitsAre
  <2> QED
    BY <1>1, <2>1, <2>2, RequestKeeps DEF BeginPass
<1>2. CASE AskBatch
  BY <1>2, BatchKeeps
<1>3. CASE Answered
  <2>1. /\ pc = "ask" /\ UNCHANGED <<service, legs, listed, kind, answers, tables, gaps>>
        /\ pc' \in {"cap", "decide", "poloniex", "copy", "insert"}
        /\ pc' = "poloniex" => kind = "ticker"
        /\ pc' = "cap" => service = "bot"
    BY <1>3 DEF Answered
  <2> QED
    BY <2>1 DEF MarketInv, Telling, answers, tables, gaps
<1>4. CASE AskPoloniex \/ AskBinance
  BY <1>4, BulkKeeps
<1>5. CASE Compare
  BY <1>5, CompareKeeps
<1>6. CASE AlarmsEnd \/ Tell \/ SaveAlarm
  BY <1>6, AlarmsKeep
<1>7. CASE Decide
  <2>1. /\ pc = "decide" /\ pc' \in {"dead", "trade"}
        /\ UNCHANGED <<service, legs, listed, kind, answers, tables, gaps>>
    BY <1>7 DEF Decide
  <2> QED
    BY <2>1 DEF MarketInv, Telling, answers, tables, gaps
<1>8. CASE Copy
  <2>1. /\ pc = "copy" /\ pc' \in {"copied", "dead"} /\ aborted' = aborted
        /\ UNCHANGED <<service, legs, listed, kind, answers, gaps>>
    BY <1>8 DEF Copy
  <2> QED
    BY <2>1 DEF MarketInv, Telling, answers, gaps
<1>9. CASE Copied
  <2>1. CASE AfterCopy = "end"
    <3>1. /\ pc = "copied" /\ pc' = "begin" /\ UNCHANGED <<service, legs, listed, kind, answers, tables, gaps>>
      BY <1>9, <2>1 DEF Copied
    <3> QED
      BY <3>1 DEF MarketInv, Telling, answers, tables, gaps
  <2>2. CASE AfterCopy # "end"
    <3>1. AfterCopy \in Types /\ pc \notin Telling /\ listed \in Seq(ValuePairs)
      BY <1>9, <2>2 DEF AfterCopy, Types, Copied, Telling, MarketInv
    <3>2. WorkUnits(AfterCopy, listed) \in Seq(UnitsOf(AfterCopy, listed))
      BY <3>1, WorkUnitsAre
    <3> QED
      BY <1>9, <2>2, <3>1, <3>2, RequestKeeps DEF Copied
  <2> QED
    BY <2>1, <2>2
<1>10. CASE Insert
  <2>1. /\ pc = "insert" /\ pc' \in {"insert", "dead"} /\ aborted' \in BOOLEAN
        /\ aborted' => pc' = "insert"
        /\ UNCHANGED <<service, legs, listed, kind, answers, gaps>>
    BY <1>10 DEF Insert
  <2> QED
    BY <2>1 DEF MarketInv, Telling, answers, gaps
<1>11. CASE Commit
  <2>1. /\ pc = "insert" /\ pc' = "begin" /\ aborted' = FALSE
        /\ UNCHANGED <<service, legs, listed, kind, answers, gaps>>
    BY <1>11 DEF Commit
  <2> QED
    BY <2>1 DEF MarketInv, Telling, answers, gaps
<1>12. CASE CheckNames
  <2>1. CASE pc' = "exit" /\ UNCHANGED <<service, legs, listed, kind, answers, tables, gaps>>
    <3>1. pc = "begin"
      BY <1>12 DEF CheckNames
    <3> QED
      BY <2>1, <3>1 DEF MarketInv, Telling, answers, tables, gaps
  <2>2. CASE ~ (\E e \in Legs : PairNameAt(e, Pair) = None)
    <3>1. service = "bot" /\ pc = "begin" /\ Request("ticker", <<WorkUnit(Buy, Pair), WorkUnit(Sell, Pair)>>, "ask")
      BY <1>12, <2>2 DEF CheckNames
    <3>2. Sell \in Exchanges /\ Buy \in Exchanges /\ Legs = {Sell, Buy}
      BY <3>1, BotLegs DEF BotInv
    <3>3. Pair \in Pairs[Sell] /\ Pair \in Pairs[Buy]
      BY <2>2, <3>2 DEF PairNameAt
    <3>4. <<WorkUnit(Buy, Pair), WorkUnit(Sell, Pair)>> \in Seq(UnitsOf("ticker", listed))
      BY <3>1, <3>2, <3>3, StartsAsked
    <3>5. "ticker" \in Types /\ pc \notin Telling
      BY <3>1 DEF Types, Telling
    <3> QED
      BY <3>1, <3>4, <3>5, RequestKeeps
  <2> QED
    BY <1>12, <2>1, <2>2 DEF CheckNames
<1>13. CASE UpdateMinCap
  <2>1. CASE pc' = "KeyError" /\ UNCHANGED <<service, legs, listed, kind, answers, tables, gaps>>
    <3>1. pc = "cap"
      BY <1>13 DEF UpdateMinCap
    <3> QED
      BY <2>1, <3>1 DEF MarketInv, Telling, answers, tables, gaps
  <2>2. CASE Request("book", <<WorkUnit(Sell, Pair), WorkUnit(Buy, Pair)>>, "ask")
    <3>1. pc = "cap"
      BY <1>13 DEF UpdateMinCap
    <3>2. service = "bot"
      BY <3>1 DEF MarketInv
    <3> QED
      <4>1. Sell \in Exchanges /\ Buy \in Exchanges /\ Pair \in Pairs[Sell] /\ Pair \in Pairs[Buy]
        BY <3>1, <3>2, BotLegs DEF BotInv
      <4>2. <<WorkUnit(Sell, Pair), WorkUnit(Buy, Pair)>> \in Seq(UnitsOf("book", listed))
        BY <3>2, <4>1, StartsAsked
      <4>3. "book" \in Types /\ pc \notin Telling
        BY <3>1 DEF Types, Telling
      <4> QED
        BY <2>2, <4>2, <4>3, RequestKeeps
  <2> QED
    BY <1>13, <2>1, <2>2 DEF UpdateMinCap
<1>14. CASE ServiceCrash
  <2>1. /\ pc' = "dead" /\ aborted' = FALSE /\ UNCHANGED <<service, legs, listed, kind, answers, gaps>>
    BY <1>14 DEF ServiceCrash
  <2> QED
    BY <2>1 DEF MarketInv, Telling, answers, gaps
<1>15. CASE ServiceRestart
  <2>1. /\ pc = "dead" /\ pc' = "begin" /\ found' = <<>>
        /\ UNCHANGED <<service, legs, listed, kind, answers, tables, told, alarms>>
    BY <1>15 DEF ServiceRestart
  <2>2. \A S : <<>> \in Seq(S)
    OBVIOUS
  <2> QED
    BY <2>1, <2>2 DEF MarketInv, Telling, answers, tables
<1> QED
  BY <1>1, <1>2, <1>3, <1>4, <1>5, <1>6, <1>7, <1>8, <1>9, <1>10, <1>11, <1>12, <1>13, <1>14, <1>15

LEMMA OthersLeaveMarket == ASSUME MarketInv, UNCHANGED market PROVE MarketInv'
BY DEF MarketInv, market

-----------------------------------------------------------------------------
(* No gap is missed. *)

\* The steps of a process.
ReaderStep ==
  \/ BeginPass \/ AskBatch \/ Answered \/ AskPoloniex \/ AskBinance
  \/ Compare \/ AlarmsEnd \/ Decide \/ Copy \/ Copied \/ Insert \/ Commit
  \/ SaveAlarm \/ CheckNames \/ UpdateMinCap \/ Tell
  \/ ServiceCrash \/ ServiceRestart

\* A ticker that an exchange has sent has its row.
AnsweredInv ==
  kind = "ticker" =>
    \A a \in answered : \E r \in Rows : r.exchange = a.exchange /\ r.pair = a.pair /\ r.quote = a.quote

\* What is told of, and what is still to be, has every gap between rows.
GapsIn(S) ==
  \A a, b \in Rows : a.exchange # b.exchange /\ a.pair = b.pair /\ Gap(a, b) => [first |-> a, second |-> b] \in S

GapInv ==
  service = "monitoring" =>
    /\ kind = "ticker"
    /\ pc \in {"begin", "ask", "poloniex", "binance", "compare", "alarms", "save", "insert", "dead"}
    /\ pc \in {"alarms", "save"} => GapsIn(told \cup ToSet(found))
    /\ pc = "insert" => GapsIn(told)

MonitorInv == AnsweredInv /\ GapInv

LEMMA NothingAnswered == ASSUME Init PROVE MonitorInv
BY DEF Init, InitMarket, MonitorInv, AnsweredInv, GapInv

\* Rows are not forgotten with more answers.
LEMMA RowsGrow ==
  ASSUME NEW S, NEW s \in Seq(S), NEW u \in Seq(S)
  PROVE  ToSet(Objects(s \o u)) = ToSet(Objects(s)) \cup ToSet(Objects(u))
<1>1. ASSUME NEW w \in Seq(S) PROVE ToSet(Objects(w)) = ToSet(w) \ {ErrorString}
  <2>1. ToSet(Objects(w)) = ToSet(w) \cap (ToSet(w) \ {ErrorString})
    BY AmongHas DEF Objects
  <2> QED
    BY <2>1
<1>2. s \o u \in Seq(S) /\ ToSet(s \o u) = ToSet(s) \cup ToSet(u)
  BY ToSetConcat
<1> QED
  BY <1>1, <1>2

\* A row is no string.
LEMMA RowIsNoString == ASSUME NEW k, k \in Types, NEW u, NEW q PROVE RowOf(k, u, q) # ErrorString
<1>1. RowOf(k, u, q).kind = k /\ ErrorString.kind = "string"
  BY DEF RowOf, ErrorString
<1> QED
  BY <1>1 DEF Types

\* An answer with a ticker becomes its row, whatever became of the others of the batch.
LEMMA BatchIsAnswered == ASSUME MarketInv, AnsweredInv, AskBatch PROVE AnsweredInv'
<1> SUFFICES ASSUME kind = "ticker", NEW a \in answered'
             PROVE  \E r \in Rows' : r.exchange = a.exchange /\ r.pair = a.pair /\ r.quote = a.quote
  BY DEF AskBatch, AnsweredInv
<1> DEFINE batch == Batch(todo)
           S == AnswerOf(kind, listed)
<1>1. PICK as \in DocumentsOf(batch) :
        /\ results' = results \o FlattenSeq([i \in DOMAIN batch |-> Processed(kind, batch[i], as[i])])
        /\ answered' = answered \cup
             {[exchange |-> batch[i].exchange, pair |-> batch[i].pair, quote |-> as[i].records[1].quote] :
                i \in {j \in DOMAIN batch : Has(as[j])}}
  BY DEF AskBatch
<1>2. kind \in Types /\ todo \in Seq(UnitsOf(kind, listed)) /\ todo # <<>> /\ results \in Seq(S)
  BY DEF AskBatch, MarketInv
<1>3. batch \in Seq(UnitsOf(kind, listed))
  BY <1>2, BatchIs
<1> HIDE DEF batch
<1> DEFINE new == FlattenSeq([i \in DOMAIN batch |-> Processed(kind, batch[i], as[i])])
<1>4. /\ new \in Seq(S)
      /\ \A i \in DOMAIN batch :
           /\ batch[i] \in UnitsOf(kind, listed)
           /\ Became(kind, batch[i], as[i], Processed(kind, batch[i], as[i]))
      /\ \A x : x \in ToSet(new) <=> \E i \in DOMAIN batch : x \in ToSet(Processed(kind, batch[i], as[i]))
  BY <1>2, <1>3, BatchAnswers
<1>5. results' = results \o new
  BY <1>1
<1> HIDE DEF new, S
<1>6. Rows' = Rows \cup ToSet(Objects(new))
  <2>1. ToSet(Objects(results \o new)) = ToSet(Objects(results)) \cup ToSet(Objects(new))
    BY <1>2, <1>4, RowsGrow
  <2> QED
    BY <1>5, <2>1 DEF Rows
<1>7. CASE a \in answered
  BY <1>6, <1>7 DEF AnsweredInv
<1>8. CASE a \notin answered
  <2>1. PICK i \in DOMAIN batch :
          /\ Has(as[i])
          /\ a = [exchange |-> batch[i].exchange, pair |-> batch[i].pair, quote |-> as[i].records[1].quote]
    BY <1>1, <1>8
  <2> DEFINE u == batch[i]
             d == as[i]
             res == Processed(kind, u, d)
  <2>2. Became(kind, u, d, res) /\ Has(d)
    BY <1>4, <2>1
  <2>3. \A x : x \in ToSet(res) => x \in ToSet(new)
    BY <1>4
  <2>4. a.exchange = u.exchange /\ a.pair = u.pair /\ a.quote = d.records[1].quote
    BY <2>1
  <2> HIDE DEF u, d, res
  <2>5. PICK r : Tells(kind, d, r) /\ res = <<RowOf(kind, u, r.quote)>>
    BY <2>2 DEF Became
  <2> DEFINE row == RowOf(kind, u, r.quote)
  <2>6. row \in ToSet(new) /\ row # ErrorString
    <3>1. row # ErrorString
      BY <1>2, RowIsNoString
    <3> HIDE DEF row
    <3>2. ToSet(<<row>>) = {row}
      BY ToSetOfOne
    <3> QED
      BY <2>3, <2>5, <3>1, <3>2 DEF row
  <2>7. row.exchange = u.exchange /\ row.pair = u.pair /\ row.quote = r.quote
    BY DEF RowOf
  <2>8. d.records[1] = r
    <3>1. d.records = <<r>>
      BY <2>5, TellsFields
    <3>2. <<r>>[1] = r
      OBVIOUS
    <3> QED
      BY <3>1, <3>2
  <2> HIDE DEF row
  <2>9. row \in ToSet(Objects(new))
    <3>1. ToSet(Objects(new)) = ToSet(new) \cap (ToSet(new) \ {ErrorString})
      BY <1>4, AmongHas DEF Objects
    <3> QED
      BY <2>6, <3>1
  <2> QED
    BY <1>6, <2>4, <2>7, <2>8, <2>9
<1> QED
  BY <1>7, <1>8

LEMMA BulkIsAnswered ==
  ASSUME MarketInv, AnsweredInv, NEW e \in Exchanges,
         NEW ps \in SUBSET ToSet(Bulk(e)), NEW qs \in [ps -> Quotes], Take(e, qs),
         kind = "ticker", kind' = kind
  PROVE  AnsweredInv'
<1> DEFINE in == Among(Bulk(e), DOMAIN qs)
           new == [i \in DOMAIN in |-> Ticker(WorkUnit(e, in[i]), Record(qs[in[i]]))]
           S == AnswerOf("ticker", listed)
<1>1. /\ results' = results \o new
      /\ answered' = answered \cup {[exchange |-> e, pair |-> p, quote |-> qs[p]] : p \in DOMAIN qs}
  BY DEF Take
<1>2. listed \in Seq(ValuePairs) /\ results \in Seq(S)
  BY DEF MarketInv
<1>3. /\ new \in Seq(S)
      /\ \A i \in DOMAIN in : new[i] = RowOf("ticker", WorkUnit(e, in[i]), qs[in[i]])
      /\ \A p \in DOMAIN qs : \E i \in DOMAIN in : in[i] = p
  BY <1>2, TakenAre
<1>4. DOMAIN new = DOMAIN in
  OBVIOUS
<1> HIDE DEF new, in, S
<1>5. Rows' = Rows \cup ToSet(Objects(new))
  <2>1. ToSet(Objects(results \o new)) = ToSet(Objects(results)) \cup ToSet(Objects(new))
    BY <1>2, <1>3, RowsGrow
  <2> QED
    BY <1>1, <2>1 DEF Rows
<1>6. ASSUME NEW p \in DOMAIN qs
      PROVE  \E r \in Rows' : r.exchange = e /\ r.pair = p /\ r.quote = qs[p]
  <2>1. PICK i \in DOMAIN in : in[i] = p
    BY <1>3
  <2> DEFINE row == RowOf("ticker", WorkUnit(e, p), qs[p])
  <2>2. row = new[i] /\ row \in ToSet(new)
    <3>1. row = new[i]
      BY <1>3, <2>1
    <3> QED
      BY <1>4, <3>1 DEF ToSet
  <2>3. row # ErrorString
    BY RowIsNoString DEF Types
  <2>4. row.exchange = e /\ row.pair = p /\ row.quote = qs[p]
    BY DEF RowOf, WorkUnit
  <2> HIDE DEF row
  <2>5. ToSet(Objects(new)) = ToSet(new) \cap (ToSet(new) \ {ErrorString})
    BY <1>3, AmongHas DEF Objects
  <2> QED
    BY <1>5, <2>2, <2>3, <2>4, <2>5
<1>7. ASSUME NEW a \in answered'
      PROVE  \E r \in Rows' : r.exchange = a.exchange /\ r.pair = a.pair /\ r.quote = a.quote
  <2>1. CASE a \in answered
    BY <1>5, <2>1 DEF AnsweredInv
  <2>2. CASE a \notin answered
    <3>1. PICK p \in DOMAIN qs : a = [exchange |-> e, pair |-> p, quote |-> qs[p]]
      BY <1>1, <2>2
    <3>2. a.exchange = e /\ a.pair = p /\ a.quote = qs[p]
      BY <3>1
    <3> QED
      BY <1>6, <3>2
  <2> QED
    BY <2>1, <2>2
<1> QED
  BY <1>7 DEF AnsweredInv

LEMMA AnsweredSteps == ASSUME MarketInv, AnsweredInv, ReaderStep PROVE AnsweredInv'
<1>1. CASE AskBatch
  BY <1>1, BatchIsAnswered
<1>2. CASE AskPoloniex \/ AskBinance
  <2>1. kind = "ticker" /\ kind' = kind
    BY <1>2 DEF AskPoloniex, AskBinance, MarketInv
  <2>2. CASE UNCHANGED <<results, answered>>
    BY <2>1, <2>2 DEF AnsweredInv, Rows
  <2>3. "POLONIEX" \in Exchanges /\ "BINANCE" \in Exchanges
    BY DEF Exchanges
  <2>4. CASE \E e \in Exchanges : \E ps \in SUBSET ToSet(Bulk(e)) : \E qs \in [ps -> Quotes] : Take(e, qs)
    <3>1. PICK e \in Exchanges : \E ps \in SUBSET ToSet(Bulk(e)) : \E qs \in [ps -> Quotes] : Take(e, qs)
      BY <2>4
    <3>2. PICK ps \in SUBSET ToSet(Bulk(e)) : \E qs \in [ps -> Quotes] : Take(e, qs)
      BY <3>1
    <3>3. PICK qs \in [ps -> Quotes] : Take(e, qs)
      BY <3>2
    <3> QED
      BY <2>1, <3>3, BulkIsAnswered
  <2> QED
    BY <1>2, <2>2, <2>3, <2>4 DEF AskPoloniex, AskBinance
<1>3. CASE UNCHANGED <<kind, results, answered>>
  BY <1>3 DEF AnsweredInv, Rows
<1>4. CASE answered' = {}
  BY <1>4 DEF AnsweredInv
<1> QED
  BY <1>1, <1>2, <1>3, <1>4
  DEF ReaderStep, BeginPass, Answered, Compare, AlarmsEnd, Decide, Copy, Copied, Insert, Commit,
      SaveAlarm, CheckNames, UpdateMinCap, Tell, ServiceCrash, ServiceRestart, Request, answers

LEMMA GapSteps == ASSUME MarketInv, GapInv, ReaderStep PROVE GapInv'
<1> SUFFICES ASSUME service = "monitoring", service' = service PROVE GapInv'
  <2>1. service' = service
    BY DEF ReaderStep, BeginPass, AskBatch, Answered, AskPoloniex, AskBinance, Compare, AlarmsEnd, Decide,
           Copy, Copied, Insert, Commit, SaveAlarm, CheckNames, UpdateMinCap, Tell, ServiceCrash,
           ServiceRestart, Request
  <2> QED
    BY <2>1 DEF GapInv
<1>1. /\ kind = "ticker"
      /\ pc \in {"begin", "ask", "poloniex", "binance", "compare", "alarms", "save", "insert", "dead"}
      /\ pc \in {"alarms", "save"} => GapsIn(told \cup ToSet(found))
      /\ pc = "insert" => GapsIn(told)
  BY DEF GapInv
<1>2. CASE BeginPass \/ AskBatch \/ Answered \/ AskPoloniex \/ AskBinance
  <2>1. kind' = "ticker" /\ pc' \in {"ask", "poloniex", "binance", "compare", "dead"}
    BY <1>1, <1>2 DEF BeginPass, FirstKind, Request, AskBatch, Answered, AskPoloniex, AskBinance
  <2> QED
    BY <2>1 DEF GapInv
<1>3. CASE ServiceCrash \/ ServiceRestart \/ Commit
  <2>1. kind' = "ticker" /\ pc' \in {"begin", "dead"}
    BY <1>1, <1>3 DEF ServiceCrash, ServiceRestart, Commit
  <2> QED
    BY <2>1 DEF GapInv
<1>4. CASE Compare
  <2>1. \A a, b \in Rows : a # b /\ a.pair = b.pair /\ Gap(a, b) => [first |-> a, second |-> b] \in ToSet(found')
    BY <1>4, CompareKeeps
  <2>2. kind' = "ticker" /\ pc' = "alarms" /\ Rows' = Rows
    BY <1>1, <1>4 DEF Compare, Rows, answers
  <2>3. GapsIn(told \cup ToSet(found))'
    BY <2>1, <2>2 DEF GapsIn, Gap
  <2> QED
    BY <2>2, <2>3 DEF GapInv
<1>5. CASE Tell \/ SaveAlarm
  <2>1. /\ kind' = "ticker" /\ pc' \in {"alarms", "save"} /\ Rows' = Rows /\ found # <<>>
        /\ pc \in {"alarms", "save"} /\ found \in Seq(TickerGaps(listed))
    BY <1>1, <1>5 DEF Tell, SaveAlarm, Rows, answers, MarketInv
  <2>2. told \cup ToSet(found) \subseteq told' \cup ToSet(found')
    <3>1. CASE Tell
      BY <3>1 DEF Tell
    <3>2. CASE SaveAlarm
      <4>1. found' = Tail(found) /\ told' = told /\ Head(found) \in told
        BY <3>2 DEF SaveAlarm, MarketInv
      <4>2. ToSet(found) = {Head(found)} \cup ToSet(Tail(found))
        BY <2>1, HeadAndRest
      <4> QED
        BY <4>1, <4>2
    <3> QED
      BY <1>5, <3>1, <3>2
  <2>3. GapsIn(told \cup ToSet(found))'
    BY <1>1, <2>1, <2>2 DEF GapsIn, Gap
  <2> QED
    BY <2>1, <2>3 DEF GapInv
<1>6. CASE AlarmsEnd
  <2>1. kind' = "ticker" /\ pc' = "insert" /\ Rows' = Rows /\ told' = told /\ found = <<>> /\ pc = "alarms"
    BY <1>1, <1>6 DEF AlarmsEnd, Rows, answers, gaps
  <2>2. GapsIn(told)
    BY <1>1, <2>1, ToSetOfOne
  <2>3. GapsIn(told)'
    BY <2>1, <2>2 DEF GapsIn, Gap
  <2> QED
    BY <2>1, <2>3 DEF GapInv
<1>7. CASE Insert
  <2>1. kind' = "ticker" /\ pc' \in {"insert", "dead"} /\ Rows' = Rows /\ told' = told /\ pc = "insert"
    BY <1>1, <1>7 DEF Insert, Rows, answers, gaps
  <2>2. GapsIn(told)'
    BY <1>1, <2>1 DEF GapsIn, Gap
  <2> QED
    BY <2>1, <2>2 DEF GapInv
<1>8. ~ (Decide \/ Copy \/ Copied \/ CheckNames \/ UpdateMinCap)
  BY <1>1 DEF Decide, Copy, Copied, CheckNames, UpdateMinCap
<1> QED
  BY <1>2, <1>3, <1>4, <1>5, <1>6, <1>7, <1>8 DEF ReaderStep

-----------------------------------------------------------------------------
(* The books of a bot. *)

Book(u) == {ErrorString} \cup {RowOf("book", u, q) : q \in Quotes \cup {NoQuote}}

\* The books are asked for in the order of the legs, and answered in this order.
BooksSoFar ==
  LET s == WorkUnit(Sell, Pair)
      b == WorkUnit(Buy, Pair)
  IN  \/ todo = <<s, b>> /\ results = <<>>
      \/ todo = <<b>> /\ \E x \in Book(s) : results = <<x>>
      \/ todo = <<>> /\ \E x \in Book(s), y \in Book(b) : results = <<x, y>>

BooksInv ==
  service = "bot" =>
    /\ pc \in {"decide", "trade"} => kind = "book" /\ todo = <<>>
    /\ kind = "book" /\ pc \in {"ask", "decide", "trade"} => BooksSoFar
    /\ pc = "trade" => ErrorString \notin ToSet(results)
    /\ kind \in {"ticker", "book"}

LEMMA NoBooksYet == ASSUME Init PROVE BooksInv
BY DEF Init, InitMarket, BooksInv

\* Sequences of one and of two.
LEMMA OneIs == ASSUME NEW S, NEW s \in Seq(S), Len(s) = 1 PROVE s = <<s[1]>>
<1>1. s[1] \in S
  OBVIOUS
<1>2. <<s[1]>> \in Seq(S) /\ Len(<<s[1]>>) = 1 /\ <<s[1]>>[1] = s[1]
  BY <1>1
<1>3. \A i \in 1 .. Len(s) : s[i] = <<s[1]>>[i]
  BY <1>2
<1> DEFINE t == <<s[1]>>
<1> HIDE DEF t
<1>4. s = t
  BY <1>2, <1>3, SeqEqual DEF t
<1> QED
  BY <1>4 DEF t

LEMMA TwoIs == ASSUME NEW S, NEW s \in Seq(S), Len(s) = 2 PROVE s = <<s[1], s[2]>>
<1> DEFINE t == <<s[1], s[2]>>
<1>1. s[1] \in S /\ s[2] \in S
  <2>1. 1 \in 1 .. Len(s) /\ 2 \in 1 .. Len(s)
    OBVIOUS
  <2>2. \A i \in 1 .. Len(s) : s[i] \in S
    OBVIOUS
  <2> QED
    BY <2>1, <2>2
<1>2. t \in Seq(S) /\ Len(t) = 2 /\ t[1] = s[1] /\ t[2] = s[2]
  BY <1>1
<1> HIDE DEF t
<1>3. \A i \in 1 .. Len(s) : s[i] = t[i]
  BY <1>2
<1>4. s = t
  BY <1>2, <1>3, SeqEqual
<1> QED
  BY <1>4 DEF t

LEMMA OneAndOne == ASSUME NEW x, NEW y PROVE <<x>> \o <<y>> = <<x, y>>
<1> DEFINE S == {x, y}
           a == <<x>>
           b == <<y>>
           c == a \o b
<1>1. a \in Seq(S) /\ b \in Seq(S) /\ Len(a) = 1 /\ Len(b) = 1 /\ a[1] = x /\ b[1] = y
  OBVIOUS
<1> HIDE DEF S, a, b
<1>2. c \in Seq(S) /\ Len(c) = 2 /\ c[1] = x /\ c[2] = y
  <2>1. /\ a \o b \in Seq(S) /\ Len(a \o b) = Len(a) + Len(b)
        /\ \A i \in 1 .. Len(a) + Len(b) : (a \o b)[i] = IF i <= Len(a) THEN a[i] ELSE b[i - Len(a)]
    BY <1>1, ConcatProperties
  <2>2. Len(a) + Len(b) = 2 /\ 1 \in 1 .. 2 /\ 2 \in 1 .. 2 /\ 1 <= Len(a) /\ ~ (2 <= Len(a)) /\ 2 - Len(a) = 1
    BY <1>1
  <2> HIDE DEF c
  <2>3. c \in Seq(S) /\ Len(c) = 2 /\ \A i \in 1 .. 2 : c[i] = IF i <= Len(a) THEN a[i] ELSE b[i - Len(a)]
    BY <2>1, <2>2 DEF c
  <2> QED
    BY <1>1, <2>2, <2>3
<1> HIDE DEF c
<1>3. c = <<c[1], c[2]>>
  BY <1>2, TwoIs
<1> QED
  BY <1>2, <1>3 DEF a, b, c

LEMMA BatchOfOne ==
  ASSUME NEW b
  PROVE  Batch(<<b>>) = <<b>> /\ SubSeq(<<b>>, 2, 1) = <<>>
<1> DEFINE w == <<b>>
           c == SubSeq(w, 1, 1)
<1>1. w \in Seq({b}) /\ Len(w) = 1 /\ w[1] = b /\ PoolSize \in Nat \ {0}
  BY MarketAssumption
<1> HIDE DEF w
<1>2. Batch(w) = c
  BY <1>1 DEF Batch
<1>3. c \in Seq({b}) /\ Len(c) = 1 /\ c[1] = b
  <2>1. \A i \in 1 .. 1 : w[i] \in {b}
    BY <1>1
  <2>2. /\ c \in Seq({b}) /\ Len(c) = IF 1 <= 1 THEN 1 - 1 + 1 ELSE 0
        /\ \A i \in 1 .. 1 - 1 + 1 : c[i] = w[1 + i - 1]
    BY <2>1, SubSeqProperties
  <2> QED
    BY <1>1, <2>2
<1>4. SubSeq(w, 2, 1) = <<>>
  BY SubSeqEmpty
<1> HIDE DEF c
<1>5. c = <<c[1]>>
  BY <1>3, OneIs
<1> QED
  BY <1>2, <1>3, <1>4, <1>5 DEF w

LEMMA BatchOfTwo ==
  ASSUME NEW s, NEW b
  PROVE  /\ Batch(<<s, b>>) \in {<<s>>, <<s, b>>}
         /\ SubSeq(<<s, b>>, 2, 2) = <<b>> /\ SubSeq(<<s, b>>, 3, 2) = <<>>
<1> DEFINE w == <<s, b>>
           S == {s, b}
           c1 == SubSeq(w, 1, 1)
           c2 == SubSeq(w, 2, 2)
<1>1. w \in Seq(S) /\ Len(w) = 2 /\ w[1] = s /\ w[2] = b /\ PoolSize \in Nat \ {0}
  BY MarketAssumption
<1> HIDE DEF w, S
<1>2. Batch(w) = IF 2 < PoolSize THEN SubSeq(w, 1, 2) ELSE SubSeq(w, 1, PoolSize)
  BY <1>1 DEF Batch
<1>3. PoolSize = 1 \/ PoolSize = 2 \/ 2 < PoolSize
  BY <1>1
<1>4. SubSeq(w, 1, 2) = w
  BY <1>1, SubSeqFull
<1>5. c1 \in Seq(S) /\ Len(c1) = 1 /\ c1[1] = s
  <2>1. \A i \in 1 .. 1 : w[i] \in S
    BY <1>1
  <2>2. /\ c1 \in Seq(S) /\ Len(c1) = IF 1 <= 1 THEN 1 - 1 + 1 ELSE 0
        /\ \A i \in 1 .. 1 - 1 + 1 : c1[i] = w[1 + i - 1]
    BY <2>1, SubSeqProperties
  <2> QED
    BY <1>1, <2>2
<1>6. c2 \in Seq(S) /\ Len(c2) = 1 /\ c2[1] = b
  <2>1. \A i \in 2 .. 2 : w[i] \in S
    BY <1>1
  <2>2. /\ c2 \in Seq(S) /\ Len(c2) = IF 2 <= 2 THEN 2 - 2 + 1 ELSE 0
        /\ \A i \in 1 .. 2 - 2 + 1 : c2[i] = w[2 + i - 1]
    BY <2>1, SubSeqProperties
  <2> QED
    BY <1>1, <2>2
<1>7. SubSeq(w, 3, 2) = <<>>
  BY SubSeqEmpty
<1>8. c1 = <<s>> /\ c2 = <<b>>
  <2> HIDE DEF c1, c2
  <2> QED
    BY <1>5, <1>6, OneIs
<1>9. Batch(w) = w \/ Batch(w) = c1
  BY <1>2, <1>3, <1>4
<1> QED
  BY <1>7, <1>8, <1>9 DEF w

LEMMA BookOfOne ==
  ASSUME NEW u, NEW d, NEW res, Became("book", u, d, res)
  PROVE  \E x \in Book(u) : res = <<x>>
<1>1. CASE res = <<ErrorString>>
  BY <1>1 DEF Book
<1>2. CASE \E r : Tells("book", d, r) /\ res = <<RowOf("book", u, r.quote)>>
  BY <1>2 DEF Tells, Book
<1> QED
  BY <1>1, <1>2 DEF Became

\* A batch of books.
AnswersTo(units, as) == FlattenSeq([i \in DOMAIN units |-> Processed(kind, units[i], as[i])])

BooksFor(units, new) ==
  /\ \A s : units = <<s>> => \E x \in Book(s) : new = <<x>>
  /\ \A s, b : units = <<s, b>> => \E x \in Book(s), y \in Book(b) : new = <<x, y>>

LEMMA BooksOfBatch ==
  ASSUME NEW units, NEW as, NEW ps, kind = "book", units \in Seq(UnitsOf("book", ps)), as \in DocumentsOf(units),
         NEW new, new = AnswersTo(units, as)
  PROVE  BooksFor(units, new)
<1>1. \A i \in DOMAIN units : \E x \in Book(units[i]) : Processed(kind, units[i], as[i]) = <<x>>
  <2> TAKE i \in DOMAIN units
  <2>1. kind \in Types /\ units \in Seq(UnitsOf(kind, ps))
    BY DEF Types
  <2>2. Became(kind, units[i], as[i], Processed(kind, units[i], as[i]))
    BY <2>1, BatchAnswers
  <2> DEFINE u == units[i]
             d == as[i]
             res == Processed(kind, units[i], as[i])
  <2>3. Became("book", u, d, res)
    BY <2>2
  <2> HIDE DEF u, d, res
  <2>4. \E x \in Book(u) : res = <<x>>
    BY <2>3, BookOfOne
  <2> QED
    BY <2>4 DEF u, res
<1> DEFINE P(i) == Processed(kind, units[i], as[i])
<1>4. new = FlattenSeq([i \in DOMAIN units |-> P(i)])
  BY DEF AnswersTo
<1>2. ASSUME NEW s, units = <<s>> PROVE \E x \in Book(s) : new = <<x>>
  <2>1. DOMAIN units = {1} /\ units[1] = s
    BY <1>2
  <2>2. PICK x \in Book(s) : P(1) = <<x>>
    BY <1>1, <2>1
  <2> HIDE DEF P
  <2>3. [i \in DOMAIN units |-> P(i)] = <<P(1)>>
    BY <2>1
  <2>4. new = P(1)
    BY <1>4, <2>3, FlattenShort
  <2> QED
    BY <2>2, <2>4
<1>3. ASSUME NEW s, NEW b, units = <<s, b>> PROVE \E x \in Book(s), y \in Book(b) : new = <<x, y>>
  <2>1. DOMAIN units = {1, 2} /\ units[1] = s /\ units[2] = b
    BY <1>3
  <2>2. PICK x \in Book(s) : P(1) = <<x>>
    BY <1>1, <2>1
  <2>3. PICK y \in Book(b) : P(2) = <<y>>
    BY <1>1, <2>1
  <2> HIDE DEF P
  <2>4. [i \in DOMAIN units |-> P(i)] = <<P(1), P(2)>>
    BY <2>1
  <2>5. new = P(1) \o P(2)
    BY <1>4, <2>4, FlattenShort
  <2>6. <<x>> \o <<y>> = <<x, y>>
    BY OneAndOne
  <2> QED
    BY <2>2, <2>3, <2>5, <2>6
<1> QED
  BY <1>2, <1>3 DEF BooksFor

LEMMA BooksAnswered ==
  ASSUME MarketInv, service = "bot", kind = "book", BooksSoFar, AskBatch
  PROVE  BooksSoFar'
<1> DEFINE s == WorkUnit(Sell, Pair)
           b == WorkUnit(Buy, Pair)
           batch == Batch(todo)
           sold == Book(s)
           bought == Book(b)
<1>1. PICK as \in DocumentsOf(batch) :
        /\ results' = results \o FlattenSeq([i \in DOMAIN batch |-> Processed(kind, batch[i], as[i])])
        /\ todo' = SubSeq(todo, Len(batch) + 1, Len(todo))
  BY DEF AskBatch
<1>2. todo # <<>> /\ todo \in Seq(UnitsOf("book", listed)) /\ UNCHANGED <<legs, listed>>
  BY DEF AskBatch, MarketInv
<1>3. batch \in Seq(UnitsOf("book", listed))
  BY <1>2, BatchIs
<1> DEFINE new == FlattenSeq([i \in DOMAIN batch |-> Processed(kind, batch[i], as[i])])
<1>4. /\ batch = <<s>> => \E x \in sold : new = <<x>>
      /\ batch = <<b>> => \E y \in bought : new = <<y>>
      /\ batch = <<s, b>> => \E x \in sold, y \in bought : new = <<x, y>>
  <2>1. new = AnswersTo(batch, as)
    BY DEF AnswersTo
  <2> HIDE DEF batch, new
  <2>2. BooksFor(batch, new)
    BY <1>3, <2>1, BooksOfBatch
  <2> QED
    BY <2>2 DEF BooksFor
<1>5. results' = results \o new
  BY <1>1
<1>6. \/ todo = <<s, b>> /\ results = <<>>
      \/ todo = <<b>> /\ \E x \in sold : results = <<x>>
  BY <1>2 DEF BooksSoFar
<1>7. BooksSoFar' <=> \/ todo' = <<s, b>> /\ results' = <<>>
                      \/ todo' = <<b>> /\ \E x \in sold : results' = <<x>>
                      \/ todo' = <<>> /\ \E x \in sold, y \in bought : results' = <<x, y>>
  BY <1>2 DEF BooksSoFar, Sell, Buy, Pair
<1> HIDE DEF new, s, b, sold, bought
<1>8. CASE todo = <<s, b>> /\ results = <<>>
  <2>1. batch \in {<<s>>, <<s, b>>}
    BY <1>8, BatchOfTwo
  <2>2. Len(todo) = 2
    BY <1>8
  <2>3. results' = new
    <3>1. CASE batch = <<s>>
      BY <1>4, <1>5, <1>8, <3>1
    <3>2. CASE batch = <<s, b>>
      BY <1>4, <1>5, <1>8, <3>2
    <3> QED
      BY <2>1, <3>1, <3>2
  <2>4. CASE batch = <<s>>
    <3>1. Len(batch) + 1 = 2
      BY <2>4
    <3>2. todo' = <<b>>
      BY <1>1, <1>8, <2>2, <3>1, BatchOfTwo
    <3> HIDE DEF batch
    <3> QED
      BY <1>4, <1>7, <2>3, <2>4, <3>2
  <2>5. CASE batch = <<s, b>>
    <3>1. Len(batch) + 1 = 3
      BY <2>5
    <3>2. todo' = <<>>
      BY <1>1, <1>8, <2>2, <3>1, BatchOfTwo
    <3> HIDE DEF batch
    <3> QED
      BY <1>4, <1>7, <2>3, <2>5, <3>2
  <2> QED
    BY <2>1, <2>4, <2>5
<1>9. CASE todo = <<b>> /\ \E x \in sold : results = <<x>>
  <2>1. batch = <<b>>
    BY <1>9, BatchOfOne
  <2> HIDE DEF batch
  <2>2. Len(batch) + 1 = 2 /\ Len(todo) = 1
    <3>1. Len(<<b>>) = 1
      OBVIOUS
    <3> QED
      BY <1>9, <2>1, <3>1
  <2>3. todo' = <<>>
    BY <1>1, <1>9, <2>2, BatchOfOne
  <2>4. PICK x \in sold : results = <<x>>
    BY <1>9
  <2>5. PICK y \in bought : new = <<y>>
    BY <1>4, <2>1
  <2>6. <<x>> \o <<y>> = <<x, y>>
    BY OneAndOne
  <2> HIDE DEF batch
  <2> QED
    BY <1>5, <1>7, <2>3, <2>4, <2>5, <2>6
<1> QED
  BY <1>6, <1>8, <1>9

LEMMA BooksSteps == ASSUME MarketInv, BotInv, BooksInv, ReaderStep PROVE BooksInv'
<1> SUFFICES ASSUME service = "bot", service' = service PROVE BooksInv'
  <2>1. service' = service
    BY DEF ReaderStep, BeginPass, AskBatch, Answered, AskPoloniex, AskBinance, Compare, AlarmsEnd, Decide,
           Copy, Copied, Insert, Commit, SaveAlarm, CheckNames, UpdateMinCap, Tell, ServiceCrash,
           ServiceRestart, Request
  <2> QED
    BY <2>1 DEF BooksInv
<1>1. /\ kind \in {"ticker", "book"}
      /\ pc \in {"decide", "trade"} => kind = "book" /\ todo = <<>>
      /\ kind = "book" /\ pc \in {"ask", "decide", "trade"} => BooksSoFar
      /\ pc = "trade" => ErrorString \notin ToSet(results)
      /\ pc \in {"begin", "exit", "ask", "cap", "decide", "trade", "dead"}
  BY DEF BooksInv, BotInv
<1>2. CASE AskBatch
  <2>1. pc = "ask" /\ pc' = "ask" /\ kind' = kind
    BY <1>2 DEF AskBatch
  <2>2. CASE kind = "book"
    BY <1>1, <1>2, <2>1, <2>2, BooksAnswered DEF BooksInv
  <2>3. CASE kind = "ticker"
    BY <2>1, <2>3 DEF BooksInv
  <2> QED
    BY <1>1, <2>2, <2>3
<1>3. CASE Answered
  <2>1. /\ pc = "ask" /\ todo = <<>> /\ pc' \in {"cap", "decide"} /\ (pc' = "decide" => kind = "book")
        /\ UNCHANGED <<legs, listed, kind, todo, results>>
    BY <1>1, <1>3 DEF Answered, answers
  <2>2. kind = "book" => BooksSoFar'
    BY <1>1, <2>1 DEF BooksSoFar, Sell, Buy, Pair
  <2> QED
    BY <1>1, <2>1, <2>2 DEF BooksInv
<1>4. CASE Decide
  <2>1. /\ pc = "decide" /\ pc' = IF ErrorString \in ToSet(results) THEN "dead" ELSE "trade"
        /\ UNCHANGED <<legs, listed, kind, todo, results>>
    BY <1>4 DEF Decide, answers
  <2>2. BooksSoFar'
    BY <1>1, <2>1 DEF BooksSoFar, Sell, Buy, Pair
  <2> QED
    BY <1>1, <2>1, <2>2 DEF BooksInv
<1>5. CASE CheckNames
  <2>1. (pc' = "exit" /\ kind' = kind) \/ (pc' = "ask" /\ kind' = "ticker")
    BY <1>5 DEF CheckNames, Request
  <2> QED
    BY <1>1, <2>1 DEF BooksInv
<1>6. CASE UpdateMinCap
  <2>1. CASE pc' = "KeyError" /\ kind' = kind
    BY <1>1, <2>1 DEF BooksInv
  <2>2. CASE Request("book", <<WorkUnit(Sell, Pair), WorkUnit(Buy, Pair)>>, "ask")
    <3>1. /\ kind' = "book" /\ pc' = "ask" /\ results' = <<>>
          /\ todo' = <<WorkUnit(Sell, Pair), WorkUnit(Buy, Pair)>> /\ UNCHANGED <<legs, listed>>
      BY <2>2 DEF Request
    <3>2. BooksSoFar'
      BY <3>1 DEF BooksSoFar, Sell, Buy, Pair
    <3> QED
      BY <3>1, <3>2 DEF BooksInv
  <2> QED
    BY <1>6, <2>1, <2>2 DEF UpdateMinCap
<1>7. CASE ServiceRestart
  <2>1. pc' = "begin" /\ kind' = kind
    BY <1>7 DEF ServiceRestart
  <2> QED
    BY <1>1, <2>1 DEF BooksInv
<1>8. ~ (BeginPass \/ ServiceCrash)
  BY DEF BeginPass, ServiceCrash, Services
<1>9. ~ (AskPoloniex \/ AskBinance \/ Compare \/ AlarmsEnd \/ Copy \/ Copied \/ Insert \/ Commit \/ SaveAlarm \/ Tell)
  BY <1>1 DEF AskPoloniex, AskBinance, Compare, AlarmsEnd, Copy, Copied, Insert, Commit, SaveAlarm, Tell
<1> QED
  BY <1>2, <1>3, <1>4, <1>5, <1>6, <1>7, <1>8, <1>9 DEF ReaderStep

LEMMA BooksAreOfThePair == ASSUME BooksInv PROVE BooksOfItsPair
<1> SUFFICES ASSUME service = "bot", pc = "trade"
             PROVE  /\ results[1].of = <<Sell, Pair>> /\ results[2].of = <<Buy, Pair>>
                    /\ results[1].pair = Pair /\ results[2].pair = Pair
  BY DEF BooksOfItsPair
<1> DEFINE s == WorkUnit(Sell, Pair)
           b == WorkUnit(Buy, Pair)
<1>1. PICK x \in Book(s), y \in Book(b) : results = <<x, y>>
  BY DEF BooksInv, BooksSoFar
<1>2. results[1] = x /\ results[2] = y /\ x \in ToSet(results) /\ y \in ToSet(results)
  <2>1. DOMAIN results = {1, 2} /\ results[1] = x /\ results[2] = y
    BY <1>1
  <2> QED
    BY <2>1 DEF ToSet
<1>3. x # ErrorString /\ y # ErrorString
  BY <1>2 DEF BooksInv
<1>4. PICK q, r : x = RowOf("book", s, q) /\ y = RowOf("book", b, r)
  BY <1>3 DEF Book
<1>5. s.exchange = Sell /\ s.pair = Pair /\ b.exchange = Buy /\ b.pair = Pair
  BY DEF WorkUnit
<1> HIDE DEF s, b
<1> QED
  BY <1>2, <1>4, <1>5 DEF RowOf

-----------------------------------------------------------------------------
(* The whole. *)

ReaderInv == MarketInv /\ MonitorInv /\ BooksInv

LEMMA ReaderKeeps == ASSUME ReaderInv, BotInv, ReaderStep PROVE ReaderInv'
<1>1. MarketInv'
  BY MarketSteps DEF ReaderInv, ReaderStep
<1>2. MonitorInv'
  BY AnsweredSteps, GapSteps DEF ReaderInv, MonitorInv
<1>3. BooksInv'
  BY BooksSteps DEF ReaderInv
<1> QED
  BY <1>1, <1>2, <1>3 DEF ReaderInv

LEMMA OthersLeaveReaders == ASSUME ReaderInv, UNCHANGED market PROVE ReaderInv'
<1>1. MarketInv'
  BY OthersLeaveMarket DEF ReaderInv
<1>2. MonitorInv'
  BY DEF ReaderInv, MonitorInv, AnsweredInv, GapInv, GapsIn, Rows, Gap, market
<1>3. BooksInv'
  BY DEF ReaderInv, BooksInv, BooksSoFar, Sell, Buy, Pair, market
<1> QED
  BY <1>1, <1>2, <1>3 DEF ReaderInv

LEMMA ReaderInvHolds == Spec => []ReaderInv
<1>1. Init => ReaderInv
  BY MarketStarts, NothingAnswered, NoBooksYet DEF ReaderInv
<1>2. ReaderInv /\ BotInv /\ [Next]_vars => ReaderInv'
  <2> SUFFICES ASSUME ReaderInv, BotInv, [Next]_vars PROVE ReaderInv'
    OBVIOUS
  <2>1. CASE ReaderStep
    BY <2>1, ReaderKeeps
  <2>2. CASE UNCHANGED market
    BY <2>2, OthersLeaveReaders
  <2>3. ReaderStep \/ UNCHANGED market
    BY DEF Next, Begin, Read, Store, StartBot, TellOfGap, Say, Notify, Kill, Restart, ReaderStep, vars
  <2> QED
    BY <2>1, <2>2, <2>3
<1> QED
  BY <1>1, <1>2, BotInvHolds, PTL DEF Spec

LEMMA ToldInvHolds == Spec => []ToldInv
<1>1. Init => ToldInv
  BY DEF Init, InitNotifications, ToldInv
<1>2. ToldInv /\ TellInv /\ [Next]_vars => ToldInv'
  <2> SUFFICES ASSUME ToldInv, TellInv, [Next]_vars PROVE ToldInv'
    OBVIOUS
  <2>1. AlarmTopic \in TopicSet
    BY MonitoringAssumption, TopicsAssumption DEF AlarmTopic, TopicSet
  <2>2. \/ \E t \in TopicSet : AddMessage(t) \/ Send(t)
        \/ Look \/ SendFails \/ PutBack \/ NotifierCrash \/ NotifierRestart
        \/ UNCHANGED notifications
    BY <2>1 DEF Next, Begin, Read, Store, StartBot, TellOfGap, Say, Notify, NotifierStep, Kill, Restart, vars
  <2> QED
    BY <2>2, ToldSteps
<1> QED
  BY <1>1, <1>2, TellInvHolds, PTL DEF Spec

LEMMA CountsHold == Spec => [](passes \in 0 .. MaxPasses /\ kills \in 0 .. MaxKills)
<1>1. Init => passes \in 0 .. MaxPasses /\ kills \in 0 .. MaxKills
  BY MonitoringAssumption DEF Init
<1>2. /\ passes \in 0 .. MaxPasses /\ kills \in 0 .. MaxKills /\ [Next]_vars
      => (passes \in 0 .. MaxPasses /\ kills \in 0 .. MaxKills)'
  BY MonitoringAssumption
  DEF Next, Begin, Read, Store, StartBot, TellOfGap, Say, Notify, Kill, Restart, counts, vars
<1> QED
  BY <1>1, <1>2, PTL DEF Spec

\* A row of the listed pairs.
LEMMA RowsFit ==
  ASSUME MarketInv, NEW k \in Types, NEW r \in RowsOf(k, listed)
  PROVE  /\ r \in Row /\ r.kind = k
         /\ r.of = <<IF k = "history" /\ r.of[1] = "HUOBI" THEN "HUOBI" ELSE r.exchange, r.pair>>
         /\ r.of[1] = "HUOBI" /\ k = "history" => r.exchange = "BINANCE"
         /\ r.pair \in ToSet(listed) /\ r.of[2] = r.pair
<1>1. PICK x \in UnitsOf(k, listed) \X (Quotes \cup {NoQuote}) : r = RowOf(k, x[1], x[2])
  BY DEF RowsOf
<1> DEFINE u == x[1]
           q == x[2]
<1>2. u \in UnitsOf(k, listed) /\ q \in Quotes \cup {NoQuote} /\ r = RowOf(k, u, q)
  BY <1>1
<1> HIDE DEF u, q
<1>3. u.exchange \in Exchanges /\ u.pair \in ToSet(listed)
  BY <1>2, UnitFacts
<1>4. u.pair \in ValuePairs
  <2>1. listed \in Seq(ValuePairs)
    BY DEF MarketInv
  <2> QED
    BY <1>3, <2>1, ToSetInSeq
<1>5. /\ r.kind = k /\ r.pair = u.pair /\ r.quote = q /\ r.of = <<u.exchange, u.pair>>
      /\ r.exchange = IF k = "history" /\ u.exchange = "HUOBI" THEN "BINANCE" ELSE u.exchange
  BY <1>2 DEF RowOf
<1>6. r.of[1] = u.exchange /\ r.of[2] = u.pair
  BY <1>5
<1>7. r \in Row
  <2>1. "BINANCE" \in Exchanges
    BY DEF Exchanges
  <2> DEFINE of == <<u.exchange, u.pair>>
             filed == IF k = "history" /\ u.exchange = "HUOBI" THEN "BINANCE" ELSE u.exchange
  <2>2. of \in Exchanges \X ValuePairs /\ filed \in Exchanges
    BY <1>3, <1>4, <2>1
  <2>3. r = [kind |-> k, exchange |-> filed, pair |-> u.pair, quote |-> q, of |-> of]
    BY <1>2 DEF RowOf
  <2> HIDE DEF of, filed
  <2> QED
    BY <1>2, <1>4, <2>2, <2>3 DEF Row
<1> QED
  BY <1>3, <1>5, <1>6, <1>7

LEMMA StoredAre == ASSUME MarketInv, StoreInv PROVE opened \cup stored \subseteq RowsOf(kind, listed)
<1>1. Rows \subseteq RowsOf(kind, listed)
  BY RowsAre
<1> QED
  BY <1>1 DEF StoreInv

\* load_to_postgres, compare_price and the pool: what is asked, answered, stored and
\* told of has the type that the rest of the code expects, whatever the exchanges answer.
THEOREM MonitoringTypes == Spec => []TypeOK
<1>1. /\ MarketInv /\ StoreInv /\ TellInv /\ ToldInv
      /\ passes \in 0 .. MaxPasses /\ kills \in 0 .. MaxKills
      => TypeOK
  <2> SUFFICES ASSUME MarketInv, StoreInv, TellInv, ToldInv,
                      passes \in 0 .. MaxPasses, kills \in 0 .. MaxKills
               PROVE  TypeOK
    OBVIOUS
  <2>1. NotificationsTypeOK
    BY ToldTypes
  <2>2. kind \in Types /\ results \in Seq(AnswerOf(kind, listed))
    BY DEF MarketInv
  <2>3. ASSUME NEW i \in DOMAIN results
        PROVE  results[i] = ErrorString \/ (results[i] \in Row /\ results[i].kind = kind)
    <3>1. results[i] \in AnswerOf(kind, listed)
      <4> DEFINE S == AnswerOf(kind, listed)
      <4>1. results \in Seq(S)
        BY <2>2
      <4> HIDE DEF S
      <4>2. results[i] \in S
        BY <4>1
      <4> QED
        BY <4>2 DEF S
    <3> QED
      BY <2>2, <3>1, RowsFit DEF AnswerOf
  <2>4. opened \cup stored \subseteq Row
    BY <2>2, StoredAre, RowsFit
  <2>5. told \cup alarms \subseteq GapType
    <3>1. told \cup alarms \subseteq [first : RowsOf("ticker", listed), second : RowsOf("ticker", listed)]
      BY DEF MarketInv, TickerGaps
    <3>2. RowsOf("ticker", listed) \subseteq Row
      BY RowsFit DEF Types
    <3> HIDE DEF Row
    <3> QED
      BY <3>1, <3>2 DEF GapType
  <2>6. /\ service \in Services \cup {"bot"} /\ legs \in Bots \cup {<<>>}
        /\ alarms \subseteq told
        /\ aborted => pc \in {"alarms", "save", "insert"}
        /\ opened # {} => pc = "insert"
    BY DEF MarketInv, StoreInv, Telling
  <2> QED
    BY <2>1, <2>2, <2>3, <2>4, <2>5, <2>6 DEF TypeOK
<1> QED
  BY <1>1, ReaderInvHolds, StoreInvHolds, TellInvHolds, ToldInvHolds, CountsHold, PTL DEF ReaderInv

\* The processors and objects of every exchange: a row is filed under the exchange
\* and the pair that it was asked for, and an alarm is about one pair, whatever the
\* exchanges call their currencies; only Huobi's trades are filed under Binance.
THEOREM FiledUnderTheirMarket == Spec => []OwnMarket
<1>1. MarketInv /\ StoreInv => OwnMarket
  <2> SUFFICES ASSUME MarketInv, StoreInv PROVE OwnMarket
    OBVIOUS
  <2>1. kind \in Types
    BY DEF MarketInv
  <2>2. ASSUME NEW r \in opened \cup stored
        PROVE  /\ r.of = <<IF r.kind = "history" /\ r.of[1] = "HUOBI" THEN "HUOBI" ELSE r.exchange, r.pair>>
               /\ r.of[1] = "HUOBI" /\ r.kind = "history" => r.exchange = "BINANCE"
               /\ r.pair \in ToSet(listed)
    <3>1. r \in RowsOf(kind, listed)
      BY StoredAre
    <3> QED
      BY <2>1, <3>1, RowsFit
  <2>3. ASSUME NEW g \in told
        PROVE  g.first.pair = g.second.pair /\ g.first.of[2] = g.second.of[2]
    <3>1. /\ g.first \in RowsOf("ticker", listed) /\ g.second \in RowsOf("ticker", listed)
          /\ g.first.pair = g.second.pair
      BY DEF MarketInv, TickerGaps
    <3>2. "ticker" \in Types
      BY DEF Types
    <3> QED
      BY <3>1, <3>2, RowsFit
  <2> QED
    BY <2>2, <2>3 DEF OwnMarket
<1> QED
  BY <1>1, ReaderInvHolds, StoreInvHolds, PTL DEF ReaderInv

\* compare_price and analyse_tickers: when tickers go on to be stored their operators
\* have been told of every gap that the answers had, and of nothing that is none,
\* for any number of exchanges, pairs and prices.
THEOREM EveryGapIsTold == Spec => []NoGapMissed
<1>1. MarketInv /\ MonitorInv => NoGapMissed
  <2> SUFFICES ASSUME MarketInv, MonitorInv, service = "monitoring", pc = "insert"
               PROVE  /\ \A a, b \in answered :
                           RealGap(a, b) =>
                             \E g \in told : /\ g.first.exchange = a.exchange /\ g.first.quote = a.quote
                                             /\ g.second.exchange = b.exchange /\ g.second.quote = b.quote
                                             /\ g.first.pair = a.pair
                      /\ \A g \in told : g.first.quote.bid > g.second.quote.ask /\ g.second.quote.ask > 0
    BY DEF NoGapMissed
  <2>1. /\ kind = "ticker" /\ GapsIn(told)
        /\ \A a \in answered : \E r \in Rows : r.exchange = a.exchange /\ r.pair = a.pair /\ r.quote = a.quote
    BY DEF MonitorInv, GapInv, AnsweredInv
  <2>2. \A r \in RowsOf("ticker", listed) : r.quote.ask \in Nat /\ r.quote.bid \in Nat
    <3> TAKE r \in RowsOf("ticker", listed)
    <3>1. r.quote \in Quotes \cup {NoQuote}
      BY RowsFit DEF Types, Row
    <3>2. NoQuote.ask = 0 /\ NoQuote.bid = 0
      BY DEF NoQuote
    <3> QED
      BY <3>1, <3>2, QuoteAssumption
  <2>3. Rows \subseteq RowsOf("ticker", listed)
    BY <2>1, RowsAre
  <2>4. ASSUME NEW a \in answered, NEW b \in answered, RealGap(a, b)
        PROVE  \E g \in told : /\ g.first.exchange = a.exchange /\ g.first.quote = a.quote
                               /\ g.second.exchange = b.exchange /\ g.second.quote = b.quote
                               /\ g.first.pair = a.pair
    <3>1. PICK r \in Rows : r.exchange = a.exchange /\ r.pair = a.pair /\ r.quote = a.quote
      BY <2>1
    <3>2. PICK s \in Rows : s.exchange = b.exchange /\ s.pair = b.pair /\ s.quote = b.quote
      BY <2>1
    <3>3. r.quote.bid \in Nat /\ s.quote.ask \in Nat
      BY <2>2, <2>3
    <3>4. /\ r.pair = s.pair /\ r.exchange # s.exchange /\ r.quote.bid > 0 /\ s.quote.ask > 0
          /\ 200000 * (r.quote.bid - s.quote.ask) >= Threshold * (r.quote.bid + s.quote.ask)
      BY <2>4, <3>1, <3>2 DEF RealGap
    <3>5. GetChange(r.quote.bid, s.quote.ask) >= Threshold
      BY <3>3, <3>4, GapIsReal
    <3>6. Gap(r, s)
      BY <3>3, <3>4, <3>5 DEF Gap
    <3> DEFINE g == [first |-> r, second |-> s]
    <3>7. g \in told
      BY <2>1, <3>4, <3>6 DEF GapsIn
    <3>8. g.first = r /\ g.second = s
      OBVIOUS
    <3> HIDE DEF g
    <3> QED
      BY <3>1, <3>2, <3>7, <3>8
  <2>5. ASSUME NEW g \in told
        PROVE  g.first.quote.bid > g.second.quote.ask /\ g.second.quote.ask > 0
    <3>1. /\ g.first \in RowsOf("ticker", listed) /\ g.second \in RowsOf("ticker", listed)
          /\ Gap(g.first, g.second)
      BY DEF MarketInv, TickerGaps
    <3>2. g.first.quote.bid \in Nat /\ g.second.quote.ask \in Nat
      BY <2>2, <3>1
    <3>3. g.second.quote.ask # 0 /\ GetChange(g.first.quote.bid, g.second.quote.ask) >= Threshold
      BY <3>1 DEF Gap
    <3>4. g.first.quote.bid > g.second.quote.ask
      BY <3>2, <3>3, GapIsReal
    <3> QED
      BY <3>2, <3>3, <3>4
  <2> QED
    BY <2>4, <2>5
<1> QED
  BY <1>1, ReaderInvHolds, PTL DEF ReaderInv

\* arbitrage_between_pair.py up to its first decision: a bot starts to trade the pair
\* that it was started for, on the books of its own exchanges in their order, or not
\* at all, and never looks up what a table does not have.
THEOREM BotsTradeTheirPair == Spec => []BotsKnowTheirPair
<1>1. BooksInv => BooksOfItsPair
  BY BooksAreOfThePair
<1>2. NeverAKeyError /\ BooksOfItsPair => BotsKnowTheirPair
  BY DEF BotsKnowTheirPair
<1> QED
  BY <1>1, <1>2, NoKeyErrors, ReaderInvHolds, PTL DEF ReaderInv
=============================================================================
