-------------------------- MODULE OrderBookSync_proofs --------------------------
(***************************************************************************)
(* The local order books of a process that is subscribed to two exchanges, *)
(* for any pairs of exchanges, and any number of updates and resets.       *)
(***************************************************************************)
EXTENDS OrderBookSync, TLAPS

-----------------------------------------------------------------------------
(* Types. *)

PCs == {"idle", "start", "connect", "read", "asleep", "called", "put", "update", "decide",
        "leave"}
Stages == {"unknown", "resetting", "before", "after"}
Doing == [pc : PCs, event : Event \cup {None}, stage : Stages]
Book == [seq : Version \cup {None}, upto : Version \cup {Corrupt}]

\* TypeOK by the parts that steps change together.
ExchangeTypes ==
  /\ kind \in [Sides -> Kinds] /\ kind \in Configs
  /\ version \in [Sides -> Version]
ConnectionTypes ==
  /\ wire \in [Sides -> Seq(Event)]
  /\ open \in [Sides -> BOOLEAN]
  /\ running \in [Sides -> BOOLEAN]
ThreadTypes == thread \in [Threads -> Doing]
BookTypes ==
  /\ book \in [Sides -> Book]
  /\ synced \in [Sides -> BOOLEAN]
  /\ queue \in [Sides -> Seq(Event)]
SyncTypes ==
  /\ sync \in [Sides -> {"idle", "fetch", "drain", "done"}]
  /\ gaps \subseteq Sides
  /\ dead \in BOOLEAN
MainTypes ==
  /\ main \in {"pause", "init", "subscribe", "sync", "join", "check", "watch", "hold"}
  /\ stage \in Stages
  /\ resets \in 0 .. MaxResets

\* A thread that handles an event has one.
TakesEvents ==
  \A t \in Threads : thread[t].pc \in {"called", "put", "update"} => thread[t].event \in Event

TypeInv ==
  /\ ExchangeTypes /\ ConnectionTypes /\ ThreadTypes /\ BookTypes /\ SyncTypes /\ MainTypes
  /\ TakesEvents

LEMMA TypeInvSuffices == TypeInv => TypeOK
BY DEF TypeInv, TypeOK, ExchangeTypes, ConnectionTypes, ThreadTypes, BookTypes, SyncTypes,
       MainTypes, PCs, Stages, Doing, Book

LEMMA Versions ==
  /\ None \notin Version /\ Version \subseteq Int
  /\ 0 \in Version
  /\ \A v \in Version : {v, v - 1} \cap Nat \subseteq Version
BY SyncAssumption DEF Version

LEMMA SideOfThread == ASSUME NEW t \in Threads PROVE t[1] \in Sides /\ t[2] \in {1, 2} /\ t = <<t[1], t[2]>>
BY DEF Threads

\* An update leaves a book of the right kind behind, and one that it has got to.
LEMMA UpdatedIsBook ==
  ASSUME NEW b \in Book, NEW e \in Event
  PROVE  /\ Updated(b, e) \in Book
         /\ b.seq # None => Updated(b, e).seq # None
<1>1. e.last \in Version /\ e.first \in Int /\ b.seq \in Version \cup {None}
      /\ b.upto \in Version \cup {Corrupt}
  BY SyncAssumption DEF Event, Book, Version
<1>2. Levels(b, e) \in Version \cup {Corrupt}
  BY <1>1 DEF Levels
<1> QED
  BY <1>1, <1>2, Versions DEF Updated, Book

\* A thread that moves on keeps its event and the stage it has read.
LEMMA GoOn ==
  ASSUME ThreadTypes, TakesEvents, NEW t \in Threads, NEW pc \in PCs, Goto(t, pc),
         pc \in {"called", "put", "update"} => thread[t].event \in Event
  PROVE  ThreadTypes' /\ TakesEvents'
<1>1. [thread[t] EXCEPT !.pc = pc] \in Doing
  BY DEF ThreadTypes, Doing
<1>2. thread' = [thread EXCEPT ![t] = [thread[t] EXCEPT !.pc = pc]]
  BY DEF Goto, ThreadTypes
<1>3. ThreadTypes'
  BY <1>1, <1>2 DEF ThreadTypes
<1>4. ASSUME NEW u \in Threads, thread'[u].pc \in {"called", "put", "update"}
      PROVE  thread'[u].event \in Event
  <2>1. CASE u = t
    BY <2>1, <1>2, <1>4 DEF ThreadTypes, Doing
  <2>2. CASE u # t
    BY <2>2, <1>2, <1>4 DEF ThreadTypes, TakesEvents
  <2> QED
    BY <2>1, <2>2
<1> QED
  BY <1>3, <1>4 DEF TakesEvents

LEMMA NoEventHandled ==
  /\ Idle \in Doing /\ Idle.pc = "idle" /\ Idle.stage = "unknown"
  /\ Asleep \in Doing /\ Asleep.pc = "asleep" /\ Asleep.stage = "unknown"
BY DEF Idle, Asleep, Doing, PCs, Stages

\* A thread that ends, or sleeps, handles no event.
LEMMA GoIdle ==
  ASSUME ThreadTypes, TakesEvents, NEW t \in Threads,
         NEW d \in {Idle, Asleep}, thread' = [thread EXCEPT ![t] = d]
  PROVE  ThreadTypes' /\ TakesEvents'
BY NoEventHandled DEF ThreadTypes, TakesEvents

LEMMA DisconnectTypes ==
  ASSUME ConnectionTypes, NEW D, Disconnect(D)
  PROVE  ConnectionTypes'
<1>1. wire' \in [Sides -> Seq(Event)]
  BY DEF Disconnect, ConnectionTypes
<1>2. open' \in [Sides -> BOOLEAN] /\ running' \in [Sides -> BOOLEAN]
  BY DEF Disconnect, ConnectionTypes
<1> QED
  BY <1>1, <1>2 DEF ConnectionTypes

LEMMA TypesInit == Init => TypeInv
<1> SUFFICES ASSUME Init PROVE TypeInv
  OBVIOUS
<1>1. Idle \in Doing /\ Idle.pc = "idle"
  BY DEF Idle, Doing, PCs, Stages
<1>2. Empty \in Book
  BY Versions DEF Empty, Book
<1>3. <<>> \in Seq(Event)
  OBVIOUS
<1>4. ExchangeTypes /\ ConnectionTypes
  BY <1>3, SyncAssumption, Versions DEF Init, ExchangeTypes, ConnectionTypes
<1>5. ThreadTypes /\ TakesEvents
  BY <1>1 DEF Init, ThreadTypes, TakesEvents
<1>6. BookTypes
  BY <1>2, <1>3 DEF Init, BookTypes
<1>7. SyncTypes
  BY DEF Init, SyncTypes
<1>8. MainTypes
  <2>1. 0 \in 0 .. MaxResets
    BY SyncAssumption
  <2> QED
    BY <2>1 DEF Init, MainTypes, Stages
<1> QED
  BY <1>4, <1>5, <1>6, <1>7, <1>8 DEF TypeInv

LEMMA TradeTypes == ASSUME TypeInv, NEW s \in Sides, Trade(s) PROVE TypeInv'
<1>1. PICK n \in version[s] + 1 .. MaxVersion :
        /\ version' = [version EXCEPT ![s] = n]
        /\ wire' = IF open[s]
             THEN [wire EXCEPT ![s] = Append(@,
                    [full |-> kind[s] = "huobi", first |-> version[s] + 1, last |-> n])]
             ELSE wire
  BY DEF Trade
<1>2. n \in Version /\ n \in 0 .. MaxVersion /\ version[s] + 1 \in 1 .. MaxVersion
  BY SyncAssumption DEF TypeInv, ExchangeTypes, Version
<1>3. PICK full \in BOOLEAN : full = (kind[s] = "huobi")
  OBVIOUS
<1>4. [full |-> full, first |-> version[s] + 1, last |-> n] \in Event
  BY <1>2 DEF Event
<1>5. wire' \in [Sides -> Seq(Event)]
  BY <1>1, <1>3, <1>4 DEF TypeInv, ConnectionTypes
<1> QED
  BY <1>1, <1>2, <1>5
  DEF Trade, TypeInv, ExchangeTypes, ConnectionTypes, ThreadTypes, BookTypes, SyncTypes,
      MainTypes, TakesEvents

\* The variables that the steps of the subscriptions leave alone.
LEMMA ThreadStepTypes ==
  ASSUME TypeInv, UNCHANGED <<kind, version, local, supervision, gaps, dead>>,
         ConnectionTypes', ThreadTypes', TakesEvents'
  PROVE  TypeInv'
BY DEF TypeInv, ExchangeTypes, BookTypes, SyncTypes, MainTypes, local, supervision

LEMMA ConnectTypes == ASSUME TypeInv, NEW t \in Threads, Connect(t) PROVE TypeInv'
<1>1. t[1] \in Sides
  BY SideOfThread
<1>2. CASE /\ open' = [open EXCEPT ![t[1]] = TRUE]
           /\ wire' = [wire EXCEPT ![t[1]] =
                IF kind[t[1]] = "poloniex"
                  THEN <<[full |-> TRUE, first |-> 1, last |-> version[t[1]]]>> ELSE <<>>]
           /\ Goto(t, "read")
           /\ UNCHANGED running
  <2>1. [full |-> TRUE, first |-> 1, last |-> version[t[1]]] \in Event
    BY <1>1, SyncAssumption DEF TypeInv, ExchangeTypes, Event, Version
  <2>2. <<[full |-> TRUE, first |-> 1, last |-> version[t[1]]]>> \in Seq(Event)
    BY <2>1
  <2>3. ConnectionTypes'
    BY <1>1, <1>2, <2>2 DEF TypeInv, ConnectionTypes
  <2> QED
    BY <1>2, <2>3, GoOn, ThreadStepTypes DEF Connect, TypeInv, PCs
<1>3. CASE Disconnect({t[1]}) /\ thread' = [thread EXCEPT ![t] = Idle]
  BY <1>3, DisconnectTypes, GoIdle, ThreadStepTypes DEF Connect, TypeInv
<1> QED
  BY <1>2, <1>3 DEF Connect

LEMMA ReceiveTypes == ASSUME TypeInv, NEW t \in Threads, Receive(t) PROVE TypeInv'
<1>1. t[1] \in Sides
  BY SideOfThread
<1>2. CASE /\ thread' = [thread EXCEPT ![t] =
                [pc |-> "called", event |-> Head(wire[t[1]]), stage |-> stage]]
           /\ wire' = [wire EXCEPT ![t[1]] = Tail(@)]
           /\ UNCHANGED <<running, open>>
  <2>1. wire[t[1]] \in Seq(Event) /\ wire[t[1]] # <<>>
    BY <1>1 DEF Receive, TypeInv, ConnectionTypes
  <2>2. Head(wire[t[1]]) \in Event /\ Tail(wire[t[1]]) \in Seq(Event)
    BY <2>1
  <2>3. ConnectionTypes'
    BY <1>1, <1>2, <2>2 DEF TypeInv, ConnectionTypes
  <2>4. [pc |-> "called", event |-> Head(wire[t[1]]), stage |-> stage] \in Doing
    BY <2>2 DEF TypeInv, MainTypes, Doing, PCs
  <2>5. ThreadTypes' /\ TakesEvents'
    BY <1>2, <2>2, <2>4 DEF TypeInv, ThreadTypes, TakesEvents
  <2> QED
    BY <2>3, <2>5, ThreadStepTypes DEF Receive
<1>3. CASE Disconnect(Sides) /\ UNCHANGED thread
  BY <1>3, DisconnectTypes, ThreadStepTypes DEF Receive, TypeInv, ThreadTypes, TakesEvents
<1> QED
  BY <1>2, <1>3 DEF Receive

LEMMA PutTypes == ASSUME TypeInv, NEW t \in Threads, Put(t) PROVE TypeInv'
<1>1. t[1] \in Sides /\ thread[t].event \in Event
  BY SideOfThread DEF Put, At, TypeInv, TakesEvents
<1>2. ThreadTypes' /\ TakesEvents'
  BY GoOn DEF Put, TypeInv, PCs
<1>3. BookTypes'
  BY <1>1 DEF Put, TypeInv, BookTypes
<1> QED
  BY <1>2, <1>3
  DEF Put, TypeInv, ExchangeTypes, ConnectionTypes, SyncTypes, MainTypes, connection, supervision

LEMMA UpdateTypes == ASSUME TypeInv, NEW t \in Threads, Update(t) PROVE TypeInv'
<1>1. t[1] \in Sides /\ thread[t].event \in Event
  BY SideOfThread DEF Update, At, TypeInv, TakesEvents
<1>2. BookTypes'
  BY <1>1, UpdatedIsBook DEF Update, TypeInv, BookTypes
<1>3. /\ ConnectionTypes' /\ ThreadTypes' /\ TakesEvents'
      /\ gaps' \subseteq Sides
  <2>1. CASE Gap(book[t[1]], thread[t].event)
    <3>1. Disconnect(Sides) /\ gaps' = gaps \cup {t[1]} /\ Goto(t, "read")
      BY <2>1 DEF Update
    <3> QED
      BY <1>1, <3>1, DisconnectTypes, GoOn DEF TypeInv, PCs, SyncTypes
  <2>2. CASE ~ Gap(book[t[1]], thread[t].event)
    <3>1. PICK pc \in {"leave", "decide", "read"} : Goto(t, pc)
      BY <2>2 DEF Update
    <3>2. UNCHANGED <<connection, gaps>>
      BY <2>2 DEF Update
    <3> QED
      BY <3>1, <3>2, GoOn DEF TypeInv, PCs, SyncTypes, connection, ConnectionTypes
  <2> QED
    BY <2>1, <2>2
<1> QED
  BY <1>2, <1>3 DEF Update, TypeInv, ExchangeTypes, SyncTypes, MainTypes, supervision

LEMMA SubscriptionTypes ==
  ASSUME TypeInv, NEW t \in Threads, SubscriptionStep(t) \/ Fail(t)
  PROVE  TypeInv'
<1>1. t[1] \in Sides
  BY SideOfThread
<1>2. CASE Subscribe(t)
  <2>1. CASE running[t[1]]
    BY <1>2, <2>1
    DEF Subscribe, TypeInv, ExchangeTypes, ConnectionTypes, ThreadTypes, BookTypes, SyncTypes,
        MainTypes, TakesEvents, local, supervision
  <2>2. CASE ~ running[t[1]]
    <3>1. ThreadTypes' /\ TakesEvents'
      BY <1>2, <2>2, GoOn DEF Subscribe, TypeInv, PCs
    <3>2. ConnectionTypes'
      BY <1>1, <1>2, <2>2 DEF Subscribe, TypeInv, ConnectionTypes
    <3> QED
      BY <1>2, <2>2, <3>1, <3>2, ThreadStepTypes DEF Subscribe
  <2> QED
    BY <2>1, <2>2
<1>3. CASE Connect(t)
  BY <1>3, ConnectTypes
<1>4. CASE Stop(t) \/ Decide(t)
  <2>1. ConnectionTypes'
    BY <1>4 DEF Stop, Decide, connection, TypeInv, ConnectionTypes
  <2>2. ThreadTypes' /\ TakesEvents'
    BY <1>4, GoOn, GoIdle DEF Stop, Decide, TypeInv, PCs
  <2> QED
    BY <1>4, <2>1, <2>2, ThreadStepTypes DEF Stop, Decide
<1>10. CASE End(t)
  BY <1>10, DisconnectTypes, GoIdle, ThreadStepTypes DEF End, TypeInv
<1>11. CASE Fail(t) /\ ~ End(t)
  <2>1. ConnectionTypes' /\ Goto(t, "leave")
    BY <1>11 DEF Fail, connection, TypeInv, ConnectionTypes
  <2>2. ThreadTypes' /\ TakesEvents'
    BY <2>1, GoOn DEF TypeInv, PCs
  <2> QED
    BY <1>11, <2>1, <2>2, ThreadStepTypes DEF Fail
<1>5. CASE Receive(t)
  BY <1>5, ReceiveTypes
<1>6. CASE Branch(t)
  <2>1. PICK pc \in {"put", "update", "read"} : Goto(t, pc)
    BY <1>6 DEF Branch
  <2>2. thread[t].event \in Event
    BY <1>6 DEF Branch, At, TypeInv, TakesEvents
  <2>3. ThreadTypes' /\ TakesEvents'
    BY <2>1, <2>2, GoOn DEF TypeInv, PCs
  <2>4. ConnectionTypes'
    BY <1>6 DEF Branch, connection, TypeInv, ConnectionTypes
  <2> QED
    BY <1>6, <2>3, <2>4, ThreadStepTypes DEF Branch
<1>7. CASE Put(t)
  BY <1>7, PutTypes
<1>8. CASE Update(t)
  BY <1>8, UpdateTypes
<1>9. CASE Leave(t)
  BY <1>9, DisconnectTypes, GoIdle, ThreadStepTypes DEF Leave, TypeInv
<1> QED
  BY <1>2, <1>3, <1>4, <1>5, <1>6, <1>7, <1>8, <1>9, <1>10, <1>11 DEF SubscriptionStep, Wake

LEMMA FetchTypes == ASSUME TypeInv, NEW s \in Sides, Fetch(s) PROVE TypeInv'
<1>1. BookTypes'
  <2>1. ASSUME NEW v \in {version[s], version[s] - 1} \cap Nat
        PROVE  [seq |-> v, upto |-> v] \in Book
    BY Versions DEF TypeInv, ExchangeTypes, Book
  <2>2. Empty \in Book
    BY Versions DEF Empty, Book
  <2>3. book' \in [Sides -> Book]
    BY <2>1, <2>2 DEF Fetch, TypeInv, BookTypes
  <2> QED
    BY <2>3 DEF Fetch, Synced, TypeInv, BookTypes
<1>2. SyncTypes'
  BY DEF Fetch, Synced, TypeInv, SyncTypes
<1> QED
  BY <1>1, <1>2
  DEF Fetch, TypeInv, ExchangeTypes, ConnectionTypes, ThreadTypes, MainTypes, TakesEvents, connection

LEMMA DrainTypes == ASSUME TypeInv, NEW s \in Sides, Drain(s) PROVE TypeInv'
<1>1. BookTypes' /\ SyncTypes'
  <2>1. CASE queue[s] = <<>> \/ UNCHANGED <<book, queue, gaps>>
    BY <2>1 DEF Drain, Synced, TypeInv, BookTypes, SyncTypes
  <2>2. CASE /\ queue[s] # <<>>
             /\ queue' = [queue EXCEPT ![s] = Tail(@)]
             /\ book' = [book EXCEPT ![s] = Updated(@, Head(queue[s]))]
             /\ IF Gap(book[s], Head(queue[s]))
                  THEN Synced(s, FALSE) /\ gaps' = gaps \cup {s}
                  ELSE UNCHANGED <<synced, sync, gaps>>
    <3>1. queue[s] \in Seq(Event) /\ queue[s] # <<>>
      BY <2>2 DEF TypeInv, BookTypes
    <3>2. Head(queue[s]) \in Event /\ Tail(queue[s]) \in Seq(Event)
      BY <3>1
    <3>3. book' \in [Sides -> Book] /\ queue' \in [Sides -> Seq(Event)]
      BY <2>2, <3>2, UpdatedIsBook DEF TypeInv, BookTypes
    <3>4. synced' \in [Sides -> BOOLEAN]
      BY <2>2 DEF Synced, TypeInv, BookTypes
    <3>5. SyncTypes'
      BY <2>2 DEF Drain, Synced, TypeInv, SyncTypes
    <3> QED
      BY <3>3, <3>4, <3>5 DEF BookTypes
  <2> QED
    BY <2>1, <2>2 DEF Drain
<1> QED
  BY <1>1
  DEF Drain, TypeInv, ExchangeTypes, ConnectionTypes, ThreadTypes, MainTypes, TakesEvents, connection

LEMMA SubscribeBothTypes == ASSUME TypeInv, SubscribeBoth PROVE TypeInv'
<1>1. [Idle EXCEPT !.pc = "start"] \in Doing /\ [Idle EXCEPT !.pc = "start"].pc = "start"
  BY DEF Idle, Doing, PCs, Stages
<1>2. ThreadTypes' /\ TakesEvents'
  BY <1>1 DEF SubscribeBoth, TypeInv, ThreadTypes, TakesEvents
<1> QED
  BY <1>2
  DEF SubscribeBoth, MainGoto, TypeInv, ExchangeTypes, ConnectionTypes, BookTypes, SyncTypes,
      MainTypes, connection, local

LEMMA MainTypesKept == ASSUME TypeInv, MainStep PROVE TypeInv'
<1>1. CASE Clear
  <2>1. resets' \in 0 .. MaxResets
    BY <1>1, SyncAssumption DEF Clear, TypeInv, MainTypes
  <2> QED
    BY <1>1, <2>1
    DEF Clear, MainGoto, Subscriptions, connection, TypeInv, ExchangeTypes, ConnectionTypes,
        ThreadTypes, BookTypes, SyncTypes, MainTypes, Stages, TakesEvents
<1>2. CASE InitState
  <2>1. Empty \in Book
    BY Versions DEF Empty, Book
  <2> QED
    BY <1>2, <2>1
    DEF InitState, MainGoto, Subscriptions, connection, TypeInv, ExchangeTypes, ConnectionTypes,
        ThreadTypes, BookTypes, SyncTypes, MainTypes, Stages, TakesEvents
<1>3. CASE SubscribeBoth
  BY <1>3, SubscribeBothTypes
<1>4. CASE StartSync \/ Join \/ NoticeStop \/ Hold
  BY <1>4
  DEF StartSync, Join, NoticeStop, Hold, MainGoto, Subscriptions, connection, local, TypeInv,
      ExchangeTypes, ConnectionTypes, ThreadTypes, BookTypes, SyncTypes, MainTypes, Stages,
      TakesEvents
<1>5. CASE Check
  <2>1. ConnectionTypes'
    BY <1>5, DisconnectTypes DEF Check, connection, TypeInv, ConnectionTypes
  <2> QED
    BY <1>5, <2>1
    DEF Check, MainGoto, local, TypeInv, ExchangeTypes, ThreadTypes, BookTypes, SyncTypes,
        MainTypes, TakesEvents
<1> QED
  BY <1>1, <1>2, <1>3, <1>4, <1>5 DEF MainStep

LEMMA TypesKept == TypeInv /\ [Next]_vars => TypeInv'
<1> SUFFICES ASSUME TypeInv, [Next]_vars PROVE TypeInv'
  OBVIOUS
<1>1. CASE UNCHANGED vars
  BY <1>1
  DEF vars, TypeInv, ExchangeTypes, ConnectionTypes, ThreadTypes, BookTypes, SyncTypes,
      MainTypes, TakesEvents
<1> QED
  BY <1>1, TradeTypes, FetchTypes, DrainTypes, SubscriptionTypes, MainTypesKept DEF Next

\* The variables of the synchronisation have their types, whatever the exchanges do
\* and however slow threads are.
THEOREM SyncTypesHold == Safe => []TypeOK
<1>1. Init => TypeInv
  BY TypesInit
<1>2. TypeInv /\ [Next]_vars => TypeInv'
  BY TypesKept
<1> QED
  BY <1>1, <1>2, TypeInvSuffices, PTL DEF Safe

-----------------------------------------------------------------------------
(* What a book is built upon. *)

\* The update of a book that is exact leaves an exact book: a delta is put upon the
\* update right before it or not at all.
LEMMA UpdatedIsExact ==
  ASSUME NEW b \in Book, NEW e \in Event, b.seq # None => b.upto = b.seq
  PROVE  Updated(b, e).seq # None => Updated(b, e).upto = Updated(b, e).seq
<1>1. e.last \in Version /\ e.first \in Int /\ (b.seq # None => b.seq \in Int)
  BY SyncAssumption, Versions DEF Event, Book, Version
<1>2. ASSUME Fits(b, e) PROVE Levels(b, e) = e.last
  <2>1. b.seq # None /\ b.seq + 1 = e.first /\ b.upto = b.seq
    BY <1>2 DEF Fits
  <2> QED
    BY <1>1, <2>1 DEF Levels
<1> QED
  BY <1>2 DEF Updated

\* One book is updated, and the others are left alone.
LEMMA ExactBookUpdated ==
  ASSUME TypeInv, BookExact, NEW s \in Sides, NEW e \in Event,
         book' = [book EXCEPT ![s] = Updated(@, e)]
  PROVE  BookExact'
<1>1. ASSUME NEW r \in Sides, book'[r].seq # None PROVE book'[r].upto = book'[r].seq
  <2>1. book[r] \in Book /\ (book[r].seq # None => book[r].upto = book[r].seq)
    BY DEF TypeInv, BookTypes, BookExact
  <2>2. CASE r = s
    BY <1>1, <2>1, <2>2, UpdatedIsExact DEF TypeInv, BookTypes
  <2>3. CASE r # s
    BY <1>1, <2>1, <2>3 DEF TypeInv, BookTypes
  <2> QED
    BY <2>2, <2>3
<1> QED
  BY <1>1 DEF BookExact

LEMMA ExactKept == ASSUME TypeInv, BookExact, Next PROVE BookExact'
<1>1. CASE UNCHANGED book
  BY <1>1 DEF BookExact
<1>2. ASSUME NEW t \in Threads, Update(t) PROVE BookExact'
  <2>1. t[1] \in Sides /\ thread[t].event \in Event
    BY <1>2, SideOfThread DEF Update, At, TypeInv, TakesEvents
  <2>2. book' = [book EXCEPT ![t[1]] = Updated(@, thread[t].event)]
    BY <1>2, <2>1 DEF Update, TypeInv, BookTypes
  <2> QED
    BY <2>1, <2>2, ExactBookUpdated
<1>3. ASSUME NEW s \in Sides, Drain(s) PROVE BookExact'
  <2>1. CASE UNCHANGED book
    BY <2>1 DEF BookExact
  <2>2. CASE queue[s] # <<>> /\ book' = [book EXCEPT ![s] = Updated(@, Head(queue[s]))]
    <3>1. queue[s] \in Seq(Event) /\ queue[s] # <<>>
      BY <2>2 DEF TypeInv, BookTypes
    <3>2. Head(queue[s]) \in Event
      BY <3>1
    <3> QED
      BY <2>2, <3>2, ExactBookUpdated
  <2> QED
    BY <1>3, <2>1, <2>2 DEF Drain
<1>4. ASSUME NEW s \in Sides, Fetch(s) PROVE BookExact'
  <2>1. PICK b \in Book : (b.seq # None => b.upto = b.seq)
                         /\ (book' = [book EXCEPT ![s] = b] \/ UNCHANGED book)
    <3>1. ASSUME NEW v \in {version[s], version[s] - 1} \cap Nat
          PROVE  [seq |-> v, upto |-> v] \in Book
      BY Versions DEF TypeInv, ExchangeTypes, Book
    <3>2. Empty \in Book /\ Empty.seq = None
      BY Versions DEF Empty, Book
    <3> QED
      BY <1>4, <3>1, <3>2 DEF Fetch
  <2> QED
    BY <2>1 DEF TypeInv, BookTypes, BookExact
<1>5. CASE InitState
  BY <1>5 DEF InitState, Empty, BookExact
<1>6. ASSUME NEW t \in Threads, SubscriptionStep(t) \/ Fail(t), ~ Update(t) PROVE UNCHANGED book
  BY <1>6
  DEF SubscriptionStep, Subscribe, Connect, Stop, Wake, End, Fail, Receive, Branch, Put, Decide,
      Leave, local
<1>7. ASSUME MainStep, ~ InitState PROVE UNCHANGED book
  BY <1>7 DEF MainStep, Clear, SubscribeBoth, StartSync, Join, Check, NoticeStop, Hold, local
<1>8. ASSUME NEW s \in Sides, Trade(s) PROVE UNCHANGED book
  BY <1>8 DEF Trade
<1> QED
  BY <1>1, <1>2, <1>3, <1>4, <1>5, <1>6, <1>7, <1>8 DEF Next

\* update_for_*: a local book has the very levels that the exchange had at the update
\* its sequence_id names, whatever was lost, queued too late or came from before a
\* reset, and however slow threads are.
THEOREM BooksAreExact == Safe => []BookExact
<1>1. Init => TypeInv /\ BookExact
  BY TypesInit DEF Init, Empty, BookExact
<1>2. TypeInv /\ BookExact /\ [Next]_vars => TypeInv' /\ BookExact'
  <2>1. BookExact /\ UNCHANGED vars => BookExact'
    BY DEF BookExact, vars
  <2> QED
    BY <2>1, TypesKept, ExactKept
<1> QED
  BY <1>1, <1>2, PTL DEF Safe

-----------------------------------------------------------------------------
(* One thread for each subscription, Bittrex' sleeping ones aside. *)

\* A reset goes on when every thread has ended or sleeps, so that what it starts is the
\* only one of its side to receive events.
OneThread ==
  /\ \A t, u \in Threads : Busy(t) /\ Busy(u) /\ t[1] = u[1] => t = u
  /\ main \in {"init", "subscribe"} => \A t \in Threads : ~ Busy(t)

LEMMA OneThreadInit == ASSUME Init PROVE OneThread
BY DEF Init, Idle, OneThread, Busy

\* Of the steps, only those of SubscribeBoth make a thread busy.
LEMMA StaysIdle ==
  ASSUME TypeInv, NEW t \in Threads, SubscriptionStep(t) \/ Fail(t)
  PROVE  /\ \A u \in Threads : Busy(u)' => Busy(u)
         /\ UNCHANGED main
<1>1. Busy(t) \/ End(t)
  BY DEF SubscriptionStep, Subscribe, Connect, Stop, Wake, Fail, Receive, Branch, Put, Update,
         Decide, Leave, At, Busy
<1>2. CASE End(t)
  BY <1>2, NoEventHandled DEF End, Busy, TypeInv, ThreadTypes, supervision
<1>3. CASE ~ End(t)
  <2>1. UNCHANGED main
    BY <1>3
    DEF SubscriptionStep, Subscribe, Connect, Stop, Wake, Fail, Receive, Branch, Put, Update,
        Decide, Leave, supervision
  <2>2. \A u \in Threads \ {t} : thread'[u] = thread[u]
    BY <1>3
    DEF SubscriptionStep, Subscribe, Connect, Stop, Wake, Fail, Receive, Branch, Put, Update,
        Decide, Leave, Goto, TypeInv, ThreadTypes
  <2> QED
    BY <1>1, <1>3, <2>1, <2>2 DEF Busy
<1> QED
  BY <1>2, <1>3

\* The main thread, whose pauses are long enough.
LEMMA MainWaits ==
  ASSUME ~ Slow, TypeInv, OneThread, MainStep
  PROVE  OneThread'
<1>1. CASE Clear
  BY <1>1 DEF Clear, Subscriptions, OneThread, Busy
<1>2. CASE SubscribeBoth
  <2>1. main = "subscribe" /\ main' = "sync"
    BY <1>2 DEF SubscribeBoth, MainAt, MainGoto
  <2>2. PICK f \in [Sides -> {1, 2}] :
          thread' = [t \in Threads |->
            IF t[2] = f[t[1]] THEN [Idle EXCEPT !.pc = "start"] ELSE thread[t]]
    BY <1>2 DEF SubscribeBoth
  <2>3. ASSUME NEW t \in Threads, Busy(t)' PROVE t[2] = f[t[1]]
    BY <2>1, <2>2, <2>3 DEF OneThread, Busy
  <2>4. ASSUME NEW t \in Threads, NEW u \in Threads, Busy(t)', Busy(u)', t[1] = u[1]
        PROVE  t = u
    BY <2>3, <2>4, SideOfThread
  <2> QED
    BY <2>1, <2>4 DEF OneThread
<1>3. CASE InitState \/ StartSync \/ Join \/ Check \/ NoticeStop \/ Hold
  <2>1. UNCHANGED thread /\ (main' \in {"init", "subscribe"} => main = "init")
    BY <1>3
    DEF InitState, StartSync, Join, Check, NoticeStop, Hold, MainAt, MainGoto, Subscriptions
  <2> QED
    BY <2>1 DEF OneThread, Busy
<1> QED
  BY <1>1, <1>2, <1>3 DEF MainStep

LEMMA OneThreadKept ==
  ASSUME ~ Slow, TypeInv, OneThread, [Next]_vars
  PROVE  OneThread'
<1>1. CASE UNCHANGED <<thread, main>>
  BY <1>1 DEF OneThread, Busy
<1>2. ASSUME NEW s \in Sides, Trade(s) \/ Fetch(s) \/ Drain(s)
      PROVE  UNCHANGED <<thread, main>>
  BY <1>2 DEF Trade, Fetch, Drain
<1>3. ASSUME NEW t \in Threads, SubscriptionStep(t) \/ Fail(t) PROVE OneThread'
  BY <1>3, StaysIdle DEF OneThread
<1> QED
  BY <1>1, <1>2, <1>3, MainWaits DEF Next, vars

-----------------------------------------------------------------------------
(* Decisions. *)

\* How far the synchronisation is, in what the threads read.
InStage ==
  /\ main \in {"subscribe", "sync", "join"} => stage = "before"
  /\ main \in {"subscribe", "sync"} => \A s \in Sides : ~ synced[s]
  /\ \A s \in Sides : sync[s] # "idle" => main = "join"
  /\ \A s \in Sides : sync[s] = "fetch" => ~ synced[s]
  /\ stage = "after" => main \in {"check", "watch", "hold", "pause"} /\ \A s \in Sides : synced[s]

\* A book that is synchronised, or that catches up, has been got.
SyncedHasBook ==
  \A s \in Sides : HasSnapshot(s) /\ (sync[s] = "drain" \/ synced[s]) => book[s].seq # None

\* The stage that a thread has read is "after" only as long as the process is there.
ReadStage ==
  \A t \in Threads :
    /\ thread[t].stage = "after" => stage = "after" /\ Busy(t)
    /\ At(t, "decide") => thread[t].stage = "after"

DecideInv == InStage /\ SyncedHasBook /\ ReadStage

LEMMA DecideInvSuffices == TypeInv /\ DecideInv => DecisionsOnSyncedBooks
BY DEF DecideInv, InStage, SyncedHasBook, ReadStage, DecisionsOnSyncedBooks

LEMMA DecideInit == ASSUME Init PROVE DecideInv
<1>1. \A t \in Threads : thread[t].pc = "idle" /\ thread[t].stage = "unknown"
  BY DEF Init, Idle
<1>2. ReadStage
  BY <1>1 DEF ReadStage, At
<1> QED
  BY <1>2 DEF Init, DecideInv, InStage, SyncedHasBook

\* A book that has been got is not lost by an update.
LEMMA UpdateKeepsBook ==
  ASSUME TypeInv, SyncedHasBook, NEW s \in Sides, NEW e \in Event, UNCHANGED kind,
         book' = [book EXCEPT ![s] = Updated(@, e)],
         \A r \in Sides : sync'[r] = "drain" \/ synced'[r] => sync[r] = "drain" \/ synced[r]
  PROVE  SyncedHasBook'
<1>1. ASSUME NEW r \in Sides, HasSnapshot(r)', sync'[r] = "drain" \/ synced'[r]
      PROVE  book'[r].seq # None
  <2>1. book[r] \in Book /\ book[r].seq # None
    BY <1>1 DEF SyncedHasBook, HasSnapshot, TypeInv, BookTypes
  <2>2. CASE r = s
    BY <2>1, <2>2, UpdatedIsBook DEF TypeInv, BookTypes
  <2>3. CASE r # s
    BY <2>1, <2>3 DEF TypeInv, BookTypes
  <2> QED
    BY <2>2, <2>3
<1> QED
  BY <1>1 DEF SyncedHasBook

\* Steps that touch neither the supervision nor what is synchronised.
LEMMA NotSynchronised ==
  ASSUME InStage, UNCHANGED <<main, stage, synced, sync>>
  PROVE  InStage'
BY DEF InStage

\* The steps of the subscription threads.
LEMMA SubscriptionDecides ==
  ASSUME TypeInv, DecideInv, NEW t \in Threads, SubscriptionStep(t) \/ Fail(t)
  PROVE  DecideInv'
<1>1. t[1] \in Sides
  BY SideOfThread
<1>2. UNCHANGED <<kind, main, stage, synced, sync>>
  BY DEF SubscriptionStep, Subscribe, Connect, Stop, Wake, End, Fail, Receive, Branch, Put,
         Update, Decide, Leave, local, supervision
<1>3. SyncedHasBook'
  <2>1. CASE Update(t)
    <3>1. thread[t].event \in Event
      BY <2>1 DEF Update, At, TypeInv, TakesEvents
    <3>2. book' = [book EXCEPT ![t[1]] = Updated(@, thread[t].event)]
      BY <1>1, <2>1 DEF Update, TypeInv, BookTypes
    <3> QED
      BY <1>1, <1>2, <3>1, <3>2, UpdateKeepsBook DEF DecideInv
  <2>2. CASE ~ Update(t)
    <3>1. UNCHANGED book
      BY <2>2
      DEF SubscriptionStep, Subscribe, Connect, Stop, Wake, End, Fail, Receive, Branch, Put,
          Decide, Leave, local
    <3> QED
      BY <1>2, <3>1 DEF DecideInv, SyncedHasBook, HasSnapshot
  <2> QED
    BY <2>1, <2>2
<1>4. ReadStage'
  <2>1. CASE UNCHANGED thread
    BY <1>2, <2>1 DEF DecideInv, ReadStage, At, Busy
  <2>2. ASSUME NEW pc \in PCs, Goto(t, pc), pc \notin {"idle", "asleep"}, Busy(t),
               pc = "decide" => thread[t].stage = "after"
        PROVE  ReadStage'
    <3>1. thread'[t].pc = pc /\ thread'[t].stage = thread[t].stage
      BY <2>2 DEF Goto, TypeInv, ThreadTypes, Doing
    <3>2. \A u \in Threads \ {t} : thread'[u] = thread[u]
      BY <2>2 DEF Goto, TypeInv, ThreadTypes
    <3> QED
      BY <1>2, <2>2, <3>1, <3>2 DEF DecideInv, ReadStage, At, Busy
  <2>3. ASSUME NEW d \in Doing, thread' = [thread EXCEPT ![t] = d],
               d.stage = "after" => stage = "after" /\ d.pc \notin {"idle", "asleep"},
               d.pc # "decide"
        PROVE  ReadStage'
    BY <1>2, <2>3 DEF TypeInv, ThreadTypes, DecideInv, ReadStage, At, Busy
  <2>4. CASE Subscribe(t)
    BY <2>1, <2>2, <2>4 DEF Subscribe, PCs, At, Busy
  <2>5. ASSUME NEW d \in {Idle, Asleep}, thread' = [thread EXCEPT ![t] = d] PROVE ReadStage'
    BY <2>5, <2>3, NoEventHandled
  <2>6. CASE Connect(t) \/ Leave(t) \/ End(t)
    BY <2>2, <2>5, <2>6 DEF Connect, Leave, End, PCs, At, Busy
  <2>7. CASE Stop(t) \/ (Fail(t) /\ ~ End(t)) \/ Put(t) \/ Decide(t)
    BY <2>2, <2>5, <2>7 DEF Stop, Fail, Put, Decide, PCs, At, Busy
  <2>8. CASE Receive(t)
    <3>1. CASE UNCHANGED thread
      BY <2>1, <3>1
    <3>2. CASE thread' = [thread EXCEPT ![t] =
                 [pc |-> "called", event |-> Head(wire[t[1]]), stage |-> stage]]
      <4>1. wire[t[1]] \in Seq(Event) /\ wire[t[1]] # <<>>
        BY <1>1, <2>8 DEF Receive, TypeInv, ConnectionTypes
      <4>2. Head(wire[t[1]]) \in Event
        BY <4>1
      <4>3. [pc |-> "called", event |-> Head(wire[t[1]]), stage |-> stage] \in Doing
        BY <4>2 DEF TypeInv, MainTypes, Doing, PCs
      <4> QED
        BY <2>3, <3>2, <4>3
    <3> QED
      BY <2>8, <3>1, <3>2 DEF Receive
  <2>9. CASE Branch(t)
    <3>1. PICK pc \in {"put", "update", "read"} : Goto(t, pc)
      BY <2>9 DEF Branch
    <3> QED
      BY <2>2, <2>9, <3>1 DEF Branch, PCs, At, Busy
  <2>10. CASE Update(t)
    <3>1. PICK pc \in {"leave", "decide", "read"} :
            Goto(t, pc) /\ (pc = "decide" => thread[t].stage = "after")
      BY <2>10 DEF Update
    <3> QED
      BY <2>2, <2>10, <3>1 DEF Update, PCs, At, Busy
  <2> QED
    BY <2>4, <2>6, <2>7, <2>8, <2>9, <2>10 DEF SubscriptionStep, Wake
<1> QED
  BY <1>2, <1>3, <1>4, NotSynchronised DEF DecideInv

\* The threads that synchronise. None of them runs once the stage is "after".
LEMMA SyncDecides ==
  ASSUME TypeInv, DecideInv, NEW s \in Sides, Fetch(s) \/ Drain(s)
  PROVE  DecideInv'
<1>1. UNCHANGED <<kind, main, stage, thread>>
  BY DEF Fetch, Drain
<1>2. sync[s] \in {"fetch", "drain"} /\ main = "join" /\ stage = "before"
  BY DEF Fetch, Drain, DecideInv, InStage
<1>3. ReadStage'
  BY <1>1 DEF DecideInv, ReadStage, At, Busy
<1>4. \/ sync' = [sync EXCEPT ![s] = "drain"]
      \/ sync' = [sync EXCEPT ![s] = "done"]
      \/ sync' = sync
  BY DEF Fetch, Drain, Synced
<1>5. Drain(s) \/ sync'[s] # "fetch"
  BY DEF Fetch, Synced, TypeInv, SyncTypes
<1>6. \/ synced' = synced
      \/ \E ok \in BOOLEAN : synced' = [synced EXCEPT ![s] = ok] /\ sync'[s] = "done"
  BY DEF Fetch, Drain, Synced, TypeInv, SyncTypes
<1>7. sync'[s] # "fetch"
  BY <1>4, <1>5 DEF Drain, TypeInv, SyncTypes
<1>8. InStage'
  <2>1. \A r \in Sides \ {s} : sync'[r] = sync[r] /\ synced'[r] = synced[r]
    BY <1>4, <1>6 DEF TypeInv, SyncTypes, BookTypes
  <2> QED
    BY <1>1, <1>2, <1>7, <2>1 DEF DecideInv, InStage
<1>9. CASE Fetch(s)
  <2>1. ~ synced[s] /\ sync[s] = "fetch"
    BY <1>9 DEF Fetch, DecideInv, InStage
  <2>2. \A r \in Sides \ {s} : sync'[r] = sync[r] /\ synced'[r] = synced[r] /\ book'[r] = book[r]
    BY <1>9 DEF Fetch, Synced, TypeInv, SyncTypes, BookTypes
  <2>3. HasSnapshot(s) /\ (sync'[s] = "drain" \/ synced'[s]) => book'[s].seq # None
    <3>1. CASE \E v \in {version[s], version[s] - 1} \cap Nat :
                 book' = [book EXCEPT ![s] = [seq |-> v, upto |-> v]]
      <4>1. PICK v \in {version[s], version[s] - 1} \cap Nat :
              book' = [book EXCEPT ![s] = [seq |-> v, upto |-> v]]
        BY <3>1
      <4>2. v \in Version /\ v # None
        BY Versions DEF TypeInv, ExchangeTypes
      <4> QED
        BY <4>1, <4>2 DEF TypeInv, BookTypes
    <3>2. CASE HasSnapshot(s) /\ sync' = [sync EXCEPT ![s] = "done"] /\ UNCHANGED synced
      BY <2>1, <3>2 DEF TypeInv, SyncTypes
    <3>3. CASE ~ HasSnapshot(s)
      BY <3>3
    <3> QED
      BY <1>9, <3>1, <3>2, <3>3 DEF Fetch
  <2>4. SyncedHasBook'
    BY <1>1, <2>2, <2>3 DEF DecideInv, SyncedHasBook, HasSnapshot
  <2> QED
    BY <1>3, <1>8, <2>4 DEF DecideInv
<1>10. CASE Drain(s)
  <2>1. \A r \in Sides : sync'[r] = "drain" \/ synced'[r] => sync[r] = "drain" \/ synced[r]
    BY <1>10 DEF Drain, Synced, TypeInv, SyncTypes, BookTypes
  <2>2. CASE UNCHANGED book
    <3>1. SyncedHasBook'
      BY <1>1, <2>1, <2>2 DEF DecideInv, SyncedHasBook, HasSnapshot
    <3> QED
      BY <1>3, <1>8, <3>1 DEF DecideInv
  <2>3. CASE queue[s] # <<>> /\ book' = [book EXCEPT ![s] = Updated(@, Head(queue[s]))]
    <3>1. queue[s] \in Seq(Event) /\ queue[s] # <<>>
      BY <2>3 DEF TypeInv, BookTypes
    <3>2. Head(queue[s]) \in Event
      BY <3>1
    <3>3. SyncedHasBook'
      BY <1>1, <2>1, <2>3, <3>2, UpdateKeepsBook DEF DecideInv
    <3> QED
      BY <1>3, <1>8, <3>3 DEF DecideInv
  <2> QED
    BY <1>3, <1>8, <1>10, <2>2, <2>3 DEF Drain, DecideInv
<1> QED
  BY <1>9, <1>10

\* The main thread begins anew only when no thread is left that has read "after".
LEMMA MainDecides ==
  ASSUME ~ Slow, TypeInv, OneThread, DecideInv, MainStep
  PROVE  DecideInv'
<1>1. CASE Clear
  <2>1. \A t \in Threads : ~ Busy(t)
    BY <1>1 DEF Clear
  <2>2. ReadStage'
    BY <1>1, <2>1 DEF Clear, Subscriptions, DecideInv, ReadStage, At, Busy
  <2>3. main = "pause" /\ main' = "init" /\ stage' = "resetting"
    BY <1>1 DEF Clear, MainAt, MainGoto
  <2>4. InStage' /\ SyncedHasBook'
    BY <1>1, <2>3 DEF Clear, Subscriptions, DecideInv, InStage, SyncedHasBook, HasSnapshot
  <2> QED
    BY <2>2, <2>4 DEF DecideInv
<1>2. CASE InitState
  <2>1. main = "init" /\ main' = "subscribe" /\ stage' = "before" /\ UNCHANGED <<thread, sync>>
    BY <1>2 DEF InitState, MainAt, MainGoto, Subscriptions
  <2>2. stage # "after" /\ \A s \in Sides : sync[s] = "idle"
    BY <2>1 DEF DecideInv, InStage
  <2>3. \A s \in Sides : ~ synced'[s]
    BY <1>2 DEF InitState
  <2>4. ReadStage'
    BY <2>1, <2>2 DEF DecideInv, ReadStage, At, Busy
  <2>5. InStage' /\ SyncedHasBook'
    BY <2>1, <2>2, <2>3 DEF InStage, SyncedHasBook
  <2> QED
    BY <2>4, <2>5 DEF DecideInv
<1>3. CASE SubscribeBoth
  <2>1. main = "subscribe" /\ main' = "sync" /\ UNCHANGED <<kind, book, synced, stage, sync>>
    BY <1>3 DEF SubscribeBoth, MainAt, MainGoto, local
  <2>2. ASSUME NEW t \in Threads
        PROVE  \/ thread'[t] = thread[t]
               \/ thread'[t].pc = "start" /\ thread'[t].stage = "unknown"
    BY <1>3, <2>2 DEF SubscribeBoth, Idle
  <2>3. ReadStage'
    BY <2>1, <2>2 DEF DecideInv, ReadStage, At, Busy
  <2>4. InStage' /\ SyncedHasBook'
    BY <2>1 DEF DecideInv, InStage, SyncedHasBook, HasSnapshot
  <2> QED
    BY <2>3, <2>4 DEF DecideInv
<1>4. CASE StartSync
  <2>1. main = "sync" /\ main' = "join" /\ UNCHANGED <<kind, thread, book, synced, stage>>
        /\ sync' = [s \in Sides |-> "fetch"]
    BY <1>4 DEF StartSync, MainAt, MainGoto, Subscriptions, local
  <2>2. ReadStage'
    BY <2>1 DEF DecideInv, ReadStage, At, Busy
  <2>3. stage = "before" /\ \A s \in Sides : ~ synced[s]
    BY <2>1 DEF DecideInv, InStage
  <2>4. InStage' /\ SyncedHasBook'
    BY <2>1, <2>3 DEF InStage, SyncedHasBook
  <2> QED
    BY <2>2, <2>4 DEF DecideInv
<1>5. CASE Join
  <2>1. main = "join" /\ main' = "check" /\ UNCHANGED <<kind, thread, book, synced>>
        /\ sync' = [s \in Sides |-> "idle"]
        /\ stage' = IF \A s \in Sides : synced[s] THEN "after" ELSE stage
    BY <1>5 DEF Join, MainAt, MainGoto, Subscriptions, local
  <2>2. stage = "before"
    BY <2>1 DEF DecideInv, InStage
  <2>3. ReadStage'
    BY <2>1, <2>2 DEF DecideInv, ReadStage, At, Busy
  <2>4. InStage' /\ SyncedHasBook'
    BY <2>1, <2>2 DEF DecideInv, InStage, SyncedHasBook, HasSnapshot
  <2> QED
    BY <2>3, <2>4 DEF DecideInv
<1>6. CASE Check \/ NoticeStop \/ Hold
  <2>1. /\ main \in {"check", "watch", "hold"} /\ main' \in {"watch", "hold", "pause"}
        /\ UNCHANGED <<kind, thread, book, synced, stage, sync>>
    BY <1>6 DEF Check, NoticeStop, Hold, MainAt, MainGoto, Subscriptions, local
  <2>2. ReadStage'
    BY <2>1 DEF DecideInv, ReadStage, At, Busy
  <2>3. InStage' /\ SyncedHasBook'
    BY <2>1 DEF DecideInv, InStage, SyncedHasBook, HasSnapshot
  <2> QED
    BY <2>2, <2>3 DEF DecideInv
<1> QED
  BY <1>1, <1>2, <1>3, <1>4, <1>5, <1>6 DEF MainStep

LEMMA DecideKept ==
  ASSUME ~ Slow, TypeInv, OneThread, DecideInv, [Next]_vars
  PROVE  DecideInv'
<1>1. CASE UNCHANGED vars
  <2>1. UNCHANGED <<kind, main, stage, thread, book, synced, sync>>
    BY <1>1 DEF vars
  <2>2. InStage' /\ SyncedHasBook'
    BY <2>1 DEF DecideInv, InStage, SyncedHasBook, HasSnapshot
  <2>3. ReadStage'
    BY <2>1 DEF DecideInv, ReadStage, At, Busy
  <2> QED
    BY <2>2, <2>3 DEF DecideInv
<1>2. ASSUME NEW s \in Sides, Trade(s) PROVE DecideInv'
  BY <1>2 DEF Trade, DecideInv, InStage, SyncedHasBook, HasSnapshot, ReadStage, At, Busy
<1> QED
  BY <1>1, <1>2, SyncDecides, SubscriptionDecides, MainDecides DEF Next

\* on_order_book_update and sync_order_books: where threads end in the pauses that are
\* made for them, the books of two exchanges are compared only after both were
\* synchronised since the last reset.
THEOREM DecidesOnSyncedBooks == ~ Slow /\ Safe => []DecisionsOnSyncedBooks
<1> DEFINE Inv == TypeInv /\ OneThread /\ DecideInv
<1>1. Init => Inv
  BY TypesInit, OneThreadInit, DecideInit
<1>2. ASSUME ~ Slow PROVE Inv /\ [Next]_vars => Inv'
  BY <1>2, TypesKept, OneThreadKept, DecideKept
<1>3. Inv => DecisionsOnSyncedBooks
  BY DecideInvSuffices
<1> HIDE DEF Inv
<1> SUFFICES ASSUME ~ Slow PROVE Safe => []DecisionsOnSyncedBooks
  OBVIOUS
<1> QED
  BY <1>1, <1>2, <1>3, PTL DEF Safe
-----------------------------------------------------------------------------
(* The mirror: a local book follows the exchange's. *)

\* An event as it is sent by an exchange (of which a snapshot can be asked for, or not)
\* whose book is at version v: of what has happened, a delta of at least one update, a
\* whole book only where there are no snapshots.
Possible(v, snapshot, e) ==
  /\ e.last <= v
  /\ ~ e.full => e.first <= e.last
  /\ e.full => ~ snapshot
AllPossible(v, snapshot, w) == \A i \in 1 .. Len(w) : Possible(v, snapshot, w[i])

\* Events are in the order in which they were sent; none is from before version v.
Sorted(w) == \A i, j \in 1 .. Len(w) : i <= j => w[i].last <= w[j].last
NoneBefore(v, w) == \A i \in 1 .. Len(w) : v <= w[i].last

Handling(t) == thread[t].pc \in {"called", "put", "update"}

EventsPossible ==
  /\ \A s \in Sides : /\ AllPossible(version[s], HasSnapshot(s), wire[s])
                      /\ AllPossible(version[s], HasSnapshot(s), queue[s])
  /\ \A t \in Threads : Handling(t) => Possible(version[t[1]], HasSnapshot(t[1]), thread[t].event)

\* The event that a thread handles was sent before those it has not received.
EventsInOrder ==
  /\ \A s \in Sides : Sorted(wire[s])
  /\ \A t \in Threads : Handling(t) => NoneBefore(thread[t].event.last, wire[t[1]])

\* A book is got before it is updated, by one thread at a time.
GotFirst ==
  /\ \A s \in Sides : sync[s] = "fetch" \/ main \in {"subscribe", "sync"} => book[s].seq = None
  /\ \A s \in Sides : sync[s] = "drain" => HasSnapshot(s) /\ ~ synced[s]
  /\ \A t \in Threads : At(t, "update") => synced[t[1]]

\* A book is not ahead of the exchange; where whole books are sent, it is not ahead of
\* those that are still to come.
NotAhead ==
  /\ \A s \in Sides : book[s].seq # None =>
       /\ book[s].seq <= version[s]
       /\ HasSnapshot(s) \/ NoneBefore(book[s].seq, wire[s])
  /\ \A t \in Threads : book[t[1]].seq # None /\ Handling(t) =>
       HasSnapshot(t[1]) \/ book[t[1]].seq <= thread[t].event.last

FollowInv == EventsPossible /\ EventsInOrder /\ GotFirst /\ NotAhead

\* Sequences of events, which are sent at their end and received from their head.
LEMMA NoEvents ==
  /\ Sorted(<<>>)
  /\ \A v : NoneBefore(v, <<>>)
  /\ \A v, snapshot : AllPossible(v, snapshot, <<>>)
BY DEF Sorted, NoneBefore, AllPossible

LEMMA EventNumbers == ASSUME NEW e \in Event PROVE e.last \in Int /\ e.first \in Int
BY SyncAssumption DEF Event

LEMMA EventSent ==
  ASSUME NEW w \in Seq(Event), NEW e \in Event
  PROVE  /\ Append(w, e) \in Seq(Event)
         /\ Len(Append(w, e)) = Len(w) + 1 /\ Len(w) \in Nat
         /\ \A i \in 1 .. Len(w) + 1 : Append(w, e)[i] = IF i <= Len(w) THEN w[i] ELSE e
         /\ \A i \in 1 .. Len(w) : w[i] \in Event
OBVIOUS

LEMMA EventTaken ==
  ASSUME NEW w \in Seq(Event), w # <<>>
  PROVE  /\ Tail(w) \in Seq(Event) /\ Head(w) \in Event
         /\ Len(w) \in Nat /\ Len(Tail(w)) = Len(w) - 1 /\ Len(w) >= 1
         /\ \A i \in 1 .. Len(w) - 1 : Tail(w)[i] = w[i + 1]
         /\ Head(w) = w[1]
OBVIOUS

LEMMA SentIsSorted ==
  ASSUME NEW w \in Seq(Event), NEW e \in Event, Sorted(w), \A i \in 1 .. Len(w) : w[i].last <= e.last
  PROVE  Sorted(Append(w, e))
<1>1. ASSUME NEW i \in 1 .. Len(w) + 1, NEW j \in 1 .. Len(w) + 1, i <= j
      PROVE  Append(w, e)[i].last <= Append(w, e)[j].last
  <2>1. Append(w, e)[i] = (IF i <= Len(w) THEN w[i] ELSE e)
        /\ Append(w, e)[j] = (IF j <= Len(w) THEN w[j] ELSE e) /\ Len(w) \in Nat
    BY EventSent
  <2>2. CASE j <= Len(w)
    BY <1>1, <2>1, <2>2 DEF Sorted
  <2>3. CASE ~ j <= Len(w)
    BY <1>1, <2>1, <2>3, EventNumbers
  <2> QED
    BY <2>2, <2>3
<1> QED
  BY <1>1, EventSent DEF Sorted

LEMMA SentIsLater ==
  ASSUME NEW w \in Seq(Event), NEW e \in Event, NEW v \in Int, NoneBefore(v, w), v <= e.last
  PROVE  NoneBefore(v, Append(w, e))
<1>1. ASSUME NEW i \in 1 .. Len(w) + 1 PROVE v <= Append(w, e)[i].last
  <2>1. Append(w, e)[i] = (IF i <= Len(w) THEN w[i] ELSE e) /\ Len(w) \in Nat
    BY EventSent
  <2> QED
    BY <2>1 DEF NoneBefore
<1> QED
  BY <1>1, EventSent DEF NoneBefore

LEMMA SentIsPossible ==
  ASSUME NEW w \in Seq(Event), NEW e \in Event, NEW v, NEW snapshot,
         AllPossible(v, snapshot, w), Possible(v, snapshot, e)
  PROVE  AllPossible(v, snapshot, Append(w, e))
<1>1. ASSUME NEW i \in 1 .. Len(w) + 1 PROVE Possible(v, snapshot, Append(w, e)[i])
  <2>1. Append(w, e)[i] = (IF i <= Len(w) THEN w[i] ELSE e) /\ Len(w) \in Nat
    BY EventSent
  <2> QED
    BY <2>1 DEF AllPossible
<1> QED
  BY <1>1, EventSent DEF AllPossible

\* What has happened once has happened ever since.
LEMMA PossibleLater ==
  ASSUME NEW v \in Int, NEW n \in Int, v <= n, NEW snapshot
  PROVE  /\ \A e \in Event : Possible(v, snapshot, e) => Possible(n, snapshot, e)
         /\ \A w \in Seq(Event) : AllPossible(v, snapshot, w) => AllPossible(n, snapshot, w)
<1>1. ASSUME NEW e \in Event, Possible(v, snapshot, e) PROVE Possible(n, snapshot, e)
  BY <1>1, EventNumbers DEF Possible
<1>2. ASSUME NEW w \in Seq(Event), AllPossible(v, snapshot, w) PROVE AllPossible(n, snapshot, w)
  <2>1. \A i \in 1 .. Len(w) : w[i] \in Event
    OBVIOUS
  <2> QED
    BY <1>1, <1>2, <2>1 DEF AllPossible
<1> QED
  BY <1>1, <1>2

LEMMA TakenInOrder ==
  ASSUME NEW w \in Seq(Event), w # <<>>, Sorted(w)
  PROVE  /\ Sorted(Tail(w)) /\ NoneBefore(Head(w).last, Tail(w))
         /\ \A v : NoneBefore(v, w) => v <= Head(w).last /\ NoneBefore(v, Tail(w))
<1>1. \A i \in 1 .. Len(Tail(w)) : /\ i + 1 \in 1 .. Len(w) /\ 1 \in 1 .. Len(w) /\ 1 <= i + 1
                                   /\ Tail(w)[i] = w[i + 1]
  BY EventTaken
<1>2. 1 \in 1 .. Len(w) /\ Head(w) = w[1]
  BY EventTaken
<1>3. \A i, j \in 1 .. Len(Tail(w)) : i <= j => i + 1 <= j + 1
  OBVIOUS
<1>4. Sorted(Tail(w))
  BY <1>1, <1>3 DEF Sorted
<1>5. NoneBefore(Head(w).last, Tail(w))
  BY <1>1, <1>2 DEF Sorted, NoneBefore
<1>6. \A v : NoneBefore(v, w) => v <= Head(w).last /\ NoneBefore(v, Tail(w))
  BY <1>1, <1>2 DEF NoneBefore
<1> QED
  BY <1>4, <1>5, <1>6

LEMMA TakenIsPossible ==
  ASSUME NEW w \in Seq(Event), w # <<>>, NEW v, NEW snapshot, AllPossible(v, snapshot, w)
  PROVE  Possible(v, snapshot, Head(w)) /\ AllPossible(v, snapshot, Tail(w))
<1>1. \A i \in 1 .. Len(Tail(w)) : i + 1 \in 1 .. Len(w) /\ Tail(w)[i] = w[i + 1]
  BY EventTaken
<1>2. 1 \in 1 .. Len(w) /\ Head(w) = w[1]
  BY EventTaken
<1> QED
  BY <1>1, <1>2 DEF AllPossible

\* A thread that handles an event is the only one of its side.
LEMMA OneHandles ==
  ASSUME OneThread, NEW t \in Threads, NEW u \in Threads, Busy(t), u[1] = t[1], u # t
  PROVE  ~ Handling(u)
BY DEF OneThread, Busy, Handling

\* Steps that bring no event nearer and update no book, but may throw some away.
LEMMA Quieter ==
  ASSUME FollowInv, UNCHANGED <<kind, version>>,
         \A s \in Sides : wire'[s] \in {wire[s], <<>>} /\ queue'[s] \in {queue[s], <<>>},
         \A s \in Sides : book'[s] = book[s] \/ book'[s].seq = None,
         \A t \in Threads : thread'[t].pc \in {"called", "put", "update"}
           => Handling(t) /\ thread'[t].event = thread[t].event
  PROVE  EventsPossible' /\ EventsInOrder' /\ NotAhead'
<1>1. \A t \in Threads : t[1] \in Sides
  BY SideOfThread
<1>2. EventsPossible'
  BY <1>1, NoEvents DEF FollowInv, EventsPossible, Handling, HasSnapshot
<1>3. EventsInOrder'
  BY <1>1, NoEvents DEF FollowInv, EventsInOrder, Handling
<1>4. NotAhead'
  BY <1>1, NoEvents DEF FollowInv, NotAhead, Handling, HasSnapshot
<1> QED
  BY <1>2, <1>3, <1>4

LEMMA FollowInit == ASSUME Init PROVE FollowInv
<1>1. \A t \in Threads : thread[t].pc = "idle"
  BY DEF Init, Idle
<1>2. \A s \in Sides : wire[s] = <<>> /\ queue[s] = <<>> /\ book[s].seq = None
  BY DEF Init, Empty
<1>3. \A t \in Threads : t[1] \in Sides /\ ~ Handling(t) /\ ~ At(t, "update")
  BY <1>1, SideOfThread DEF Handling, At
<1>4. GotFirst
  BY <1>2, <1>3 DEF Init, GotFirst
<1> QED
  BY <1>2, <1>3, <1>4, NoEvents DEF FollowInv, EventsPossible, EventsInOrder, NotAhead

\* The types that the steps below are about.
LEMMA FollowTypes ==
  ASSUME TypeInv, NEW s \in Sides
  PROVE  /\ version[s] \in Int /\ wire[s] \in Seq(Event) /\ queue[s] \in Seq(Event)
         /\ book[s] \in Book /\ (book[s].seq # None => book[s].seq \in Int)
BY Versions DEF TypeInv, ExchangeTypes, ConnectionTypes, BookTypes, Book

\* An exchange changes its book, and tells the subscription that is connected.
LEMMA TradeFollowed == ASSUME TypeInv, FollowInv, NEW s \in Sides, Trade(s) PROVE FollowInv'
<1>1. PICK n \in version[s] + 1 .. MaxVersion :
        /\ version' = [version EXCEPT ![s] = n]
        /\ wire' = IF open[s]
             THEN [wire EXCEPT ![s] = Append(@,
                    [full |-> kind[s] = "huobi", first |-> version[s] + 1, last |-> n])]
             ELSE wire
  BY DEF Trade
<1>2. UNCHANGED <<kind, thread, main, book, synced, queue, sync>>
  BY DEF Trade
<1>3. /\ version \in [Sides -> Version] /\ Version \subseteq Int /\ wire \in [Sides -> Seq(Event)]
      /\ n \in Int /\ n > version[s] /\ version[s] \in Int
  BY Versions, SyncAssumption DEF TypeInv, ExchangeTypes, ConnectionTypes, Version
<1>4. PICK e \in Event :
        /\ e.full = (kind[s] = "huobi") /\ e.first = version[s] + 1 /\ e.last = n
        /\ wire' = [wire EXCEPT ![s] = Append(@, e)] \/ wire' = wire
  <2>1. PICK full \in BOOLEAN : full = (kind[s] = "huobi")
    OBVIOUS
  <2>2. n \in 0 .. MaxVersion /\ version[s] + 1 \in 1 .. MaxVersion
    BY <1>1, SyncAssumption DEF TypeInv, ExchangeTypes, Version
  <2>3. [full |-> full, first |-> version[s] + 1, last |-> n] \in Event
    BY <2>2 DEF Event
  <2> QED
    BY <1>1, <2>1, <2>3
<1>5. \A r \in Sides : version[r] \in Int /\ version'[r] \in Int /\ version[r] <= version'[r]
  <2>1. \A r \in Sides : version'[r] = IF r = s THEN n ELSE version[r]
    BY <1>1, <1>3
  <2>2. \A r \in Sides : version[r] \in Int
    BY FollowTypes
  <2> QED
    BY <1>3, <2>1, <2>2
<1>6. version'[s] = n /\ \A r \in Sides \ {s} : wire'[r] = wire[r]
  BY <1>1, <1>3
<1>7. wire'[s] \in {wire[s], Append(wire[s], e)}
  BY <1>3, <1>4
<1>8. \A i \in 1 .. Len(wire[s]) : wire[s][i] \in Event /\ wire[s][i].last <= e.last
  <2>1. \A i \in 1 .. Len(wire[s]) : wire[s][i] \in Event /\ wire[s][i].last <= version[s]
    BY FollowTypes DEF FollowInv, EventsPossible, AllPossible, Possible
  <2> QED
    BY <1>3, <1>4, <2>1, EventNumbers
<1>9. EventsPossible'
  <2>1. ASSUME NEW r \in Sides
        PROVE  /\ AllPossible(version'[r], HasSnapshot(r), wire[r])
               /\ AllPossible(version'[r], HasSnapshot(r), queue[r])
    <3>1. /\ AllPossible(version[r], HasSnapshot(r), wire[r])
          /\ AllPossible(version[r], HasSnapshot(r), queue[r])
      BY DEF FollowInv, EventsPossible
    <3>2. wire[r] \in Seq(Event) /\ queue[r] \in Seq(Event)
      BY FollowTypes
    <3>3. version[r] \in Int /\ version'[r] \in Int /\ version[r] <= version'[r]
      BY <1>5
    <3> QED
      BY <3>1, <3>2, <3>3, PossibleLater
  <2>2. Possible(version'[s], HasSnapshot(s), e)
    <3>1. e.last <= version'[s] /\ e.first <= e.last
      BY <1>3, <1>4, <1>6
    <3>2. e.full => ~ HasSnapshot(s)
      BY <1>4 DEF HasSnapshot
    <3> QED
      BY <3>1, <3>2 DEF Possible
  <2>3. AllPossible(version'[s], HasSnapshot(s), wire'[s])
    BY <1>7, <2>1, <2>2, SentIsPossible, FollowTypes
  <2>4. ASSUME NEW t \in Threads, Handling(t)
        PROVE  Possible(version'[t[1]], HasSnapshot(t[1]), thread[t].event)
    <3>1. t[1] \in Sides /\ thread[t].event \in Event
      BY <2>4, SideOfThread DEF Handling, TypeInv, TakesEvents
    <3>2. Possible(version[t[1]], HasSnapshot(t[1]), thread[t].event)
      BY <2>4 DEF FollowInv, EventsPossible
    <3>3. /\ version[t[1]] \in Int /\ version'[t[1]] \in Int
          /\ version[t[1]] <= version'[t[1]]
      BY <1>5, <3>1
    <3> QED
      BY <3>1, <3>2, <3>3, PossibleLater
  <2> QED
    BY <1>2, <1>6, <2>1, <2>3, <2>4 DEF EventsPossible, Handling, HasSnapshot
<1>10. EventsInOrder'
  <2>1. Sorted(wire'[s])
    BY <1>7, <1>8, SentIsSorted, FollowTypes DEF FollowInv, EventsInOrder
  <2>2. ASSUME NEW t \in Threads, Handling(t) PROVE NoneBefore(thread[t].event.last, wire'[t[1]])
    <3>1. t[1] \in Sides /\ thread[t].event \in Event
      BY <2>2, SideOfThread DEF Handling, TypeInv, TakesEvents
    <3>2. NoneBefore(thread[t].event.last, wire[t[1]])
      BY <2>2 DEF FollowInv, EventsInOrder
    <3>3. thread[t].event.last <= version[t[1]]
      BY <2>2 DEF FollowInv, EventsPossible, Possible
    <3>4. CASE t[1] = s
      <4>1. thread[t].event.last \in Int /\ thread[t].event.last <= e.last
        BY <1>3, <1>4, <3>1, <3>3, <3>4, EventNumbers
      <4> QED
        BY <1>7, <3>2, <3>4, <4>1, SentIsLater, FollowTypes
    <3> QED
      BY <1>6, <3>1, <3>2, <3>4
  <2> QED
    BY <1>2, <1>6, <2>1, <2>2 DEF FollowInv, EventsInOrder, Handling
<1>11. NotAhead'
  <2>1. ASSUME NEW r \in Sides, book[r].seq # None
        PROVE  /\ book[r].seq <= version'[r]
               /\ HasSnapshot(r) \/ NoneBefore(book[r].seq, wire'[r])
    <3>1. book[r].seq \in Int /\ book[r].seq <= version[r]
          /\ (HasSnapshot(r) \/ NoneBefore(book[r].seq, wire[r]))
      BY <2>1, FollowTypes DEF FollowInv, NotAhead
    <3>2. book[r].seq <= version'[r]
      BY <1>5, <3>1
    <3>3. ASSUME r = s, NoneBefore(book[r].seq, wire[r]) PROVE NoneBefore(book[r].seq, wire'[r])
      <4>1. book[r].seq <= e.last /\ wire[r] \in Seq(Event)
        BY <1>4, <1>6, <3>2, <3>3, FollowTypes
      <4> QED
        BY <1>7, <3>1, <3>3, <4>1, SentIsLater
    <3> QED
      BY <1>6, <3>1, <3>2, <3>3
  <2> QED
    BY <1>2, <2>1 DEF FollowInv, NotAhead, Handling, HasSnapshot
<1>12. GotFirst'
  BY <1>2 DEF FollowInv, GotFirst, At, HasSnapshot
<1> QED
  BY <1>9, <1>10, <1>11, <1>12 DEF FollowInv

\* The connection is made, and Poloniex sends its book.
LEMMA ConnectFollowed ==
  ASSUME TypeInv, OneThread, FollowInv, NEW t \in Threads, Connect(t)
  PROVE  EventsPossible' /\ EventsInOrder' /\ NotAhead'
<1>1. t[1] \in Sides /\ Busy(t)
  BY SideOfThread DEF Connect, At, Busy
<1>2. UNCHANGED <<kind, version, book, queue>>
  BY DEF Connect, local
<1>3. ASSUME NEW u \in Threads, thread'[u].pc \in {"called", "put", "update"}
      PROVE  Handling(u) /\ thread'[u] = thread[u] /\ u # t /\ u[1] # t[1] /\ u[1] \in Sides
  <2>1. PICK pc \in {"read", "idle"} : thread'[t].pc = pc
    BY DEF Connect, Goto, Idle, TypeInv, ThreadTypes, Doing
  <2>2. u # t => thread'[u] = thread[u]
    BY DEF Connect, Goto, TypeInv, ThreadTypes
  <2> QED
    BY <1>1, <1>3, <2>1, <2>2, OneHandles, SideOfThread DEF Handling
<1>4. CASE Disconnect({t[1]})
  BY <1>2, <1>3, <1>4, Quieter DEF Disconnect
<1>5. CASE wire' = [wire EXCEPT ![t[1]] =
             IF kind[t[1]] = "poloniex"
               THEN <<[full |-> TRUE, first |-> 1, last |-> version[t[1]]]>> ELSE <<>>]
  <2>1. \A r \in Sides \ {t[1]} : wire'[r] = wire[r]
    BY <1>5 DEF TypeInv, ConnectionTypes
  <2>2. CASE kind[t[1]] # "poloniex"
    <3>1. wire'[t[1]] = <<>>
      BY <1>1, <1>5, <2>2 DEF TypeInv, ConnectionTypes
    <3> QED
      BY <1>2, <1>3, <2>1, <3>1, Quieter
  <2>3. CASE kind[t[1]] = "poloniex"
    <3> DEFINE e == [full |-> TRUE, first |-> 1, last |-> version[t[1]]]
               w == wire'[t[1]]
    <3>1. e.full /\ e.last = version[t[1]] /\ version[t[1]] \in Int
      BY <1>1, FollowTypes
    <3>2. w = <<e>>
      BY <1>1, <1>5, <2>3 DEF TypeInv, ConnectionTypes
    <3>3. Len(w) = 1 /\ w[1] = e
      BY <3>2
    <3> HIDE DEF e, w
    <3>4. ~ HasSnapshot(t[1])
      BY <2>3 DEF HasSnapshot
    <3>5. AllPossible(version[t[1]], HasSnapshot(t[1]), w)
      BY <3>1, <3>3, <3>4 DEF AllPossible, Possible
    <3>6. Sorted(w)
      BY <3>1, <3>3 DEF Sorted
    <3>7. \A v \in Int : v <= version[t[1]] => NoneBefore(v, w)
      BY <3>1, <3>3 DEF NoneBefore
    <3>8. EventsPossible'
      BY <1>2, <1>3, <2>1, <3>5 DEF w, FollowInv, EventsPossible, Handling, HasSnapshot
    <3>9. EventsInOrder'
      BY <1>3, <2>1, <3>6 DEF w, FollowInv, EventsInOrder, Handling
    <3>10. NotAhead'
      <4>1. book[t[1]].seq # None => NoneBefore(book[t[1]].seq, w)
        BY <1>1, <3>7, FollowTypes DEF FollowInv, NotAhead
      <4> QED
        BY <1>2, <1>3, <2>1, <4>1 DEF w, FollowInv, NotAhead, Handling, HasSnapshot
    <3> QED
      BY <3>8, <3>9, <3>10
  <2> QED
    BY <2>2, <2>3
<1> QED
  BY <1>4, <1>5 DEF Connect

\* An update leaves the book alone, or takes it to the end of the event, never back.
LEMMA UpdateForward ==
  ASSUME NEW b \in Book, NEW e \in Event, NEW v, NEW snapshot, Possible(v, snapshot, e),
         e.full /\ b.seq # None => b.seq <= e.last
  PROVE  \/ Updated(b, e) = b
         \/ /\ Updated(b, e).seq = e.last /\ e.last \in Int /\ e.last >= 0 /\ e.last <= v
            /\ b.seq # None => b.seq <= e.last
<1>1. e.last \in Int /\ e.first \in Int /\ e.last >= 0 /\ (b.seq # None => b.seq \in Int)
  <2>1. e.last \in 0 .. MaxVersion /\ e.first \in 1 .. MaxVersion /\ b.seq \in Version \cup {None}
    BY DEF Event, Book
  <2>2. e.last \in Int /\ e.first \in Int /\ e.last >= 0
    BY <2>1, SyncAssumption
  <2>3. b.seq # None => b.seq \in Int
    BY <2>1, Versions
  <2> QED
    BY <2>2, <2>3
<1>2. e.last <= v /\ (~ e.full => e.first <= e.last)
  BY DEF Possible
<1>3. CASE e.full
  BY <1>1, <1>2, <1>3 DEF Updated
<1>4. CASE ~ e.full /\ Fits(b, e)
  <2>1. b.seq # None /\ b.seq + 1 = e.first
    BY <1>4 DEF Fits
  <2>2. b.seq <= e.last
    BY <1>1, <1>2, <1>4, <2>1
  <2> QED
    BY <1>1, <1>2, <1>4, <2>2 DEF Updated
<1>5. CASE ~ e.full /\ ~ Fits(b, e)
  BY <1>5 DEF Updated
<1> QED
  BY <1>3, <1>4, <1>5

\* A message is received: its event goes from the head of the line to the thread.
LEMMA ReceiveFollowed ==
  ASSUME TypeInv, OneThread, FollowInv, NEW t \in Threads, Receive(t)
  PROVE  EventsPossible' /\ EventsInOrder' /\ NotAhead'
<1>1. t[1] \in Sides /\ Busy(t) /\ wire[t[1]] \in Seq(Event) /\ wire[t[1]] # <<>>
  BY SideOfThread, FollowTypes DEF Receive, At, Busy
<1>2. UNCHANGED <<kind, version, book, queue>>
  BY DEF Receive, local
<1>3. CASE Disconnect(Sides) /\ UNCHANGED thread
  BY <1>2, <1>3, Quieter DEF Disconnect, Handling
<1>4. CASE /\ thread' = [thread EXCEPT ![t] =
                [pc |-> "called", event |-> Head(wire[t[1]]), stage |-> stage]]
           /\ wire' = [wire EXCEPT ![t[1]] = Tail(@)]
  <2>1. /\ \A s \in Sides \ {t[1]} : wire'[s] = wire[s]
        /\ wire'[t[1]] = Tail(wire[t[1]])
    BY <1>1, <1>4 DEF TypeInv, ConnectionTypes
  <2>2. thread'[t].event = Head(wire[t[1]])
    BY <1>4 DEF TypeInv, ThreadTypes
  <2>3. ASSUME NEW u \in Threads, u # t, thread'[u].pc \in {"called", "put", "update"}
        PROVE  Handling(u) /\ thread'[u] = thread[u] /\ u[1] # t[1] /\ u[1] \in Sides
    <3>1. thread'[u] = thread[u]
      BY <1>4, <2>3 DEF TypeInv, ThreadTypes
    <3> QED
      BY <1>1, <2>3, <3>1, OneHandles, SideOfThread DEF Handling
  <2>4. EventsPossible'
    <3>1. /\ Possible(version[t[1]], HasSnapshot(t[1]), Head(wire[t[1]]))
          /\ AllPossible(version[t[1]], HasSnapshot(t[1]), Tail(wire[t[1]]))
      BY <1>1, TakenIsPossible DEF FollowInv, EventsPossible
    <3> QED
      BY <1>2, <2>1, <2>2, <2>3, <3>1 DEF FollowInv, EventsPossible, Handling, HasSnapshot
  <2>5. EventsInOrder'
    <3>1. Sorted(Tail(wire[t[1]])) /\ NoneBefore(Head(wire[t[1]]).last, Tail(wire[t[1]]))
      BY <1>1, TakenInOrder DEF FollowInv, EventsInOrder
    <3> QED
      BY <2>1, <2>2, <2>3, <3>1 DEF FollowInv, EventsInOrder, Handling
  <2>6. NotAhead'
    <3>1. ASSUME book[t[1]].seq # None, ~ HasSnapshot(t[1])
          PROVE  /\ book[t[1]].seq <= Head(wire[t[1]]).last
                 /\ NoneBefore(book[t[1]].seq, Tail(wire[t[1]]))
      BY <1>1, <3>1, TakenInOrder DEF FollowInv, EventsInOrder, NotAhead
    <3> QED
      BY <1>2, <2>1, <2>2, <2>3, <3>1 DEF FollowInv, NotAhead, Handling, HasSnapshot
  <2> QED
    BY <2>4, <2>5, <2>6
<1> QED
  BY <1>3, <1>4 DEF Receive

\* An event that comes while its book is being got is queued.
LEMMA PutFollowed ==
  ASSUME TypeInv, FollowInv, NEW t \in Threads, Put(t)
  PROVE  EventsPossible' /\ EventsInOrder' /\ NotAhead'
<1>1. t[1] \in Sides /\ thread[t].event \in Event /\ Handling(t)
  BY SideOfThread DEF Put, At, TypeInv, TakesEvents, Handling
<1>2. UNCHANGED <<kind, version, book, wire>> /\ thread' = [thread EXCEPT ![t].pc = "read"]
      /\ queue' = [queue EXCEPT ![t[1]] = Append(@, thread[t].event)]
  BY DEF Put, connection, Goto
<1>3. ASSUME NEW u \in Threads, thread'[u].pc \in {"called", "put", "update"}
      PROVE  Handling(u) /\ thread'[u] = thread[u] /\ u[1] \in Sides
  <2>1. thread'[t].pc = "read" /\ (u # t => thread'[u] = thread[u])
    BY <1>2 DEF TypeInv, ThreadTypes, Doing
  <2> QED
    BY <1>3, <2>1, SideOfThread DEF Handling
<1>4. EventsPossible'
  <2>1. AllPossible(version[t[1]], HasSnapshot(t[1]), Append(queue[t[1]], thread[t].event))
    BY <1>1, FollowTypes, SentIsPossible DEF FollowInv, EventsPossible
  <2>2. /\ queue'[t[1]] = Append(queue[t[1]], thread[t].event)
        /\ \A s \in Sides \ {t[1]} : queue'[s] = queue[s]
    BY <1>1, <1>2 DEF TypeInv, BookTypes
  <2> QED
    BY <1>2, <1>3, <2>1, <2>2 DEF FollowInv, EventsPossible, Handling, HasSnapshot
<1>5. EventsInOrder'
  BY <1>2, <1>3 DEF FollowInv, EventsInOrder, Handling
<1>6. NotAhead'
  BY <1>2, <1>3 DEF FollowInv, NotAhead, Handling, HasSnapshot
<1> QED
  BY <1>4, <1>5, <1>6

\* An event is applied: those still to come were sent after it.
LEMMA UpdateFollowed ==
  ASSUME TypeInv, OneThread, FollowInv, NEW t \in Threads, Update(t)
  PROVE  EventsPossible' /\ EventsInOrder' /\ NotAhead'
<1> DEFINE s == t[1]  e == thread[t].event
<1>1. s \in Sides /\ e \in Event /\ Handling(t) /\ Busy(t)
  BY SideOfThread DEF Update, At, TypeInv, TakesEvents, Handling, Busy
<1>2. UNCHANGED <<kind, version, queue>> /\ \A r \in Sides : wire'[r] \in {wire[r], <<>>}
  BY DEF Update, Disconnect, connection
<1>3. book'[s] = Updated(book[s], e) /\ \A r \in Sides \ {s} : book'[r] = book[r]
  BY <1>1 DEF Update, TypeInv, BookTypes
<1>4. ASSUME NEW u \in Threads, thread'[u].pc \in {"called", "put", "update"}
      PROVE  Handling(u) /\ thread'[u] = thread[u] /\ u[1] # s /\ u[1] \in Sides
  <2>1. PICK pc \in {"leave", "decide", "read"} : Goto(t, pc)
    BY DEF Update
  <2>2. thread'[t].pc = pc /\ (u # t => thread'[u] = thread[u])
    BY <2>1 DEF Goto, TypeInv, ThreadTypes, Doing
  <2> QED
    BY <1>1, <1>4, <2>2, OneHandles, SideOfThread DEF Handling
<1>5. EventsPossible'
  BY <1>2, <1>4, NoEvents DEF FollowInv, EventsPossible, Handling, HasSnapshot
<1>6. EventsInOrder'
  BY <1>2, <1>4, NoEvents DEF FollowInv, EventsInOrder, Handling
<1>7. \/ book'[s] = book[s]
      \/ book'[s].seq = e.last /\ e.last <= version[s]
  <2>1. /\ Possible(version[s], HasSnapshot(s), e)
        /\ e.full /\ book[s].seq # None => book[s].seq <= e.last
    BY <1>1 DEF FollowInv, EventsPossible, NotAhead, Possible
  <2>2. book[s] \in Book
    BY <1>1, FollowTypes
  <2> HIDE DEF s, e
  <2> QED
    BY <1>1, <1>3, <2>1, <2>2, UpdateForward
<1>8. NoneBefore(e.last, wire[s])
  BY <1>1 DEF FollowInv, EventsInOrder
<1>9. NotAhead'
  <2>1. ASSUME NEW r \in Sides, book'[r].seq # None
        PROVE  /\ book'[r].seq <= version[r]
               /\ HasSnapshot(r) \/ NoneBefore(book'[r].seq, wire'[r])
    <3>1. /\ book'[r].seq <= version[r]
          /\ HasSnapshot(r) \/ NoneBefore(book'[r].seq, wire[r])
      BY <1>3, <1>7, <1>8, <2>1 DEF FollowInv, NotAhead
    <3> QED
      BY <1>2, <3>1, NoEvents
  <2>2. ASSUME NEW u \in Threads, book'[u[1]].seq # None, thread'[u].pc \in {"called", "put", "update"}
        PROVE  HasSnapshot(u[1]) \/ book'[u[1]].seq <= thread'[u].event.last
    BY <1>3, <1>4, <2>2 DEF FollowInv, NotAhead
  <2> QED
    BY <1>2, <2>1, <2>2 DEF NotAhead, Handling, HasSnapshot
<1> QED
  BY <1>5, <1>6, <1>9

\* The threads that synchronise: a snapshot is of what has happened.
LEMMA FetchFollowed ==
  ASSUME TypeInv, FollowInv, NEW s \in Sides, Fetch(s)
  PROVE  EventsPossible' /\ EventsInOrder' /\ NotAhead'
<1>1. UNCHANGED <<kind, version, thread, wire, queue>>
  BY DEF Fetch, connection
<1>2. CASE \A r \in Sides : book'[r] = book[r] \/ book'[r].seq = None
  BY <1>1, <1>2, Quieter DEF Handling
<1>3. CASE HasSnapshot(s) /\ \E v \in {version[s], version[s] - 1} \cap Nat :
             book' = [book EXCEPT ![s] = [seq |-> v, upto |-> v]]
  <2>1. PICK v \in {version[s], version[s] - 1} \cap Nat :
          book' = [book EXCEPT ![s] = [seq |-> v, upto |-> v]]
    BY <1>3
  <2>2. book'[s].seq = v /\ v <= version[s] /\ \A r \in Sides \ {s} : book'[r] = book[r]
    BY <2>1, FollowTypes DEF TypeInv, BookTypes
  <2>3. \A t \in Threads : t[1] \in Sides
    BY SideOfThread
  <2>4. NotAhead'
    BY <1>1, <1>3, <2>2, <2>3 DEF FollowInv, NotAhead, Handling, HasSnapshot
  <2> QED
    BY <1>1, <2>4 DEF FollowInv, EventsPossible, EventsInOrder, Handling, HasSnapshot
<1> QED
  <2>1. CASE UNCHANGED book
    BY <1>2, <2>1
  <2>2. CASE book' = [book EXCEPT ![s] = Empty]
    BY <1>2, <2>2 DEF Empty, TypeInv, BookTypes
  <2> QED
    BY <1>3, <2>1, <2>2 DEF Fetch

LEMMA DrainFollowed ==
  ASSUME TypeInv, FollowInv, NEW s \in Sides, Drain(s)
  PROVE  EventsPossible' /\ EventsInOrder' /\ NotAhead'
<1>1. UNCHANGED <<kind, version, thread, wire>> /\ HasSnapshot(s)
  BY DEF Drain, connection, FollowInv, GotFirst
<1>2. CASE UNCHANGED <<book, queue>>
  BY <1>1, <1>2, Quieter DEF Handling
<1>3. CASE /\ queue[s] # <<>>
           /\ queue' = [queue EXCEPT ![s] = Tail(@)]
           /\ book' = [book EXCEPT ![s] = Updated(@, Head(queue[s]))]
  <2>1. queue[s] \in Seq(Event) /\ book[s] \in Book
    BY FollowTypes
  <2>2. /\ Possible(version[s], HasSnapshot(s), Head(queue[s]))
        /\ AllPossible(version[s], HasSnapshot(s), Tail(queue[s]))
    BY <1>3, <2>1, TakenIsPossible DEF FollowInv, EventsPossible
  <2>3. Head(queue[s]) \in Event /\ ~ Head(queue[s]).full
    BY <1>1, <1>3, <2>1, <2>2, EventTaken DEF Possible
  <2>4. /\ book'[s] = Updated(book[s], Head(queue[s])) /\ queue'[s] = Tail(queue[s])
        /\ \A r \in Sides \ {s} : book'[r] = book[r] /\ queue'[r] = queue[r]
    BY <1>3 DEF TypeInv, BookTypes
  <2>5. book'[s] = book[s] \/ book'[s].seq <= version[s]
    BY <2>1, <2>2, <2>3, <2>4, UpdateForward
  <2>6. NotAhead'
    <3>1. \A t \in Threads : t[1] \in Sides
      BY SideOfThread
    <3> QED
      BY <1>1, <2>4, <2>5, <3>1 DEF FollowInv, NotAhead, Handling, HasSnapshot
  <2>7. EventsPossible'
    BY <1>1, <2>2, <2>4 DEF FollowInv, EventsPossible, Handling, HasSnapshot
  <2> QED
    BY <1>1, <2>6, <2>7 DEF FollowInv, EventsInOrder, Handling
<1> QED
  BY <1>2, <1>3 DEF Drain

\* The steps of the subscriptions: only a book that was synchronised is updated.
LEMMA SubscriptionGotFirst ==
  ASSUME TypeInv, OneThread, DecideInv, FollowInv, NEW t \in Threads, SubscriptionStep(t) \/ Fail(t)
  PROVE  GotFirst'
<1>1. UNCHANGED <<kind, main, synced, sync>>
  BY DEF SubscriptionStep, Subscribe, Connect, Stop, Wake, End, Fail, Receive, Branch, Put,
         Update, Decide, Leave, local, supervision
<1>2. t[1] \in Sides
  BY SideOfThread
<1>3. ASSUME NEW s \in Sides, sync[s] = "fetch" \/ main \in {"subscribe", "sync"}
      PROVE  book'[s].seq = None
  <2>1. book[s].seq = None /\ ~ synced[s]
    BY <1>3 DEF FollowInv, GotFirst, DecideInv, InStage
  <2>2. CASE Update(t)
    <3>1. synced[t[1]] /\ t[1] # s
      BY <2>1, <2>2 DEF Update, FollowInv, GotFirst
    <3> QED
      BY <2>1, <2>2, <3>1 DEF Update, TypeInv, BookTypes
  <2>3. CASE ~ Update(t)
    BY <2>1, <2>3
    DEF SubscriptionStep, Subscribe, Connect, Stop, Wake, End, Fail, Receive, Branch, Put, Decide,
        Leave, local
  <2> QED
    BY <2>2, <2>3
<1>4. ASSUME NEW u \in Threads, thread'[u].pc = "update" PROVE synced[u[1]]
  <2>1. CASE At(u, "update")
    BY <2>1 DEF FollowInv, GotFirst
  <2>2. CASE ~ At(u, "update")
    <3>1. u = t /\ Branch(t)
      <4>1. \A d \in Doing : thread' = [thread EXCEPT ![t] = d] => u = t /\ thread'[t] = d
        BY <1>4, <2>2 DEF At, TypeInv, ThreadTypes
      <4>2. ASSUME NEW pc, Goto(t, pc) PROVE u = t /\ pc = "update"
        <5>1. thread'[t].pc = pc /\ (u # t => thread'[u] = thread[u])
          BY <4>2 DEF Goto, TypeInv, ThreadTypes, Doing
        <5> QED
          BY <1>4, <2>2, <5>1 DEF At
      <4>3. ~ UNCHANGED thread
        BY <1>4, <2>2 DEF At
      <4>4. \A d \in {Idle, Asleep} : thread' # [thread EXCEPT ![t] = d]
        BY <1>4, <2>2, NoEventHandled DEF At, TypeInv, ThreadTypes
      <4>5. ~ Receive(t)
        <5>1. thread' # [thread EXCEPT ![t] =
                [pc |-> "called", event |-> Head(wire[t[1]]), stage |-> stage]]
          BY <1>4, <2>2 DEF At, TypeInv, ThreadTypes
        <5> QED
          BY <4>3, <5>1 DEF Receive
      <4>6. Branch(t)
        BY <4>2, <4>3, <4>4, <4>5
        DEF SubscriptionStep, Subscribe, Connect, Stop, Wake, End, Fail, Put, Update, Decide, Leave
      <4> QED
        BY <4>2, <4>6 DEF Branch
    <3>2. thread'[t].pc = "update" => ~ Goto(t, "put") /\ ~ Goto(t, "read")
      BY DEF Goto, TypeInv, ThreadTypes, Doing
    <3>3. thread[t].stage = "after" \/ synced[t[1]]
      BY <1>4, <3>1, <3>2 DEF Branch
    <3> QED
      BY <1>2, <3>1, <3>3 DEF DecideInv, ReadStage, InStage
  <2> QED
    BY <2>1, <2>2
<1> QED
  BY <1>1, <1>3, <1>4 DEF FollowInv, GotFirst, At, HasSnapshot

LEMMA SyncGotFirst ==
  ASSUME TypeInv, DecideInv, FollowInv, NEW s \in Sides, Fetch(s) \/ Drain(s)
  PROVE  GotFirst'
<1>1. UNCHANGED <<kind, main, thread>> /\ main = "join" /\ ~ synced[s]
  BY DEF Fetch, Drain, DecideInv, InStage, FollowInv, GotFirst
<1>2. \A r \in Sides \ {s} : sync'[r] = sync[r] /\ synced'[r] = synced[r] /\ book'[r] = book[r]
  BY DEF Fetch, Drain, Synced, TypeInv, SyncTypes, BookTypes
<1>3. sync'[s] # "fetch" /\ (sync'[s] = "drain" => HasSnapshot(s) /\ ~ synced'[s])
  <2>1. CASE Fetch(s)
    BY <1>1, <2>1 DEF Fetch, Synced, TypeInv, SyncTypes
  <2>2. CASE Drain(s)
    BY <1>1, <2>2 DEF Drain, Synced, TypeInv, SyncTypes, FollowInv, GotFirst
  <2> QED
    BY <2>1, <2>2
<1>4. ASSUME NEW t \in Threads, At(t, "update") PROVE synced'[t[1]]
  BY <1>1, <1>2, <1>4, SideOfThread DEF FollowInv, GotFirst
<1> QED
  BY <1>1, <1>2, <1>3, <1>4 DEF FollowInv, GotFirst, At, HasSnapshot

\* The main thread: books are thrown away before subscriptions are started.
LEMMA MainFollowed ==
  ASSUME TypeInv, OneThread, DecideInv, FollowInv, MainStep
  PROVE  FollowInv'
<1>1. UNCHANGED <<kind, version>>
  BY DEF MainStep, Clear, InitState, SubscribeBoth, StartSync, Join, Check, NoticeStop, Hold,
         Subscriptions
<1>2. \A s \in Sides : wire'[s] \in {wire[s], <<>>} /\ queue'[s] \in {queue[s], <<>>}
  BY DEF MainStep, Clear, InitState, SubscribeBoth, StartSync, Join, Check, NoticeStop, Hold,
         Subscriptions, connection, local, Disconnect
<1>3. \A s \in Sides : book'[s] = book[s] \/ book'[s].seq = None
  BY DEF MainStep, Clear, InitState, SubscribeBoth, StartSync, Join, Check, NoticeStop, Hold,
         local, Empty
<1>4. \A t \in Threads : thread'[t] = thread[t] \/ thread'[t].pc = "start"
  BY DEF MainStep, Clear, InitState, SubscribeBoth, StartSync, Join, Check, NoticeStop, Hold,
         Subscriptions, Idle
<1>5. EventsPossible' /\ EventsInOrder' /\ NotAhead'
  BY <1>1, <1>2, <1>3, <1>4, Quieter DEF Handling
<1>6. GotFirst'
  <2>1. \A t \in Threads : t[1] \in Sides
    BY SideOfThread
  <2>2. CASE Clear
    <3>1. main' = "init" /\ UNCHANGED <<kind, thread, book, synced, sync>>
      BY <2>2 DEF Clear, MainGoto, Subscriptions
    <3> QED
      BY <3>1 DEF FollowInv, GotFirst, At, HasSnapshot
  <2>3. CASE InitState
    <3>1. main' = "subscribe" /\ UNCHANGED <<thread, sync>>
          /\ \A s \in Sides : book'[s].seq = None
      BY <2>3 DEF InitState, MainGoto, Subscriptions, Empty
    <3>2. \A t \in Threads : ~ Busy(t)
      BY <2>3 DEF InitState, MainAt, OneThread
    <3>3. \A s \in Sides : sync[s] = "idle"
      BY <2>3 DEF InitState, MainAt, DecideInv, InStage
    <3> QED
      BY <3>1, <3>2, <3>3 DEF GotFirst, At, Busy
  <2>4. CASE SubscribeBoth
    <3>1. main = "subscribe" /\ UNCHANGED <<kind, book, synced, sync>>
      BY <2>4 DEF SubscribeBoth, MainAt, local
    <3> QED
      BY <1>4, <3>1 DEF FollowInv, GotFirst, At, HasSnapshot
  <2>5. CASE StartSync
    <3>1. main = "sync" /\ main' = "join" /\ UNCHANGED <<thread, book, synced>>
          /\ \A s \in Sides : sync'[s] = "fetch"
      BY <2>5 DEF StartSync, MainAt, MainGoto, Subscriptions, local
    <3> QED
      BY <3>1 DEF FollowInv, GotFirst, At
  <2>6. CASE Join
    <3>1. main' = "check" /\ UNCHANGED <<thread, book, synced>> /\ \A s \in Sides : sync'[s] = "idle"
      BY <2>6 DEF Join, MainGoto, Subscriptions, local
    <3> QED
      BY <3>1 DEF FollowInv, GotFirst, At
  <2>7. CASE Check \/ NoticeStop \/ Hold
    <3>1. main' \in {"watch", "hold", "pause"} /\ UNCHANGED <<kind, thread, book, synced, sync>>
      BY <2>7 DEF Check, NoticeStop, Hold, MainGoto, Subscriptions, local
    <3> QED
      BY <3>1 DEF FollowInv, GotFirst, At, HasSnapshot
  <2> QED
    BY <2>2, <2>3, <2>4, <2>5, <2>6, <2>7 DEF MainStep
<1> QED
  BY <1>5, <1>6 DEF FollowInv

\* The steps of the subscriptions in which no event gets nearer and no book changes.
LEMMA SubscriptionFollowed ==
  ASSUME TypeInv, OneThread, DecideInv, FollowInv, NEW t \in Threads, SubscriptionStep(t) \/ Fail(t)
  PROVE  FollowInv'
<1>1. GotFirst'
  BY SubscriptionGotFirst
<1>2. CASE Connect(t) \/ Receive(t) \/ Put(t) \/ Update(t)
  BY <1>1, <1>2, ConnectFollowed, ReceiveFollowed, PutFollowed, UpdateFollowed DEF FollowInv
<1>3. ASSUME NEW pc \in PCs, thread' = [thread EXCEPT ![t].pc = pc],
             pc \in {"called", "put", "update"} => Handling(t)
      PROVE  \A u \in Threads : thread'[u].pc \in {"called", "put", "update"}
               => Handling(u) /\ thread'[u].event = thread[u].event
  <2>1. thread'[t].pc = pc /\ thread'[t].event = thread[t].event
    BY <1>3 DEF TypeInv, ThreadTypes, Doing
  <2>2. \A u \in Threads \ {t} : thread'[u] = thread[u]
    BY <1>3 DEF TypeInv, ThreadTypes
  <2> QED
    BY <1>3, <2>1, <2>2 DEF Handling
<1>4. CASE Subscribe(t) \/ Stop(t) \/ End(t) \/ Fail(t) \/ Branch(t) \/ Decide(t) \/ Leave(t)
  <2>1. UNCHANGED <<kind, version, book, queue>>
    BY <1>4 DEF Subscribe, Stop, End, Fail, Branch, Decide, Leave, local
  <2>2. \A s \in Sides : wire'[s] \in {wire[s], <<>>}
    BY <1>4 DEF Subscribe, Stop, End, Fail, Branch, Decide, Leave, connection, Disconnect
  <2>3. \A u \in Threads : thread'[u].pc \in {"called", "put", "update"}
          => Handling(u) /\ thread'[u].event = thread[u].event
    <3>1. CASE UNCHANGED thread
      BY <3>1 DEF Handling
    <3>2. ASSUME NEW d \in {Idle, Asleep}, thread' = [thread EXCEPT ![t] = d]
          PROVE  \A u \in Threads : thread'[u].pc \in {"called", "put", "update"}
                   => Handling(u) /\ thread'[u].event = thread[u].event
      BY <3>2, NoEventHandled DEF Handling, TypeInv, ThreadTypes
    <3>3. CASE Branch(t)
      <4>1. Handling(t)
        BY <3>3 DEF Branch, At, Handling
      <4> QED
        BY <1>3, <3>3, <4>1 DEF Branch, Goto, PCs
    <3>4. CASE ~ Branch(t)
      <4>1. \/ UNCHANGED thread
            \/ \E pc \in {"connect", "leave", "read"} : thread' = [thread EXCEPT ![t].pc = pc]
            \/ \E d \in {Idle, Asleep} : thread' = [thread EXCEPT ![t] = d]
        BY <1>4, <3>4 DEF Subscribe, Stop, End, Fail, Decide, Leave, Goto
      <4> QED
        BY <1>3, <3>1, <3>2, <4>1 DEF PCs
    <3> QED
      BY <3>3, <3>4
  <2>4. EventsPossible' /\ EventsInOrder' /\ NotAhead'
    BY <2>1, <2>2, <2>3, Quieter
  <2> QED
    BY <1>1, <2>4 DEF FollowInv
<1> QED
  BY <1>2, <1>4 DEF SubscriptionStep, Wake

LEMMA FollowKept ==
  ASSUME TypeInv, OneThread, DecideInv, FollowInv, [Next]_vars
  PROVE  FollowInv'
<1>1. CASE UNCHANGED vars
  <2>1. UNCHANGED <<kind, version, wire, thread, main, book, synced, queue, sync>>
    BY <1>1 DEF vars
  <2> QED
    BY <2>1
    DEF FollowInv, EventsPossible, EventsInOrder, GotFirst, NotAhead, Handling, At, HasSnapshot
<1>2. ASSUME NEW s \in Sides, Fetch(s) \/ Drain(s) PROVE FollowInv'
  BY <1>2, FetchFollowed, DrainFollowed, SyncGotFirst DEF FollowInv
<1> QED
  BY <1>1, <1>2, TradeFollowed, SubscriptionFollowed, MainFollowed DEF Next

\* What the mirror sees of a book that is exact is its sequence_id.
LEMMA SeenInMirror == BookExact => Copy = [s \in Sides |-> book[s].seq]
<1>1. ASSUME NEW s \in Sides, BookExact PROVE Shown(book[s]) = book[s].seq
  BY <1>1 DEF BookExact, Shown
<1> QED
  BY <1>1 DEF Copy

LEMMA MirrorSees ==
  ASSUME BookExact, BookExact'
  PROVE  /\ Copy = [s \in Sides |-> book[s].seq]
         /\ Copy' = [s \in Sides |-> book'[s].seq]
<1>1. Copy = [s \in Sides |-> book[s].seq]
  BY SeenInMirror
<1>2. ASSUME NEW s \in Sides PROVE Shown(book[s])' = book'[s].seq
  BY DEF BookExact, Shown
<1>3. Copy' = [s \in Sides |-> book'[s].seq]
  BY <1>2 DEF Copy
<1> QED
  BY <1>1, <1>3

\* A book that is got, or that goes forward, is a step of the mirror.
LEMMA MirrorMoves ==
  ASSUME TypeInv, TypeInv', BookExact, BookExact', UNCHANGED version, NEW s \in Sides,
         \A r \in Sides \ {s} : book'[r] = book[r],
         \/ book'[s].seq = book[s].seq
         \/ /\ book'[s].seq \in Int /\ book'[s].seq >= 0 /\ book'[s].seq <= version[s]
            /\ book[s].seq # None => book[s].seq <= book'[s].seq
  PROVE  [Mirror!Next]_<<version, Copy>>
<1>1. /\ Copy = [r \in Sides |-> book[r].seq]
      /\ Copy' = [r \in Sides |-> book'[r].seq]
  BY MirrorSees
<1>2. Copy' = [Copy EXCEPT ![s] = book'[s].seq] /\ Copy[s] = book[s].seq
  BY <1>1
<1>3. version[s] \in Int /\ (book[s].seq # None => book[s].seq \in Int)
  BY FollowTypes
<1>4. CASE book'[s].seq = book[s].seq
  BY <1>1, <1>4
<1>5. CASE /\ book'[s].seq \in Int /\ book'[s].seq >= 0 /\ book'[s].seq <= version[s]
           /\ book[s].seq = None
  <2>1. book'[s].seq \in 0 .. version[s]
    BY <1>3, <1>5
  <2>2. Mirror!Load(s)
    BY <1>2, <1>5, <2>1 DEF Mirror!Load
  <2> QED
    BY <2>2 DEF Mirror!Next
<1>6. CASE /\ book'[s].seq \in Int /\ book'[s].seq <= version[s]
           /\ book[s].seq # None /\ book[s].seq <= book'[s].seq /\ book'[s].seq # book[s].seq
  <2>1. book'[s].seq \in book[s].seq + 1 .. version[s]
    BY <1>3, <1>6
  <2>2. Mirror!Follow(s)
    BY <1>2, <1>6, <2>1 DEF Mirror!Follow
  <2> QED
    BY <2>2 DEF Mirror!Next
<1> QED
  BY <1>4, <1>5, <1>6

LEMMA MirrorStep ==
  ASSUME TypeInv, TypeInv', BookExact, BookExact', OneThread, FollowInv, Next
  PROVE  [Mirror!Next]_<<version, Copy>>
<1>1. CASE UNCHANGED <<version, book>>
  BY <1>1 DEF Copy
<1>2. ASSUME NEW s \in Sides, Trade(s) PROVE [Mirror!Next]_<<version, Copy>>
  <2>1. UNCHANGED Copy /\ \E n \in version[s] + 1 .. MaxVersion : version' = [version EXCEPT ![s] = n]
    BY <1>2 DEF Trade, Copy
  <2>2. Mirror!Change(s)
    BY <2>1 DEF Mirror!Change
  <2> QED
    BY <2>2 DEF Mirror!Next
<1>3. ASSUME NEW s \in Sides, Fetch(s) PROVE [Mirror!Next]_<<version, Copy>>
  <2>1. UNCHANGED version /\ sync[s] = "fetch" /\ book[s].seq = None
    BY <1>3 DEF Fetch, FollowInv, GotFirst
  <2>2. CASE UNCHANGED book
    BY <1>1, <2>1, <2>2
  <2>3. CASE book' = [book EXCEPT ![s] = Empty]
    <3>1. book'[s].seq = book[s].seq /\ \A r \in Sides \ {s} : book'[r] = book[r]
      BY <2>1, <2>3 DEF Empty, TypeInv, BookTypes
    <3> QED
      BY <2>1, <3>1, MirrorMoves
  <2>4. CASE \E v \in {version[s], version[s] - 1} \cap Nat :
               book' = [book EXCEPT ![s] = [seq |-> v, upto |-> v]]
    <3>1. PICK v \in {version[s], version[s] - 1} \cap Nat :
            book' = [book EXCEPT ![s] = [seq |-> v, upto |-> v]]
      BY <2>4
    <3>2. book'[s].seq = v /\ \A r \in Sides \ {s} : book'[r] = book[r]
      BY <3>1 DEF TypeInv, BookTypes
    <3>3. v \in Int /\ v >= 0 /\ v <= version[s]
      BY FollowTypes
    <3> QED
      BY <2>1, <3>2, <3>3, MirrorMoves
  <2> QED
    BY <1>3, <2>2, <2>3, <2>4 DEF Fetch
<1>4. ASSUME NEW s \in Sides, NEW e \in Event, UNCHANGED version,
             book' = [book EXCEPT ![s] = Updated(@, e)],
             Possible(version[s], HasSnapshot(s), e),
             e.full /\ book[s].seq # None => book[s].seq <= e.last
      PROVE  [Mirror!Next]_<<version, Copy>>
  <2>1. book'[s] = Updated(book[s], e) /\ \A r \in Sides \ {s} : book'[r] = book[r]
    BY <1>4 DEF TypeInv, BookTypes
  <2>2. book[s] \in Book
    BY FollowTypes
  <2>3. \/ Updated(book[s], e) = book[s]
        \/ /\ Updated(book[s], e).seq = e.last /\ e.last \in Int /\ e.last >= 0
           /\ e.last <= version[s]
           /\ book[s].seq # None => book[s].seq <= e.last
    BY <1>4, <2>2, UpdateForward
  <2> QED
    BY <1>4, <2>1, <2>3, MirrorMoves
<1>5. ASSUME NEW s \in Sides, Drain(s) PROVE [Mirror!Next]_<<version, Copy>>
  <2>1. UNCHANGED version /\ HasSnapshot(s)
    BY <1>5 DEF Drain, FollowInv, GotFirst
  <2>2. CASE UNCHANGED book
    BY <1>1, <2>1, <2>2
  <2>3. CASE queue[s] # <<>> /\ book' = [book EXCEPT ![s] = Updated(@, Head(queue[s]))]
    <3>1. queue[s] \in Seq(Event) /\ queue[s] # <<>>
      BY <2>3, FollowTypes
    <3>2. Possible(version[s], HasSnapshot(s), Head(queue[s]))
      BY <3>1, TakenIsPossible DEF FollowInv, EventsPossible
    <3>3. Head(queue[s]) \in Event /\ ~ Head(queue[s]).full
      BY <2>1, <3>1, <3>2, EventTaken DEF Possible
    <3> QED
      BY <1>4, <2>1, <2>3, <3>2, <3>3
  <2> QED
    BY <1>5, <2>2, <2>3 DEF Drain
<1>6. ASSUME NEW t \in Threads, Update(t) PROVE [Mirror!Next]_<<version, Copy>>
  <2>1. t[1] \in Sides /\ thread[t].event \in Event /\ Handling(t) /\ UNCHANGED version
    BY <1>6, SideOfThread DEF Update, At, TypeInv, TakesEvents, Handling
  <2>2. /\ Possible(version[t[1]], HasSnapshot(t[1]), thread[t].event)
        /\ thread[t].event.full /\ book[t[1]].seq # None
             => book[t[1]].seq <= thread[t].event.last
    BY <2>1 DEF FollowInv, EventsPossible, NotAhead, Possible
  <2>3. book' = [book EXCEPT ![t[1]] = Updated(@, thread[t].event)]
    BY <1>6 DEF Update
  <2> QED
    BY <1>4, <2>1, <2>2, <2>3
<1>7. CASE InitState
  <2>1. UNCHANGED version /\ Copy' = [s \in Sides |-> None]
    BY <1>7 DEF InitState, Subscriptions, Empty, Copy, Shown
  <2>2. Mirror!Reset
    BY <2>1 DEF Mirror!Reset
  <2> QED
    BY <2>2 DEF Mirror!Next
<1>8. ASSUME NEW t \in Threads, SubscriptionStep(t) \/ Fail(t), ~ Update(t)
      PROVE  UNCHANGED <<version, book>>
  BY <1>8
  DEF SubscriptionStep, Subscribe, Connect, Stop, Wake, End, Fail, Receive, Branch, Put, Decide,
      Leave, local
<1>9. ASSUME MainStep, ~ InitState PROVE UNCHANGED <<version, book>>
  BY <1>9
  DEF MainStep, Clear, SubscribeBoth, StartSync, Join, Check, NoticeStop, Hold, local, Subscriptions
<1> QED
  BY <1>1, <1>2, <1>3, <1>5, <1>6, <1>7, <1>8, <1>9 DEF Next

\* update_for_*, update_from_queue and the resets implement a mirror of the exchange's
\* book: where threads end in the pauses that are made for them, no snapshot, queued
\* event or whole book ever takes a local book back, ahead of the exchange, or to levels
\* that the exchange never had, and only a reset gives it up.
THEOREM BooksFollow == ~ Slow /\ Safe => Mirrors
<1> DEFINE Inv == TypeInv /\ BookExact /\ OneThread /\ DecideInv /\ FollowInv
<1>1. Init => Inv
  <2>1. Init => BookExact
    BY DEF Init, Empty, BookExact
  <2> QED
    BY <2>1, TypesInit, OneThreadInit, DecideInit, FollowInit
<1>2. Init => Mirror!Init
  BY DEF Init, Empty, Copy, Shown, Mirror!Init
<1>3. ASSUME ~ Slow PROVE Inv /\ [Next]_vars => Inv' /\ [Mirror!Next]_<<version, Copy>>
  <2> SUFFICES ASSUME Inv, [Next]_vars PROVE Inv' /\ [Mirror!Next]_<<version, Copy>>
    OBVIOUS
  <2>1. TypeInv' /\ OneThread' /\ DecideInv' /\ FollowInv'
    BY <1>3, TypesKept, OneThreadKept, DecideKept, FollowKept
  <2>2. BookExact'
    <3>1. CASE UNCHANGED vars
      BY <3>1 DEF vars, BookExact
    <3> QED
      BY <3>1, ExactKept
  <2>3. CASE UNCHANGED vars
    BY <2>1, <2>2, <2>3 DEF vars, Copy
  <2>4. CASE Next
    BY <2>1, <2>2, <2>4, MirrorStep
  <2> QED
    BY <2>1, <2>2, <2>3, <2>4
<1> HIDE DEF Inv
<1> SUFFICES ASSUME ~ Slow PROVE Safe => Mirrors
  OBVIOUS
<1> QED
  BY <1>1, <1>2, <1>3, PTL DEF Safe, Mirrors, Mirror!Spec
=============================================================================
