-------------------------- MODULE OrderRecovery_proofs --------------------------
(***************************************************************************)
(* What recovery may believe about the exchange: that an order it drops is *)
(* gone, that a leg has one order on the books, that the volume it has in  *)
(* hand is still wanted. OrderLifecycle_proofs has the types and custody   *)
(* that these theorems rest on.                                            *)
(***************************************************************************)
EXTENDS OrderLifecycle_proofs

USE OrderAssumption

-----------------------------------------------------------------------------
(***************************************************************************)
(* Which Trades are in the queues and in hand after a step.                *)
(***************************************************************************)
LEMMA RequeueKeeps ==
  ASSUME TypeOK, NEW p \in Procs, hand[p] \in Trade, Requeue(p)
  PROVE  /\ Entries(watch') \subseteq Entries(watch) \cup {hand[p]}
         /\ Entries(failed') \subseteq Entries(failed) \cup {hand[p]}
         /\ p \in ExpiredWorkers => failed' = failed
         /\ p \in FailedWorkers => watch' = watch
<1>1. CASE p \in ExpiredWorkers
  BY <1>1, WatchKeeps DEF Requeue, TypeOK, QueuesType
<1>2. CASE p \notin ExpiredWorkers
  BY <1>2, PushKeeps DEF Requeue, AddFailedOrder, TypeOK, QueuesType
<1> QED
  BY <1>1, <1>2

-----------------------------------------------------------------------------
(***************************************************************************)
(* The exchange. An order that was on its books once keeps its id, owner   *)
(* and volume, and never comes back to the books.                          *)
(***************************************************************************)
Placed(id) == exch[id].st \in {"open", "filled", "cancelled"}

Onward ==
  \A id \in Ids : Placed(id) =>
    /\ Placed(id)' /\ (Live(id)' => Live(id))
    /\ exch'[id].owner = exch[id].owner
    /\ exch'[id].vol = exch[id].vol
    /\ exch'[id].done >= exch[id].done

\* The ways in which a step of the bots and the services touches the exchange.
LEMMA CallsOfBot ==
  ASSUME TypeInv, NEW o \in Orders, BotStep(o)
  PROVE  /\ bot'[o] # "new" /\ \A q \in Orders : q # o => bot'[q] = bot[q]
         /\ \/ UNCHANGED exch
            \/ /\ bot[o] = "new" /\ bot'[o] # "handed"
               /\ \E id \in FreeIds, st \in Unseen : Accept(id, o, Volume, st)
BY DEF BotStep, BotPost, BotHandOver, BotRecord, BotCrash, Unseen, TypeInv, TypeOK

LEMMA CallsOfService ==
  ASSUME TypeInv, NEW p \in Procs,
         \/ p \in ExpiredWorkers /\ ExpiredStep(p)
         \/ p \in FailedWorkers /\ FailedStep(p)
         \/ Crash(p) \/ Restart(p)
  PROVE  \/ UNCHANGED exch
         \/ /\ Post(p) /\ hand[p] \in Trade
            /\ \E id \in FreeIds, v \in 1 .. Volume, st \in Unseen :
                 Accept(id, hand[p].order, v, st)
         \/ Cancel(p) /\ hand[p].oid \in OpenOrders /\ CancelAt(hand[p].oid)
<1>1. CASE Post(p)
  <2>1. hand[p] \in Trade
    BY <1>1 DEF Post, TypeInv, TypeOK, ServiceType
  <2>2. \/ UNCHANGED exch
        \/ \E id \in FreeIds, v \in Affordable(hand[p].vol), st \in Unseen :
             v >= MinVolume /\ Accept(id, hand[p].order, v, st)
    BY <1>1 DEF Post, Unseen
  <2>3. \A v \in Affordable(hand[p].vol) : v >= MinVolume => v \in 1 .. Volume
    <3>1. hand[p].vol \in -1 .. Volume /\ Volume \in Nat /\ MinVolume \in Nat \ {0}
      BY <2>1 DEF Trade
    <3> QED
      BY <3>1 DEF Affordable
  <2> QED
    BY <1>1, <2>1, <2>2, <2>3
<1>2. CASE Cancel(p)
  BY <1>2 DEF Cancel
<1>3. CASE ~ Post(p) /\ ~ Cancel(p)
  BY <1>3 DEF ExpiredStep, FailedStep, First, Claim, Query, Pop, SearchOpen, SearchHistory,
              Market, Save, Watch, Crash, Restart
<1> QED
  BY <1>1, <1>2, <1>3

LEMMA OnwardStep ==
  ASSUME TypeInv, [Next]_vars
  PROVE  Onward
<1>1. ExchangeType
  BY DEF TypeInv, TypeOK
<1>2. CASE UNCHANGED exch
  BY <1>1, <1>2 DEF Onward, Placed, Live, ExchangeType
<1>3. ASSUME NEW id \in FreeIds, NEW o, NEW v, NEW st, Accept(id, o, v, st)
      PROVE  Onward
  BY <1>1, <1>3 DEF Onward, Placed, Live, ExchangeType, FreeIds, Accept
<1>4. ASSUME NEW id \in OpenOrders, CancelAt(id)
      PROVE  Onward
  BY <1>1, <1>4 DEF Onward, Placed, Live, ExchangeType, OpenOrders, CancelAt
<1>5. ASSUME NEW id \in Ids, Fill(id) \/ Arrive(id)
      PROVE  Onward
  <2>1. CASE Fill(id)
    BY <1>1, <2>1 DEF Onward, Placed, Live, ExchangeType, Fill
  <2>2. CASE Arrive(id)
    BY <1>1, <2>2 DEF Onward, Placed, Live, ExchangeType, Arrive
  <2> QED
    BY <1>5, <2>1, <2>2
<1>6. ASSUME NEW o \in Orders, BotStep(o)
      PROVE  Onward
  BY <1>2, <1>3, <1>6, CallsOfBot
<1>7. ASSUME NEW p \in Procs,
             \/ p \in ExpiredWorkers /\ ExpiredStep(p)
             \/ p \in FailedWorkers /\ FailedStep(p)
             \/ Crash(p) \/ Restart(p)
      PROVE  Onward
  BY <1>2, <1>3, <1>4, <1>7, CallsOfService
<1> QED
  BY <1>2, <1>5, <1>6, <1>7 DEF Next, vars, Procs

-----------------------------------------------------------------------------
(***************************************************************************)
(* The ids and volumes that the services go by, whatever the exchange      *)
(* does. A Trade on the watch list or in hand names an order that was on   *)
(* the books, and those among the failed orders are as the bot sent them.  *)
(***************************************************************************)
Sound(t) == t.oid \in Ids => Placed(t.oid) /\ (Poloniex => KeepsVolume(t))
AsSent(t) == t.oid = NoId /\ t.vol = Volume
Searching(p) == pc[p] \in {"open", "history", "market", "post"}

SoundInv ==
  /\ \A t \in Entries(watch) : Sound(t)
  /\ \A t \in Entries(failed) : AsSent(t)
  /\ \A p \in Procs : Sound(hand[p])
  /\ \A p \in FailedWorkers : Searching(p) => AsSent(hand[p])
  /\ forgotten \subseteq ClosedOrders

LEMMA EntriesAreTrades ==
  ASSUME NEW s \in Seq(Trade), NEW t \in Entries(s)
  PROVE  t \in Trade
BY ElementOfSeq, LenProperties DEF Entries

\* A Trade that is sound stays so, as its order can only be filled or closed.
LEMMA SoundStays ==
  ASSUME ExchangeType, ExchangeType', Onward, NEW t \in Trade \cup {NoTrade}, Sound(t)
  PROVE  Sound(t)'
<1>1. CASE t.oid \in Ids
  <2>1. /\ t.vol \in Int
        /\ exch[t.oid].vol \in Int /\ exch[t.oid].done \in Int /\ exch'[t.oid].done \in Int
    BY <1>1 DEF Trade, NoTrade, ExchangeType
  <2>2. /\ Placed(t.oid)' /\ (Live(t.oid)' => Live(t.oid))
        /\ exch'[t.oid].vol = exch[t.oid].vol
        /\ exch'[t.oid].done >= exch[t.oid].done
    BY <1>1 DEF Sound, Onward
  <2>3. KeepsVolume(t) => KeepsVolume(t)'
    BY <1>1, <2>1, <2>2 DEF KeepsVolume, OpenOrders
  <2> QED
    BY <1>1, <2>2, <2>3 DEF Sound
<1>2. CASE t.oid \notin Ids
  BY <1>2 DEF Sound
<1> QED
  BY <1>1, <1>2

\* What is dropped as filled stays closed.
LEMMA ForgottenStays ==
  ASSUME Onward, forgotten \subseteq ClosedOrders, UNCHANGED forgotten
  PROVE  forgotten' \subseteq ClosedOrders'
BY DEF Onward, ClosedOrders, Placed, Live

\* A step that does nothing to the Trades but in the process that takes it, and
\* to the queues but put that process' Trade there.
LEMMA SoundMove ==
  ASSUME TypeInv, TypeInv', Onward, SoundInv, NEW p \in Procs,
         Entries(watch') \subseteq Entries(watch) \cup {hand[p]},
         \A t \in Entries(failed') : t \in Entries(failed) \/ AsSent(t),
         \A q \in Procs \ {p} : pc'[q] = pc[q] /\ hand'[q] = hand[q],
         \/ hand'[p] \in Entries(watch) \cup {hand[p], NoTrade}
         \/ Sound(hand[p])',
         p \in FailedWorkers /\ Searching(p)' => AsSent(hand[p])',
         forgotten' \subseteq ClosedOrders'
  PROVE  SoundInv'
<1>1. ExchangeType /\ ExchangeType' /\ watch \in Seq(Trade)
  BY DEF TypeInv, TypeOK, QueuesType
<1>2. \A q \in Procs : hand[q] \in Trade \cup {NoTrade}
  BY DEF TypeInv, TypeOK, ServiceType
<1>3. \A t \in Entries(watch') : Sound(t)'
  <2> SUFFICES ASSUME NEW t \in Entries(watch')
               PROVE  Sound(t)'
    OBVIOUS
  <2>1. t \in Trade \cup {NoTrade} /\ Sound(t)
    BY <1>1, <1>2, EntriesAreTrades DEF SoundInv
  <2> QED
    BY <1>1, <2>1, SoundStays
<1>4. \A q \in Procs : Sound(hand[q])'
  <2> SUFFICES ASSUME NEW q \in Procs, ~ Sound(hand[q])'
               PROVE  FALSE
    OBVIOUS
  <2>1. hand'[q] \in Entries(watch) \cup {hand[q], NoTrade}
    OBVIOUS
  <2>2. PICK t \in Trade \cup {NoTrade} : hand'[q] = t /\ Sound(t)
    <3>1. Sound(NoTrade)
      BY DEF Sound, NoTrade
    <3> QED
      BY <1>1, <1>2, <2>1, <3>1, EntriesAreTrades DEF SoundInv
  <2>3. Sound(t)'
    BY <1>1, <2>2, SoundStays
  <2> QED
    BY <2>2, <2>3 DEF Sound, Placed, KeepsVolume, OpenOrders, Live
<1>5. \A t \in Entries(failed') : AsSent(t)
  BY DEF SoundInv
<1>6. \A q \in FailedWorkers : Searching(q)' => AsSent(hand[q])'
  BY DEF SoundInv, Searching, Procs
<1> QED
  BY <1>3, <1>4, <1>5, <1>6 DEF SoundInv, AsSent

\* What the services share: the placement at market rate.
LEMMA PlacementSound ==
  ASSUME TypeInv, TypeInv', Onward, SoundInv, NEW p \in Procs,
         Market(p) \/ Post(p) \/ Save(p) \/ Watch(p)
  PROVE  SoundInv'
<1>1. TypeOK /\ ServiceType /\ hand[p] \in Trade
  BY DEF TypeInv, TypeOK, ServiceType, Market, Post, Save, Watch
<1>2. \A q \in Procs \ {p} : pc'[q] = pc[q] /\ hand'[q] = hand[q]
  BY <1>1, OnlyOwnState DEF Market, Post, Save, Watch
<1>3. forgotten' \subseteq ClosedOrders'
  BY ForgottenStays DEF Market, Post, Save, Watch, SoundInv, history
<1>4. p \in FailedWorkers /\ Searching(p) => AsSent(hand[p])
  BY DEF SoundInv
<1>5. CASE Market(p)
  <2>1. /\ hand'[p] \in {hand[p], NoTrade}
        /\ Searching(p)' => hand'[p] = hand[p]
    BY <1>1, <1>5 DEF Market, Release, Die, Goto, ServiceType, Searching
  <2>2. Searching(p)
    BY <1>5 DEF Market, Searching
  <2>3. /\ Entries(watch') \subseteq Entries(watch) \cup {hand[p]}
        /\ \A t \in Entries(failed') : t \in Entries(failed) \/ AsSent(t)
    <3>1. CASE UNCHANGED queues
      BY <3>1 DEF queues
    <3>2. CASE Requeue(p)
      BY <1>1, <1>4, <2>2, <3>2, RequeueKeeps DEF Procs
    <3> QED
      BY <1>5, <3>1, <3>2 DEF Market
  <2>4. p \in FailedWorkers /\ Searching(p)' => AsSent(hand[p])'
    BY <1>4, <2>1, <2>2 DEF AsSent
  <2> QED
    BY <1>2, <1>3, <2>1, <2>3, <2>4, SoundMove
<1>6. CASE Post(p)
  <2>1. \/ hand'[p] = NoTrade \/ Sound(hand[p])'
    <3>1. CASE Release(p) \/ Die(p)
      BY <1>1, <3>1 DEF Release, Die, ServiceType
    <3>2. ASSUME NEW v, NEW id \in FreeIds, Accept(id, hand[p].order, v, "open"),
                 Put(p, [hand[p] EXCEPT !.oid = id, !.vol = v], "save"),
                 v \in Affordable(hand[p].vol)
          PROVE  Sound(hand[p])'
      <4>1. hand'[p].oid = id /\ hand'[p].vol = v /\ v \in Int
        BY <1>1, <3>2 DEF Put, ServiceType, Trade, Affordable
      <4>2. exch'[id].st = "open" /\ exch'[id].vol = v /\ exch'[id].done = 0
        BY <1>1, <3>2 DEF Accept, FreeIds, TypeOK, ExchangeType
      <4> QED
        BY <4>1, <4>2 DEF Sound, Placed, KeepsVolume
    <3>3. ASSUME NEW v, Put(p, [hand[p] EXCEPT !.oid = NoId, !.vol = v], "save")
          PROVE  Sound(hand[p])'
      <4>1. hand'[p].oid = NoId
        BY <1>1, <3>3 DEF Put, ServiceType, Trade
      <4> QED
        BY <4>1 DEF Sound
    <3> QED
      BY <1>6, <3>1, <3>2, <3>3 DEF Post
  <2>2. ~ Searching(p)' /\ UNCHANGED <<watch, failed>>
    BY <1>1, <1>6 DEF Post, Release, Die, Put, Goto, ServiceType, Searching, queues
  <2> QED
    BY <1>2, <1>3, <2>1, <2>2, SoundMove
<1>7. CASE Save(p)
  <2>1. ~ Searching(p)' /\ UNCHANGED <<watch, failed, hand>>
    BY <1>1, <1>7 DEF Save, Goto, ServiceType, Searching
  <2> QED
    BY <1>2, <1>3, <2>1, SoundMove
<1>8. CASE Watch(p)
  <2>1. ~ Searching(p)' /\ failed' = failed /\ hand'[p] = NoTrade
    BY <1>1, <1>8 DEF Watch, Release, Goto, ServiceType, Searching
  <2>2. Entries(watch') \subseteq Entries(watch) \cup {hand[p]}
    BY <1>1, <1>8, WatchKeeps DEF Watch, TypeOK, QueuesType
  <2> QED
    BY <1>2, <1>3, <2>1, <2>2, SoundMove
<1> QED
  BY <1>5, <1>6, <1>7, <1>8

LEMMA ExpiredStepSound ==
  ASSUME TypeInv, TypeInv', Onward, SoundInv, NEW p \in ExpiredWorkers, ExpiredStep(p)
  PROVE  SoundInv'
<1>1. /\ TypeOK /\ ExchangeType /\ ServiceType /\ watch \in Seq(Trade)
      /\ p \in Procs /\ p \notin FailedWorkers
      /\ pc[p] \notin {"poll", "dead"} => hand[p] \in Trade
  BY DEF TypeInv, TypeOK, QueuesType, ServiceType, Procs
<1>2. CASE First(p)
  <2>1. UNCHANGED <<watch, failed>> /\ hand'[p] = Head(watch) /\ watch # <<>>
    BY <1>1, <1>2 DEF First, Put, ServiceType, queues
  <2>2. hand'[p] \in Entries(watch)
    BY <1>1, <2>1, PopKeeps
  <2>3. \A q \in Procs \ {p} : pc'[q] = pc[q] /\ hand'[q] = hand[q]
    BY <1>1, <1>2, OnlyOwnState DEF First
  <2>4. forgotten' \subseteq ClosedOrders'
    BY <1>2, ForgottenStays DEF First, SoundInv, history
  <2> QED
    BY <1>1, <2>1, <2>2, <2>3, <2>4, SoundMove
<1>3. CASE Claim(p)
  <2>1. /\ UNCHANGED failed /\ hand'[p] \in {hand[p], NoTrade}
        /\ Entries(watch') \subseteq Entries(watch)
    BY <1>1, <1>3, RemoveAtKeeps DEF Claim, Release, ServiceType, queues
  <2>2. \A q \in Procs \ {p} : pc'[q] = pc[q] /\ hand'[q] = hand[q]
    BY <1>1, <1>3, OnlyOwnState DEF Claim
  <2>3. forgotten' \subseteq ClosedOrders'
    BY <1>3, ForgottenStays DEF Claim, SoundInv, history
  <2> QED
    BY <1>1, <2>1, <2>2, <2>3, SoundMove
<1>4. CASE Query(p)
  <2>1. hand[p] \in Trade /\ UNCHANGED exch
    BY <1>1, <1>4 DEF Query
  <2>2. /\ Entries(watch') \subseteq Entries(watch) \cup {hand[p]}
        /\ UNCHANGED failed
    BY <1>1, <1>4, <2>1, RequeueKeeps DEF Query, queues
  <2>3. \A q \in Procs \ {p} : pc'[q] = pc[q] /\ hand'[q] = hand[q]
    BY <1>1, <1>4, OnlyOwnState DEF Query
  <2>4. hand'[p] = NoTrade \/ Sound(hand[p])'
    <3>1. CASE Release(p)
      BY <1>1, <3>1 DEF Release, ServiceType
    <3>2. CASE Put(p, [hand[p] EXCEPT !.vol = VolumeLeft(hand[p])], "cancel")
      <4>1. hand'[p].oid = hand[p].oid /\ hand'[p].vol = VolumeLeft(hand[p])
        BY <1>1, <2>1, <3>2 DEF Put, ServiceType, Trade
      <4>2. Sound(hand[p])
        BY <1>1 DEF SoundInv
      <4>3. ASSUME Poloniex, hand[p].oid \in OpenOrders
            PROVE  hand'[p].vol >= exch[hand[p].oid].vol - exch[hand[p].oid].done
        <5>1. hand'[p].vol = exch[hand[p].oid].vol
          BY <4>1, <4>3 DEF VolumeLeft
        <5>2. exch[hand[p].oid].vol \in Nat /\ exch[hand[p].oid].done \in Nat
          BY <1>1, <4>3 DEF ExchangeType, OpenOrders
        <5> QED
          BY <5>1, <5>2
      <4> QED
        BY <2>1, <4>1, <4>2, <4>3 DEF Sound, Placed, KeepsVolume, OpenOrders, Live
    <3> QED
      BY <1>4, <3>1, <3>2 DEF Query
  <2>5. forgotten' \subseteq ClosedOrders'
    <3>1. CASE UNCHANGED forgotten
      BY <3>1, ForgottenStays DEF SoundInv
    <3>2. CASE OpenOrders = {} /\ forgotten' = forgotten \cup ({hand[p].oid} \ {NoId})
      <4>1. hand[p].oid \in Ids => hand[p].oid \in ClosedOrders
        BY <1>1, <3>2 DEF SoundInv, Sound, Placed, OpenOrders, ClosedOrders, Live
      <4>2. hand[p].oid \in Ids \cup {NoId} /\ ClosedOrders' = ClosedOrders
        BY <2>1 DEF Trade, ClosedOrders
      <4> QED
        BY <3>2, <4>1, <4>2 DEF SoundInv
    <3> QED
      BY <1>4, <3>1, <3>2 DEF Query
  <2> QED
    BY <1>1, <2>2, <2>3, <2>4, <2>5, SoundMove
<1>5. CASE Cancel(p)
  <2>1. hand[p] \in Trade
    BY <1>1, <1>5 DEF Cancel
  <2>2. /\ Entries(watch') \subseteq Entries(watch) \cup {hand[p]}
        /\ UNCHANGED failed /\ hand'[p] \in {hand[p], NoTrade}
    BY <1>1, <1>5, <2>1, RequeueKeeps DEF Cancel, Release, ServiceType, queues
  <2>3. \A q \in Procs \ {p} : pc'[q] = pc[q] /\ hand'[q] = hand[q]
    BY <1>1, <1>5, OnlyOwnState DEF Cancel
  <2>4. forgotten' \subseteq ClosedOrders'
    BY <1>5, ForgottenStays DEF Cancel, SoundInv, history
  <2> QED
    BY <1>1, <2>2, <2>3, <2>4, SoundMove
<1> QED
  BY <1>1, <1>2, <1>3, <1>4, <1>5, PlacementSound DEF ExpiredStep

LEMMA FailedStepSound ==
  ASSUME TypeInv, TypeInv', Onward, SoundInv, NEW p \in FailedWorkers, FailedStep(p)
  PROVE  SoundInv'
<1>1. /\ TypeOK /\ ExchangeType /\ ServiceType /\ failed \in Seq(Trade) /\ p \in Procs
      /\ pc[p] \notin {"poll", "dead"} => hand[p] \in Trade
  BY DEF TypeInv, TypeOK, QueuesType, ServiceType, Procs
<1>2. CASE Pop(p)
  <2>1. /\ hand'[p] = Head(failed) /\ failed # <<>> /\ failed' = Tail(failed)
        /\ UNCHANGED watch
    BY <1>1, <1>2 DEF Pop, Put, ServiceType
  <2>2. /\ AsSent(hand[p])'
        /\ \A t \in Entries(failed') : t \in Entries(failed)
    BY <1>1, <2>1, PopKeeps DEF SoundInv, AsSent
  <2>3. Sound(hand[p])'
    BY <2>2 DEF AsSent, Sound
  <2>4. \A q \in Procs \ {p} : pc'[q] = pc[q] /\ hand'[q] = hand[q]
    BY <1>1, <1>2, OnlyOwnState DEF Pop
  <2>5. forgotten' \subseteq ClosedOrders'
    BY <1>2, ForgottenStays DEF Pop, SoundInv, history
  <2> QED
    BY <1>1, <2>1, <2>2, <2>3, <2>4, <2>5, SoundMove
<1>3. CASE SearchOpen(p)
  <2>1. AsSent(hand[p]) /\ hand[p] \in Trade
    BY <1>1, <1>3 DEF SoundInv, SearchOpen, Searching
  <2>2. \/ Goto(p, "history") /\ hand'[p] = hand[p]
        \/ \E id \in OpenOrders : Put(p, [hand[p] EXCEPT !.oid = id], "watch")
    BY <1>3 DEF SearchOpen
  <2>3. hand'[p] = hand[p] \/ Sound(hand[p])'
    <3>1. ASSUME NEW id \in OpenOrders, Put(p, [hand[p] EXCEPT !.oid = id], "watch")
          PROVE  Sound(hand[p])'
      <4>1. hand'[p].oid = id /\ hand'[p].vol = Volume
        BY <1>1, <2>1, <3>1 DEF Put, ServiceType, Trade, AsSent
      <4>2. exch'[id] = exch[id] /\ exch[id].vol \in 0 .. Volume /\ exch[id].done \in Nat
        BY <1>1, <1>3 DEF SearchOpen, ExchangeType, OpenOrders
      <4> QED
        BY <4>1, <4>2 DEF Sound, Placed, KeepsVolume, OpenOrders, Live
    <3> QED
      BY <2>2, <3>1
  <2>4. Searching(p)' => hand'[p] = hand[p]
    BY <1>1, <2>2 DEF Put, Goto, ServiceType, Searching
  <2>5. \A q \in Procs \ {p} : pc'[q] = pc[q] /\ hand'[q] = hand[q]
    BY <1>1, <1>3, OnlyOwnState DEF SearchOpen
  <2>6. forgotten' \subseteq ClosedOrders' /\ UNCHANGED <<watch, failed>>
    BY <1>3, ForgottenStays DEF SearchOpen, SoundInv, history, queues
  <2> QED
    BY <1>1, <2>1, <2>3, <2>4, <2>5, <2>6, SoundMove DEF AsSent
<1>4. CASE SearchHistory(p)
  <2>1. AsSent(hand[p]) /\ hand[p] \in Trade
    BY <1>1, <1>4 DEF SoundInv, SearchHistory, Searching
  <2>2. hand'[p] \in {hand[p], NoTrade} /\ (Searching(p)' => hand'[p] = hand[p])
    BY <1>1, <1>4 DEF SearchHistory, Release, Goto, ServiceType, Searching
  <2>3. \A q \in Procs \ {p} : pc'[q] = pc[q] /\ hand'[q] = hand[q]
    BY <1>1, <1>4, OnlyOwnState DEF SearchHistory
  <2>4. forgotten' \subseteq ClosedOrders' /\ UNCHANGED <<watch, failed>>
    BY <1>4, ForgottenStays DEF SearchHistory, SoundInv, history, queues
  <2> QED
    BY <1>1, <2>1, <2>2, <2>3, <2>4, SoundMove DEF AsSent
<1> QED
  BY <1>1, <1>2, <1>3, <1>4, PlacementSound DEF FailedStep

LEMMA FaultSound ==
  ASSUME TypeInv, TypeInv', Onward, SoundInv, NEW p \in Procs, Crash(p) \/ Restart(p)
  PROVE  SoundInv'
<1>1. ServiceType /\ UNCHANGED <<watch, failed>>
  BY DEF TypeInv, TypeOK, Crash, Restart, queues
<1>2. hand'[p] \in {hand[p], NoTrade} /\ ~ Searching(p)'
  BY <1>1 DEF Crash, Restart, Die, Goto, ServiceType, Searching
<1>3. \A q \in Procs \ {p} : pc'[q] = pc[q] /\ hand'[q] = hand[q]
  BY <1>1, OnlyOwnState DEF Crash, Restart
<1>4. forgotten' \subseteq ClosedOrders'
  BY ForgottenStays DEF Crash, Restart, SoundInv, history
<1> QED
  BY <1>1, <1>2, <1>3, <1>4, SoundMove

\* A step that leaves the services alone, and adds at most a leg to the failed orders.
LEMMA SoundElsewhere ==
  ASSUME TypeInv, TypeInv', Onward, SoundInv, UNCHANGED <<watch, service, forgotten>>,
         \A t \in Entries(failed') : t \in Entries(failed) \/ AsSent(t)
  PROVE  SoundInv'
<1>1. ExchangeType /\ ExchangeType' /\ watch \in Seq(Trade)
  BY DEF TypeInv, TypeOK, QueuesType
<1>2. \A q \in Procs : hand[q] \in Trade \cup {NoTrade}
  BY DEF TypeInv, TypeOK, ServiceType
<1>3. \A t \in Entries(watch') : Sound(t)'
  BY <1>1, EntriesAreTrades, SoundStays DEF SoundInv
<1>4. \A q \in Procs : Sound(hand[q])'
  <2> SUFFICES ASSUME NEW q \in Procs
               PROVE  Sound(hand[q])'
    OBVIOUS
  <2>1. PICK t \in Trade \cup {NoTrade} : hand[q] = t
    BY <1>2
  <2>2. hand'[q] = t /\ Sound(t)'
    BY <1>1, <2>1, SoundStays DEF SoundInv, service
  <2> QED
    BY <2>2 DEF Sound, Placed, KeepsVolume, OpenOrders, Live
<1>5. forgotten' \subseteq ClosedOrders'
  BY ForgottenStays DEF SoundInv
<1>6. \A q \in FailedWorkers : Searching(q)' => AsSent(hand[q])'
  BY DEF SoundInv, service, Searching, AsSent
<1> QED
  BY <1>3, <1>4, <1>5, <1>6 DEF SoundInv, AsSent

LEMMA StepSound ==
  ASSUME TypeInv, SoundInv, [Next]_vars
  PROVE  SoundInv'
<1>1. TypeInv' /\ Onward
  BY StepType, OnwardStep
<1>2. ASSUME NEW o \in Orders, BotStep(o)
      PROVE  SoundInv'
  <2>1. CASE BotHandOver(o)
    <3> DEFINE t == [order |-> o, oid |-> NoId, vol |-> Volume]
    <3>1. t \in Trade /\ AsSent(t)
      BY DEF Trade, AsSent
    <3>2. failed' = <<t>> \o failed /\ UNCHANGED <<watch, service, forgotten>>
      BY <2>1 DEF BotHandOver, AddFailedOrder, history
    <3> HIDE DEF t
    <3>3. Entries(failed') = Entries(failed) \cup {t}
      BY <3>1, <3>2, PushKeeps DEF TypeInv, TypeOK, QueuesType
    <3> QED
      BY <1>1, <3>1, <3>2, <3>3, SoundElsewhere
  <2>2. CASE BotPost(o) \/ BotRecord(o) \/ BotCrash(o)
    BY <1>1, <2>2, SoundElsewhere DEF BotPost, BotRecord, BotCrash, queues, history
  <2> QED
    BY <1>2, <2>1, <2>2 DEF BotStep
<1>3. ASSUME NEW id \in Ids, Fill(id) \/ Arrive(id)
      PROVE  SoundInv'
  BY <1>1, <1>3, SoundElsewhere DEF Fill, Arrive, Internal, queues, history
<1>4. CASE UNCHANGED vars
  BY <1>1, <1>4, SoundElsewhere DEF vars, service
<1> QED
  BY <1>1, <1>2, <1>3, <1>4, ExpiredStepSound, FailedStepSound, FaultSound DEF Next

LEMMA AlwaysSound == Safe => [](TypeInv /\ SoundInv)
<1>1. Init => TypeInv /\ SoundInv
  <2> SUFFICES ASSUME Init
               PROVE  SoundInv
    BY InitType
  <2>1. Entries(watch) = {} /\ Entries(failed) = {} /\ forgotten = {}
    BY DEF Init, Entries
  <2>2. \A p \in Procs : hand[p].oid \notin Ids /\ ~ Searching(p)
    BY DEF Init, NoTrade, Searching
  <2> QED
    BY <2>1, <2>2 DEF SoundInv, Sound, Procs
<1>2. TypeInv /\ SoundInv /\ [Next]_vars => (TypeInv /\ SoundInv)'
  BY StepType, StepSound
<1> QED
  BY <1>1, <1>2, PTL DEF Safe

\* Whatever the exchange answers and however late, an order that the service of
\* expired orders drops, as the pair has no open order, never is on the books
\* again (process_expired_order's return on "not open_orders").
THEOREM DroppedStaysGone == Safe => []ForgottenNeverLive
<1>1. SoundInv => ForgottenNeverLive
  BY DEF SoundInv, ForgottenNeverLive, ClosedOrders, OpenOrders, Live
<1> QED
  BY <1>1, AlwaysSound, PTL

\* At Poloniex the Trades on the watch list ask for no less than what their orders
\* still have on the books, whatever the exchange does and however often an
\* order is put back (executed_volume_updated).
THEOREM PoloniexKeepsVolume == Safe => []PoloniexVolumeKept
<1>1. SoundInv => PoloniexVolumeKept
  <2> SUFFICES ASSUME SoundInv, Poloniex, NEW i \in DOMAIN watch
               PROVE  KeepsVolume(watch[i])
    BY DEF PoloniexVolumeKept, RemainingVolumeKept
  <2>1. Sound(watch[i])
    BY DEF SoundInv, Entries
  <2> QED
    BY <2>1 DEF Sound, KeepsVolume, OpenOrders
<1> QED
  BY <1>1, AlwaysSound, PTL

-----------------------------------------------------------------------------
(***************************************************************************)
(* Orders that are open, when the exchange reports its errors by HTTP      *)
(* status, drops what has timed out, and no two legs are taken for each    *)
(* other. Nothing of this holds otherwise (UncancelledOrder).              *)
(***************************************************************************)
\* Where an order of the Trade in hand may be: nowhere, once the service has
\* cancelled it or found none, and at the Trade's id before and afterwards.
OnBooks(p) == IF pc[p] \in {"history", "market", "post"} THEN {} ELSE {hand[p].oid}

Prompt ==
  \A id \in Ids :
    /\ exch[id].st # "flight" /\ exch[id].timely
    /\ exch[id].st = "unused" => exch[id].owner = NoOrder
Unplaced == \A o \in Orders : bot[o] = "new" => \A id \in Ids : exch[id].owner # o
WatchKnows == \A t \in Entries(watch) : LiveOf(t.order) \subseteq {t.oid}
HandKnows ==
  \A p \in Procs : Holds(p) /\ pc[p] # "open" => LiveOf(hand[p].order) \subseteq OnBooks(p)

HonestInv ==
  Prompt /\ Unplaced /\ OneLiveOrder /\ WatchKnows /\ HandKnows /\ LiveOrdersTracked

NewOrderOf(o) == \E id \in FreeIds, v \in 1 .. Volume : Accept(id, o, v, "open")

\* No order comes to the books.
Calm ==
  \A id \in Ids : exch'[id].owner = exch[id].owner /\ (Live(id)' => Live(id))

LEMMA HonestCalls ==
  ASSUME Honest, TypeInv, Prompt, [Next]_vars
  PROVE  /\ Prompt'
         /\ \/ Calm
            \/ \E o \in Orders : BotPost(o) /\ NewOrderOf(o)
            \/ \E p \in Procs : Post(p) /\ hand[p] \in Trade /\ NewOrderOf(hand[p].order)
<1>1. ExchangeType /\ Unseen = {"open"}
  BY DEF TypeInv, TypeOK, Honest, Unseen
<1>2. UNCHANGED exch => Calm /\ Prompt'
  BY DEF Calm, Live, Prompt
<1>3. ASSUME NEW o \in Orders, NewOrderOf(o)
      PROVE  Prompt'
  BY <1>1, <1>3 DEF Prompt, NewOrderOf, Accept, FreeIds, ExchangeType
<1>4. ASSUME NEW id \in OpenOrders, CancelAt(id)
      PROVE  Calm /\ Prompt'
  BY <1>1, <1>4 DEF Calm, Live, Prompt, ExchangeType, OpenOrders, CancelAt
<1>5. ASSUME NEW id \in Ids, Fill(id)
      PROVE  Calm /\ Prompt'
  BY <1>1, <1>5 DEF Calm, Live, Prompt, ExchangeType, Fill
<1>6. ASSUME NEW id \in Ids, Arrive(id)
      PROVE  FALSE
  BY <1>6 DEF Prompt, Arrive
<1>7. ASSUME NEW o \in Orders, BotStep(o)
      PROVE  (Calm /\ Prompt') \/ (BotPost(o) /\ NewOrderOf(o))
  <2>1. Volume \in 1 .. Volume
    OBVIOUS
  <2>2. CASE BotPost(o)
    BY <1>1, <1>2, <2>1, <2>2 DEF BotPost, NewOrderOf
  <2>3. CASE ~ BotPost(o)
    BY <1>2, <1>7, <2>3 DEF BotStep, BotHandOver, BotRecord, BotCrash
  <2> QED
    BY <2>2, <2>3
<1>8. ASSUME NEW p \in Procs,
             \/ p \in ExpiredWorkers /\ ExpiredStep(p)
             \/ p \in FailedWorkers /\ FailedStep(p)
             \/ Crash(p) \/ Restart(p)
      PROVE  \/ Calm /\ Prompt'
             \/ Post(p) /\ hand[p] \in Trade /\ NewOrderOf(hand[p].order)
  BY <1>1, <1>2, <1>4, <1>8, CallsOfService DEF NewOrderOf
<1>9. \A p \in Procs : hand[p] \in Trade => hand[p].order \in Orders
  BY DEF Trade
<1> QED
  BY <1>2, <1>3, <1>5, <1>6, <1>7, <1>8, <1>9 DEF Next, vars, Procs

\* A leg's orders on the books do not become more, if none of its is placed.
LEMMA CalmLeg ==
  ASSUME Calm, NEW o
  PROVE  LiveOf(o)' \subseteq LiveOf(o)
BY DEF Calm, LiveOf, OpenOrders

LEMMA NewOrderElsewhere ==
  ASSUME ExchangeType, NEW o, NewOrderOf(o), NEW q, q # o
  PROVE  /\ LiveOf(q)' \subseteq LiveOf(q)
         /\ \A id \in Ids : exch'[id].owner = q => exch[id].owner = q
BY DEF ExchangeType, NewOrderOf, Accept, FreeIds, LiveOf, OpenOrders, Live

\* The new order of a leg that has none on the books.
LEMMA NewOrderAlone ==
  ASSUME ExchangeType, NEW o, NEW id \in FreeIds, NEW v, Accept(id, o, v, "open"),
         LiveOf(o) = {}
  PROVE  LiveOf(o)' \subseteq {id}
BY DEF ExchangeType, Accept, FreeIds, LiveOf, OpenOrders, Live

\* A step of p in which no order comes to the books: each Trade stays where it
\* was, comes to p or a queue, or p lets go of it with its leg off the books.
LEMMA CalmMove ==
  ASSUME TypeInv, HonestInv, Calm, Prompt', UNCHANGED bot, NEW p \in Procs,
         \A q \in Procs \ {p} : pc'[q] = pc[q] /\ hand'[q] = hand[q],
         lost \subseteq lost',
         \A o \in Orders : Queued(o) => Queued(o)' \/ HeldBy(p, o)',
         \A o \in Orders :
           HeldBy(p, o) => HeldBy(p, o)' \/ Queued(o)' \/ o \in lost' \/ LiveOf(o) = {},
         \A t \in Entries(watch') : t \in Entries(watch) \/ LiveOf(t.order) \subseteq {t.oid},
         (Holds(p) /\ pc[p] # "open")' => LiveOf(hand[p].order)' \subseteq OnBooks(p)'
  PROVE  HonestInv'
<1>1. OneLiveOrder'
  BY CalmLeg DEF HonestInv, OneLiveOrder
<1>2. Unplaced'
  BY DEF HonestInv, Unplaced, Calm
<1>3. WatchKnows'
  <2> SUFFICES ASSUME NEW t \in Entries(watch')
               PROVE  LiveOf(t.order)' \subseteq {t.oid}
    BY DEF WatchKnows, Entries, LiveOf, OpenOrders, Live
  <2>1. LiveOf(t.order) \subseteq {t.oid}
    BY DEF HonestInv, WatchKnows
  <2> QED
    BY <2>1, CalmLeg
<1>4. HandKnows'
  <2> SUFFICES ASSUME NEW q \in Procs, q # p, Holds(q)', pc'[q] # "open"
               PROVE  LiveOf(hand[q].order)' \subseteq OnBooks(q)'
    BY DEF HandKnows
  <2>1. PICK t : t = hand[q]
    OBVIOUS
  <2>2. LiveOf(t.order) \subseteq OnBooks(q)
    BY <2>1 DEF HonestInv, HandKnows, Holds
  <2>3. LiveOf(t.order)' \subseteq LiveOf(t.order)
    BY CalmLeg
  <2>4. OnBooks(q)' = OnBooks(q) /\ hand'[q] = t
    BY <2>1 DEF OnBooks
  <2>5. LiveOf(t.order)' \subseteq OnBooks(q)'
    BY <2>2, <2>3, <2>4
  <2> QED
    BY <2>4, <2>5 DEF LiveOf, OpenOrders, Live
<1>5. LiveOrdersTracked'
  <2> SUFFICES ASSUME NEW o \in Orders, bot'[o] = "handed", LiveOf(o)' # {}
               PROVE  Tracked(o)'
    BY DEF LiveOrdersTracked
  <2>1. LiveOf(o) # {}
    BY CalmLeg
  <2>2. Tracked(o)
    BY <2>1 DEF HonestInv, LiveOrdersTracked
  <2>3. \A q \in Procs \ {p} : HeldBy(q, o) => HeldBy(q, o)'
    BY DEF HeldBy, Holds
  <2> QED
    BY <2>1, <2>2, <2>3 DEF Tracked
<1> QED
  BY <1>1, <1>2, <1>3, <1>4, <1>5 DEF HonestInv

\* A Trade that is given to a queue is in it, and what was queued still is.
LEMMA GivenIsQueued ==
  ASSUME TypeInv, OneCustodian, NEW p \in Procs, Holds(p),
         \/ AddOrderToWatchQueue(hand[p]) /\ UNCHANGED failed
         \/ AddFailedOrder(hand[p]) /\ UNCHANGED watch
  PROVE  \A o \in Orders : Queued(o) \/ HeldBy(p, o) => Queued(o)'
<1>1. watch \in Seq(Trade) /\ failed \in Seq(Trade) /\ hand[p] \in Trade
  BY DEF TypeInv, TypeOK, QueuesType, ServiceType, Holds
<1>2. hand[p].order \in Orders /\ HeldBy(p, hand[p].order)
  BY <1>1 DEF HeldBy, Trade
<1>3. ~ InSeq(watch, hand[p].order)
  BY <1>2 DEF OneCustodian, Queued
<1>4. PICK t \in Trade : t = hand[p]
  BY <1>1
<1>5. CASE AddOrderToWatchQueue(hand[p]) /\ UNCHANGED failed
  <2>1. watch' = Append(watch, t)
    BY <1>1, <1>3, <1>4, <1>5, WatchAppends
  <2>2. \A o : InSeq(watch', o) <=> InSeq(watch, o) \/ t.order = o
    BY <1>1, <2>1, AppendOrders
  <2> QED
    BY <1>4, <1>5, <2>2 DEF Queued, HeldBy
<1>6. CASE AddFailedOrder(hand[p]) /\ UNCHANGED watch
  <2>1. failed' = <<t>> \o failed
    BY <1>4, <1>6 DEF AddFailedOrder
  <2>2. \A o : InSeq(failed', o) <=> InSeq(failed, o) \/ t.order = o
    BY <1>1, <2>1, PushOrders
  <2> QED
    BY <1>4, <1>6, <2>2 DEF Queued, HeldBy
<1> QED
  BY <1>5, <1>6

LEMMA RequeueKnows ==
  ASSUME TypeInv, OneCustodian, HonestInv, Calm, Prompt', UNCHANGED bot, lost \subseteq lost',
         NEW p \in Procs, pc[p] \in {"query", "cancel", "market"},
         Requeue(p), Release(p) \/ Die(p)
  PROVE  HonestInv'
<1>1. /\ TypeOK /\ ServiceType /\ Holds(p) /\ hand[p] \in Trade
  BY DEF TypeInv, TypeOK, ServiceType, Holds
<1>2. \A q \in Procs \ {p} : pc'[q] = pc[q] /\ hand'[q] = hand[q]
  BY <1>1, OnlyOwnState
<1>3. ~ Holds(p)'
  BY <1>1, LetGo
<1>4. \/ AddOrderToWatchQueue(hand[p]) /\ UNCHANGED failed
      \/ AddFailedOrder(hand[p]) /\ UNCHANGED watch
  BY DEF Requeue
<1>5. \A o \in Orders : Queued(o) \/ HeldBy(p, o) => Queued(o)'
  BY <1>1, <1>4, GivenIsQueued
<1>6. LiveOf(hand[p].order) \subseteq {hand[p].oid}
  BY <1>1 DEF HonestInv, HandKnows, OnBooks
<1>7. \A t \in Entries(watch') : t \in Entries(watch) \/ LiveOf(t.order) \subseteq {t.oid}
  BY <1>1, <1>6, RequeueKeeps
<1> QED
  BY <1>2, <1>3, <1>5, <1>7, CalmMove

\* A step in which a process changes nothing but what it does and has in hand.
LEMMA OwnKnows ==
  ASSUME TypeInv, HonestInv, Calm, Prompt', UNCHANGED <<bot, watch, failed>>,
         lost \subseteq lost', NEW p \in Procs,
         \A q \in Procs \ {p} : pc'[q] = pc[q] /\ hand'[q] = hand[q],
         \A o \in Orders :
           HeldBy(p, o) => HeldBy(p, o)' \/ o \in lost' \/ LiveOf(o) = {},
         (Holds(p) /\ pc[p] # "open")' => LiveOf(hand[p].order)' \subseteq OnBooks(p)'
  PROVE  HonestInv'
<1>1. \A o \in Orders : Queued(o) => Queued(o)'
  BY DEF Queued
<1>2. \A t \in Entries(watch') : t \in Entries(watch)
  OBVIOUS
<1> QED
  BY <1>1, <1>2, CalmMove

LEMMA PlacementKnows ==
  ASSUME TypeInv, OneCustodian, HonestInv, Calm, Prompt', NEW p \in Procs,
         Market(p) \/ Save(p) \/ Watch(p)
  PROVE  HonestInv'
<1>1. /\ TypeOK /\ ServiceType /\ hand[p] \in Trade /\ Holds(p) /\ pc[p] # "open"
      /\ UNCHANGED <<bot, lost>>
  BY DEF TypeInv, TypeOK, ServiceType, Holds, Market, Save, Watch, history
<1>2. \A q \in Procs \ {p} : pc'[q] = pc[q] /\ hand'[q] = hand[q]
  BY <1>1, OnlyOwnState DEF Market, Save, Watch
<1>3. LiveOf(hand[p].order) \subseteq OnBooks(p)
  BY <1>1 DEF HonestInv, HandKnows
<1>4. PICK t : t = hand[p]
  OBVIOUS
<1>5. LiveOf(t.order)' \subseteq LiveOf(t.order)
  BY CalmLeg
<1>6. CASE Save(p) \/ (Market(p) /\ Goto(p, "post") /\ UNCHANGED <<queues, hand>>)
  <2>1. UNCHANGED <<watch, failed, hand>> /\ OnBooks(p)' = OnBooks(p)
    BY <1>1, <1>6 DEF Market, Save, Goto, queues, OnBooks, ServiceType
  <2>2. Holds(p)'
    BY <1>1, <1>6 DEF Market, Save, Goto, Holds, ServiceType
  <2>3. LiveOf(t.order)' \subseteq OnBooks(p)' /\ hand'[p] = t
    BY <1>3, <1>4, <1>5, <2>1
  <2>4. LiveOf(hand[p].order)' \subseteq OnBooks(p)'
    BY <2>3 DEF LiveOf, OpenOrders, Live
  <2>5. \A o \in Orders : HeldBy(p, o) => HeldBy(p, o)'
    BY <2>1, <2>2 DEF HeldBy
  <2> QED
    BY <1>1, <1>2, <2>1, <2>4, <2>5, OwnKnows
<1>7. CASE Market(p) /\ Requeue(p) /\ (Release(p) \/ Die(p))
  BY <1>1, <1>7, RequeueKnows DEF Market
<1>8. CASE Watch(p)
  <2>1. ~ Holds(p)'
    BY <1>1, <1>8, LetGo DEF Watch
  <2>2. \A o \in Orders : Queued(o) \/ HeldBy(p, o) => Queued(o)'
    BY <1>1, <1>8, GivenIsQueued DEF Watch
  <2>3. \A u \in Entries(watch') : u \in Entries(watch) \/ LiveOf(u.order) \subseteq {u.oid}
    <3>1. LiveOf(hand[p].order) \subseteq {hand[p].oid}
      BY <1>3 DEF OnBooks
    <3> QED
      BY <1>1, <1>8, <3>1, WatchKeeps DEF Watch, TypeOK, QueuesType
  <2> QED
    BY <1>1, <1>2, <2>1, <2>2, <2>3, CalmMove
<1> QED
  BY <1>6, <1>7, <1>8 DEF Market

LEMMA ExpiredStepKnows ==
  ASSUME Honest, TypeInv, OneCustodian, HonestInv, Calm, Prompt',
         NEW p \in ExpiredWorkers, First(p) \/ Claim(p) \/ Query(p) \/ Cancel(p)
  PROVE  HonestInv'
<1>1. /\ TypeOK /\ ServiceType /\ p \in Procs /\ watch \in Seq(Trade) /\ UNCHANGED <<bot, lost>>
      /\ pc[p] \notin {"poll", "dead"} => hand[p] \in Trade
  BY DEF TypeInv, TypeOK, QueuesType, ServiceType, Procs, First, Claim, Query, Cancel, history
<1>2. PICK t : t = hand[p]
  OBVIOUS
<1>3. LiveOf(t.order)' \subseteq LiveOf(t.order)
  BY CalmLeg
<1>4. CASE First(p)
  <2>1. \A q \in Procs \ {p} : pc'[q] = pc[q] /\ hand'[q] = hand[q]
    BY <1>1, <1>4, OnlyOwnState DEF First
  <2>2. ~ Holds(p) /\ ~ Holds(p)' /\ UNCHANGED <<watch, failed>>
    BY <1>1, <1>4 DEF First, Put, Goto, Holds, ServiceType, queues
  <2> QED
    BY <1>1, <2>1, <2>2, OwnKnows DEF HeldBy
<1>5. CASE Claim(p)
  <2>1. \A q \in Procs \ {p} : pc'[q] = pc[q] /\ hand'[q] = hand[q]
    BY <1>1, <1>5, OnlyOwnState DEF Claim
  <2>2. ~ Holds(p) /\ t \in Trade
    BY <1>1, <1>2, <1>5 DEF Claim, Holds
  <2>3. CASE Release(p) /\ UNCHANGED queues
    BY <1>1, <2>1, <2>2, <2>3, LetGo, OwnKnows DEF HeldBy, queues
  <2>4. ASSUME NEW i \in DOMAIN watch, watch[i] = t, watch' = RemoveAt(watch, i),
               Goto(p, "query"), UNCHANGED <<hand, failed>>
        PROVE  HonestInv'
    <3>1. Holds(p)' /\ pc'[p] = "query" /\ hand'[p] = t
      BY <1>1, <1>2, <2>4 DEF Goto, Holds, ServiceType
    <3>2. \A o \in Orders : Queued(o) => Queued(o)' \/ HeldBy(p, o)'
      BY <1>1, <2>4, <3>1, RemoveAtLeaves DEF Queued, HeldBy
    <3>3. \A u \in Entries(watch') : u \in Entries(watch)
      BY <1>1, <2>4, RemoveAtKeeps
    <3>4. LiveOf(t.order)' \subseteq {t.oid}
      BY <1>3, <2>4 DEF HonestInv, WatchKnows, Entries
    <3>5. LiveOf(hand[p].order)' \subseteq OnBooks(p)'
      BY <3>1, <3>4 DEF OnBooks, LiveOf, OpenOrders, Live
    <3> QED
      BY <1>1, <2>1, <2>2, <3>2, <3>3, <3>5, CalmMove DEF HeldBy
  <2> QED
    BY <1>2, <1>5, <2>3, <2>4 DEF Claim
<1>6. CASE Query(p)
  <2>1. \A q \in Procs \ {p} : pc'[q] = pc[q] /\ hand'[q] = hand[q]
    BY <1>1, <1>6, OnlyOwnState DEF Query
  <2>2. t \in Trade /\ Holds(p) /\ LiveOf(t.order) \subseteq {t.oid}
    BY <1>1, <1>2, <1>6 DEF Query, Holds, HonestInv, HandKnows, OnBooks
  <2>3. CASE Requeue(p) /\ Release(p)
    BY <1>1, <1>6, <2>3, RequeueKnows DEF Query
  <2>4. CASE OpenOrders = {} /\ Release(p) /\ UNCHANGED queues
    <3>1. \A o \in Orders : LiveOf(o) = {}
      BY <2>4 DEF LiveOf
    <3>2. ~ Holds(p)'
      BY <1>1, <2>4, LetGo
    <3> QED
      BY <1>1, <2>1, <2>4, <3>1, <3>2, OwnKnows DEF queues
  <2>5. CASE Put(p, [hand[p] EXCEPT !.vol = VolumeLeft(hand[p])], "cancel") /\ UNCHANGED queues
    <3>1. hand'[p].order = t.order /\ hand'[p].oid = t.oid /\ pc'[p] = "cancel"
      BY <1>1, <1>2, <2>2, <2>5 DEF Put, Goto, ServiceType, Trade
    <3>2. LiveOf(hand[p].order)' \subseteq OnBooks(p)'
      BY <1>3, <2>2, <3>1 DEF OnBooks, LiveOf, OpenOrders, Live
    <3>3. \A o \in Orders : HeldBy(p, o) => HeldBy(p, o)'
      BY <1>2, <3>1 DEF HeldBy, Holds
    <3> QED
      BY <1>1, <2>1, <2>5, <3>2, <3>3, OwnKnows DEF queues
  <2> QED
    BY <1>6, <2>3, <2>4, <2>5 DEF Query
<1>7. CASE Cancel(p)
  <2>1. \A q \in Procs \ {p} : pc'[q] = pc[q] /\ hand'[q] = hand[q]
    BY <1>1, <1>7, OnlyOwnState DEF Cancel
  <2>2. t \in Trade /\ Holds(p) /\ LiveOf(t.order) \subseteq {t.oid}
    BY <1>1, <1>2, <1>7 DEF Cancel, Holds, HonestInv, HandKnows, OnBooks
  <2>3. CASE Requeue(p) /\ Release(p)
    BY <1>1, <1>7, <2>3, RequeueKnows DEF Cancel
  <2>4. CASE Goto(p, "market") /\ CancelAt(t.oid) /\ t.oid \in OpenOrders /\ UNCHANGED <<queues, hand>>
    <3>1. t.oid \notin LiveOf(t.order)'
      BY <1>1, <2>4 DEF CancelAt, LiveOf, OpenOrders, Live, TypeOK, ExchangeType
    <3>2. LiveOf(t.order)' = {}
      BY <1>3, <2>2, <3>1
    <3>3. hand'[p] = t /\ pc'[p] = "market"
      BY <1>1, <1>2, <2>4 DEF Goto, ServiceType
    <3>4. LiveOf(hand[p].order)' \subseteq OnBooks(p)'
      BY <3>2, <3>3 DEF OnBooks, LiveOf, OpenOrders, Live
    <3>5. \A o \in Orders : HeldBy(p, o) => HeldBy(p, o)'
      BY <1>2, <3>3 DEF HeldBy, Holds
    <3> QED
      BY <1>1, <2>1, <2>4, <3>4, <3>5, OwnKnows DEF queues
  <2> QED
    BY <1>2, <1>7, <2>3, <2>4 DEF Cancel, Honest
<1> QED
  BY <1>4, <1>5, <1>6, <1>7

\* Without a look-alike, the search in the open orders finds the leg's own.
LEMMA SearchFindsOwn ==
  ASSUME Honest, ExchangeType, Prompt, NEW o \in Orders
  PROVE  {id \in OpenOrders : Matches(o, id)} = LiveOf(o)
<1>1. \A q : <<o, q>> \in Lookalike => q = o
  BY DEF Honest
<1> QED
  BY <1>1 DEF Prompt, Matches, LiveOf, OpenOrders

LEMMA FailedStepKnows ==
  ASSUME Honest, TypeInv, OneCustodian, HonestInv, Calm, Prompt',
         NEW p \in FailedWorkers, Pop(p) \/ SearchOpen(p) \/ SearchHistory(p)
  PROVE  HonestInv'
<1>1. /\ TypeOK /\ ServiceType /\ p \in Procs /\ failed \in Seq(Trade) /\ UNCHANGED <<bot, lost>>
      /\ pc[p] \notin {"poll", "dead"} => hand[p] \in Trade
  BY DEF TypeInv, TypeOK, QueuesType, ServiceType, Procs, Pop, SearchOpen, SearchHistory, history
<1>2. PICK t : t = hand[p]
  OBVIOUS
<1>3. LiveOf(t.order)' \subseteq LiveOf(t.order)
  BY CalmLeg
<1>4. CASE Pop(p)
  <2>1. \A q \in Procs \ {p} : pc'[q] = pc[q] /\ hand'[q] = hand[q]
    BY <1>1, <1>4, OnlyOwnState DEF Pop
  <2>2. /\ ~ Holds(p) /\ Holds(p)' /\ pc'[p] = "open" /\ hand'[p] = Head(failed)
        /\ failed # <<>> /\ failed' = Tail(failed) /\ UNCHANGED watch
    BY <1>1, <1>4 DEF Pop, Put, Goto, Holds, ServiceType
  <2>3. \A o \in Orders : Queued(o) => Queued(o)' \/ HeldBy(p, o)'
    BY <1>1, <2>2, TailLeaves DEF Queued, HeldBy
  <2>4. \A u \in Entries(watch') : u \in Entries(watch)
    BY <2>2
  <2> QED
    BY <1>1, <2>1, <2>2, <2>3, <2>4, CalmMove DEF HeldBy
<1>5. CASE SearchOpen(p)
  <2>1. \A q \in Procs \ {p} : pc'[q] = pc[q] /\ hand'[q] = hand[q]
    BY <1>1, <1>5, OnlyOwnState DEF SearchOpen
  <2>2. t \in Trade /\ t.order \in Orders /\ Holds(p) /\ UNCHANGED <<watch, failed>>
    BY <1>1, <1>2, <1>5 DEF SearchOpen, Holds, Trade, queues
  <2>3. \/ LiveOf(t.order) = {} /\ Goto(p, "history") /\ UNCHANGED hand
        \/ \E id \in LiveOf(t.order) : Put(p, [t EXCEPT !.oid = id], "watch")
    BY <1>1, <1>2, <1>5, <2>2, SearchFindsOwn DEF SearchOpen, TypeOK, HonestInv
  <2>4. /\ hand'[p].order = t.order /\ Holds(p)'
        /\ \/ LiveOf(t.order) = {} /\ pc'[p] = "history"
           \/ hand'[p].oid \in LiveOf(t.order) /\ pc'[p] = "watch"
    BY <1>1, <1>2, <2>2, <2>3 DEF Put, Goto, Holds, ServiceType, Trade
  <2>5. LiveOf(t.order)' \subseteq OnBooks(p)'
    <3>1. \A i, j \in LiveOf(t.order) : i = j
      BY <2>2 DEF HonestInv, OneLiveOrder
    <3> QED
      BY <1>3, <2>4, <3>1 DEF OnBooks
  <2>6. LiveOf(hand[p].order)' \subseteq OnBooks(p)'
    BY <2>4, <2>5 DEF LiveOf, OpenOrders, Live
  <2>7. \A o \in Orders : HeldBy(p, o) => HeldBy(p, o)'
    BY <1>2, <2>4 DEF HeldBy
  <2> QED
    BY <1>1, <2>1, <2>2, <2>6, <2>7, OwnKnows
<1>6. CASE SearchHistory(p)
  <2>1. \A q \in Procs \ {p} : pc'[q] = pc[q] /\ hand'[q] = hand[q]
    BY <1>1, <1>6, OnlyOwnState DEF SearchHistory
  <2>2. /\ t \in Trade /\ Holds(p) /\ LiveOf(t.order) = {} /\ UNCHANGED <<watch, failed>>
        /\ Release(p) \/ (Goto(p, "market") /\ UNCHANGED hand)
    BY <1>1, <1>2, <1>6 DEF SearchHistory, Holds, HonestInv, HandKnows, OnBooks, queues
  <2>3. \A o \in Orders : HeldBy(p, o) => LiveOf(o) = {}
    BY <1>2, <2>2 DEF HeldBy
  <2>4. Holds(p)' => hand'[p] = t /\ pc'[p] = "market"
    BY <1>1, <1>2, <2>2, LetGo DEF Goto, ServiceType
  <2>5. Holds(p)' => LiveOf(hand[p].order)' \subseteq OnBooks(p)'
    BY <1>3, <2>2, <2>4 DEF OnBooks, LiveOf, OpenOrders, Live
  <2> QED
    BY <1>1, <2>1, <2>2, <2>3, <2>5, OwnKnows
<1> QED
  BY <1>4, <1>5, <1>6

LEMMA FaultKnows ==
  ASSUME TypeInv, HonestInv, Calm, Prompt', NEW p \in Procs, Crash(p) \/ Restart(p)
  PROVE  HonestInv'
<1>1. ServiceType /\ UNCHANGED <<watch, failed, bot>>
  BY DEF Crash, Restart, TypeInv, TypeOK, queues
<1>2. \A q \in Procs \ {p} : pc'[q] = pc[q] /\ hand'[q] = hand[q]
  BY <1>1, OnlyOwnState DEF Crash, Restart
<1>3. ~ Holds(p)' /\ lost \subseteq lost' /\ \A o : HeldBy(p, o) => o \in lost'
  BY <1>1, LetGo DEF Crash, Restart, Goto, Holds, HeldBy, ServiceType, history
<1> QED
  BY <1>1, <1>2, <1>3, OwnKnows

\* A leg that had no order on the books and was in no queue gets one.
LEMMA NewOrderKnows ==
  ASSUME TypeInv, HonestInv, Prompt', NEW o \in Orders, NewOrderOf(o),
         LiveOf(o) = {}, ~ Queued(o), UNCHANGED <<watch, failed>>, lost \subseteq lost',
         bot'[o] # "new", \A q \in Orders : q # o => bot'[q] = bot[q],
         \A q \in Procs, l \in Orders : l # o => (HeldBy(q, l)' <=> HeldBy(q, l)),
         \A q \in Procs : Holds(q)' /\ pc'[q] # "open" =>
           \/ pc'[q] = pc[q] /\ hand'[q] = hand[q] /\ hand[q].order # o
           \/ LiveOf(hand[q].order)' \subseteq OnBooks(q)',
         bot'[o] = "handed" => Tracked(o)'
  PROVE  HonestInv'
<1>1. ExchangeType /\ watch \in Seq(Trade)
  BY DEF TypeInv, TypeOK, QueuesType
<1>2. \A q : q # o => LiveOf(q)' \subseteq LiveOf(q)
  BY <1>1, NewOrderElsewhere
<1>3. OneLiveOrder'
  <2>1. PICK id \in FreeIds, v \in 1 .. Volume : Accept(id, o, v, "open")
    BY DEF NewOrderOf
  <2>2. LiveOf(o)' \subseteq {id}
    BY <1>1, <2>1, NewOrderAlone
  <2> QED
    BY <1>2, <2>2 DEF HonestInv, OneLiveOrder
<1>4. Unplaced'
  <2> SUFFICES ASSUME NEW q \in Orders, bot'[q] = "new", NEW id \in Ids, exch'[id].owner = q
               PROVE  FALSE
    BY DEF Unplaced
  <2>1. q # o /\ bot[q] = "new"
    OBVIOUS
  <2>2. exch[id].owner = q
    BY <1>1, <2>1, NewOrderElsewhere
  <2> QED
    BY <2>1, <2>2 DEF HonestInv, Unplaced
<1>5. WatchKnows'
  <2> SUFFICES ASSUME NEW t \in Entries(watch)
               PROVE  LiveOf(t.order)' \subseteq {t.oid}
    BY DEF WatchKnows, Entries, LiveOf, OpenOrders, Live
  <2>1. t.order # o
    BY DEF Queued, InSeq, Entries
  <2>2. LiveOf(t.order) \subseteq {t.oid}
    BY DEF HonestInv, WatchKnows
  <2> QED
    BY <1>2, <2>1, <2>2
<1>6. HandKnows'
  <2> SUFFICES ASSUME NEW q \in Procs, Holds(q)', pc'[q] # "open",
                      pc'[q] = pc[q], hand'[q] = hand[q], hand[q].order # o
               PROVE  LiveOf(hand[q].order)' \subseteq OnBooks(q)'
    BY DEF HandKnows
  <2>1. PICK t : t = hand[q]
    OBVIOUS
  <2>2. LiveOf(t.order) \subseteq OnBooks(q)
    BY <2>1 DEF HonestInv, HandKnows, Holds
  <2>3. OnBooks(q)' = OnBooks(q) /\ hand'[q] = t /\ t.order # o
    BY <2>1 DEF OnBooks
  <2>4. LiveOf(t.order)' \subseteq OnBooks(q)'
    BY <1>2, <2>2, <2>3
  <2> QED
    BY <2>3, <2>4 DEF LiveOf, OpenOrders, Live
<1>7. LiveOrdersTracked'
  <2> SUFFICES ASSUME NEW l \in Orders, bot'[l] = "handed", LiveOf(l)' # {}, l # o
               PROVE  Tracked(l)'
    BY DEF LiveOrdersTracked
  <2>1. Tracked(l)
    BY <1>2 DEF HonestInv, LiveOrdersTracked
  <2> QED
    BY <2>1 DEF Tracked, Queued
<1> QED
  BY <1>3, <1>4, <1>5, <1>6, <1>7 DEF HonestInv

LEMMA BotPostKnows ==
  ASSUME TypeInv, OneCustodian, HonestInv, Prompt', NEW o \in Orders, BotPost(o), NewOrderOf(o)
  PROVE  HonestInv'
<1>1. /\ UNCHANGED <<watch, failed, pc, hand, lost>> /\ bot[o] = "new"
      /\ bot'[o] \notin {"new", "handed"} /\ \A q \in Orders : q # o => bot'[q] = bot[q]
  BY DEF BotPost, queues, service, history, TypeInv, TypeOK
<1>2. ~ Queued(o) /\ \A q \in Procs : ~ HeldBy(q, o)
  BY <1>1 DEF OneCustodian
<1>3. LiveOf(o) = {}
  BY <1>1 DEF HonestInv, Unplaced, LiveOf, OpenOrders
<1>4. \A q \in Procs, l \in Orders : HeldBy(q, l)' <=> HeldBy(q, l)
  BY <1>1 DEF HeldBy, Holds
<1>5. \A q \in Procs : Holds(q)' => pc'[q] = pc[q] /\ hand'[q] = hand[q] /\ hand[q].order # o
  BY <1>1, <1>2 DEF HeldBy, Holds
<1> QED
  BY <1>1, <1>2, <1>3, <1>4, <1>5, NewOrderKnows

LEMMA PostKnows ==
  ASSUME Honest, TypeInv, OneCustodian, HonestInv, Prompt', NEW p \in Procs, Post(p),
         Calm \/ NewOrderOf(hand[p].order)
  PROVE  HonestInv'
<1>1. /\ TypeOK /\ ServiceType /\ ExchangeType /\ hand[p] \in Trade /\ Holds(p)
      /\ pc[p] = "post" /\ UNCHANGED <<bot, watch, failed>> /\ lost \subseteq lost'
  BY DEF TypeInv, TypeOK, ServiceType, Holds, Post, queues
<1>2. PICK t \in Trade : t = hand[p]
  BY <1>1
<1>3. \A q \in Procs \ {p} : pc'[q] = pc[q] /\ hand'[q] = hand[q]
  BY <1>1, OnlyOwnState DEF Post
<1>4. t.order \in Orders /\ HeldBy(p, t.order) /\ LiveOf(t.order) = {}
  BY <1>1, <1>2 DEF Trade, HeldBy, HonestInv, HandKnows, OnBooks
<1>5. CASE Calm /\ ~ Holds(p)'
  <2>1. \A o \in Orders : HeldBy(p, o) => LiveOf(o) = {}
    BY <1>2, <1>4 DEF HeldBy
  <2> QED
    BY <1>1, <1>3, <1>5, <2>1, OwnKnows
<1>6. /\ ~ Queued(t.order) /\ bot[t.order] = "handed"
      /\ \A q \in Procs \ {p} : ~ HeldBy(q, t.order)
  BY <1>4 DEF OneCustodian
<1>7. \A q \in Procs \ {p} : Holds(q)' => hand[q].order # t.order
  BY <1>3, <1>6 DEF HeldBy, Holds
<1>8. CASE ~ Holds(p)' /\ NewOrderOf(t.order) /\ t.order \in lost'
  <2>1. \A q \in Procs, l \in Orders : l # t.order => (HeldBy(q, l)' <=> HeldBy(q, l))
    BY <1>2, <1>3, <1>8 DEF HeldBy, Holds
  <2>2. Tracked(t.order)'
    BY <1>8 DEF Tracked
  <2> QED
    BY <1>1, <1>3, <1>4, <1>6, <1>7, <1>8, <2>1, <2>2, NewOrderKnows
<1>9. ASSUME NEW id \in FreeIds, NEW v \in 1 .. Volume, Accept(id, t.order, v, "open"),
             Put(p, [t EXCEPT !.oid = id, !.vol = v], "save")
      PROVE  HonestInv'
  <2>1. hand'[p].order = t.order /\ hand'[p].oid = id /\ pc'[p] = "save" /\ Holds(p)'
    BY <1>1, <1>9 DEF Put, Goto, Holds, ServiceType, Trade
  <2>2. LiveOf(t.order)' \subseteq {id}
    BY <1>1, <1>4, <1>9, NewOrderAlone
  <2>3. LiveOf(hand[p].order)' \subseteq OnBooks(p)'
    BY <2>1, <2>2 DEF OnBooks, LiveOf, OpenOrders, Live
  <2>4. \A q \in Procs, l \in Orders : l # t.order => (HeldBy(q, l)' <=> HeldBy(q, l))
    BY <1>2, <1>3, <2>1 DEF HeldBy, Holds
  <2>5. Tracked(t.order)'
    BY <2>1 DEF Tracked, HeldBy
  <2>6. NewOrderOf(t.order)
    BY <1>9 DEF NewOrderOf
  <2> QED
    BY <1>1, <1>3, <1>4, <1>6, <1>7, <2>3, <2>4, <2>5, <2>6, NewOrderKnows
<1>10. \/ ~ Holds(p)' /\ Calm
       \/ ~ Holds(p)' /\ NewOrderOf(t.order) /\ t.order \in lost'
       \/ \E id \in FreeIds, v \in 1 .. Volume :
            Accept(id, t.order, v, "open") /\ Put(p, [t EXCEPT !.oid = id, !.vol = v], "save")
  <2>1. PICK v \in Affordable(t.vol) :
          \/ v < MinVolume /\ Release(p) /\ UNCHANGED exch
          \/ /\ v >= MinVolume
             /\ \/ \E id \in FreeIds : /\ Accept(id, t.order, v, "open")
                                       /\ Put(p, [t EXCEPT !.oid = id, !.vol = v], "save")
                \/ Die(p) /\ t.order \in lost' /\ (UNCHANGED exch \/ Calm \/ NewOrderOf(t.order))
    BY <1>2 DEF Post, Honest
  <2>2. v >= MinVolume => v \in 1 .. Volume
    <3>1. t.vol \in -1 .. Volume /\ Volume \in Nat /\ MinVolume \in Nat \ {0}
      BY DEF Trade
    <3> QED
      BY <3>1 DEF Affordable
  <2>3. Release(p) \/ Die(p) => ~ Holds(p)'
    BY <1>1, LetGo
  <2>4. UNCHANGED exch => Calm
    BY DEF Calm, Live
  <2> QED
    BY <2>1, <2>2, <2>3, <2>4
<1> QED
  BY <1>5, <1>8, <1>9, <1>10

LEMMA BotElsewhereKnows ==
  ASSUME TypeInv, HonestInv, Calm, Prompt', UNCHANGED <<watch, service, lost>>,
         \A o : InSeq(failed, o) => InSeq(failed', o),
         \A o \in Orders : bot'[o] = "new" => bot[o] = "new",
         \A o \in Orders : bot'[o] = "handed" => bot[o] = "handed" \/ InSeq(failed', o)
  PROVE  HonestInv'
<1>1. OneLiveOrder'
  BY CalmLeg DEF HonestInv, OneLiveOrder
<1>2. Unplaced'
  BY DEF HonestInv, Unplaced, Calm
<1>3. WatchKnows'
  <2> SUFFICES ASSUME NEW t \in Entries(watch)
               PROVE  LiveOf(t.order)' \subseteq {t.oid}
    BY DEF WatchKnows, Entries, LiveOf, OpenOrders, Live
  <2> QED
    BY CalmLeg DEF HonestInv, WatchKnows
<1>4. HandKnows'
  <2> SUFFICES ASSUME NEW q \in Procs, Holds(q), pc[q] # "open"
               PROVE  LiveOf(hand[q].order)' \subseteq OnBooks(q)'
    BY DEF HandKnows, Holds, service
  <2>1. PICK t : t = hand[q]
    OBVIOUS
  <2>2. LiveOf(t.order)' \subseteq OnBooks(q)'
    BY <2>1, CalmLeg DEF HonestInv, HandKnows, OnBooks, service
  <2> QED
    BY <2>1, <2>2 DEF service, LiveOf, OpenOrders, Live
<1>5. LiveOrdersTracked'
  <2> SUFFICES ASSUME NEW o \in Orders, bot'[o] = "handed", LiveOf(o)' # {}, bot[o] = "handed"
               PROVE  Tracked(o)'
    BY DEF LiveOrdersTracked, Tracked, Queued
  <2>1. Tracked(o)
    BY CalmLeg DEF HonestInv, LiveOrdersTracked
  <2> QED
    BY <2>1 DEF Tracked, Queued, HeldBy, Holds, service
<1> QED
  BY <1>1, <1>2, <1>3, <1>4, <1>5 DEF HonestInv

LEMMA StepKnows ==
  ASSUME Honest, TypeInv, OneCustodian, HonestInv, [Next]_vars
  PROVE  HonestInv'
<1>1. Prompt' /\ ExchangeType
  BY HonestCalls DEF HonestInv, TypeInv, TypeOK
<1>2. CASE Calm
  <2>1. ASSUME NEW o \in Orders, BotStep(o)
        PROVE  HonestInv'
    <3>1. CASE BotHandOver(o)
      <4> DEFINE t == [order |-> o, oid |-> NoId, vol |-> Volume]
      <4>1. t \in Trade /\ t.order = o
        BY DEF Trade
      <4>2. failed' = <<t>> \o failed /\ UNCHANGED <<watch, service, lost>>
        BY <3>1 DEF BotHandOver, AddFailedOrder, history
      <4> HIDE DEF t
      <4>3. \A q : InSeq(failed', q) <=> InSeq(failed, q) \/ o = q
        BY <4>1, <4>2, PushOrders DEF TypeInv, TypeOK, QueuesType
      <4>4. \A q \in Orders : bot'[q] = IF q = o THEN "handed" ELSE bot[q]
        BY <3>1 DEF BotHandOver, TypeInv, TypeOK
      <4> QED
        BY <1>1, <1>2, <4>2, <4>3, <4>4, BotElsewhereKnows
    <3>2. CASE BotPost(o) \/ BotRecord(o) \/ BotCrash(o)
      <4>1. UNCHANGED <<watch, failed, service, lost>>
        BY <3>2 DEF BotPost, BotRecord, BotCrash, queues, history
      <4>2. \A q \in Orders : bot'[q] \in {"new", "handed"} => bot'[q] = bot[q]
        BY <3>2 DEF BotPost, BotRecord, BotCrash, TypeInv, TypeOK
      <4> QED
        BY <1>1, <1>2, <4>1, <4>2, BotElsewhereKnows
    <3> QED
      BY <2>1, <3>1, <3>2 DEF BotStep
  <2>2. ASSUME NEW id \in Ids, Fill(id) \/ Arrive(id)
        PROVE  HonestInv'
    BY <1>1, <1>2, <2>2, BotElsewhereKnows DEF Fill, Arrive, Internal, queues, history
  <2>3. CASE UNCHANGED vars
    BY <1>1, <1>2, <2>3, BotElsewhereKnows DEF vars, service
  <2>4. ASSUME NEW p \in ExpiredWorkers, ExpiredStep(p)
        PROVE  HonestInv'
    BY <1>1, <1>2, <2>4, ExpiredStepKnows, PlacementKnows, PostKnows DEF ExpiredStep, Procs
  <2>5. ASSUME NEW p \in FailedWorkers, FailedStep(p)
        PROVE  HonestInv'
    BY <1>1, <1>2, <2>5, FailedStepKnows, PlacementKnows, PostKnows DEF FailedStep, Procs
  <2>6. ASSUME NEW p \in Procs, Crash(p) \/ Restart(p)
        PROVE  HonestInv'
    BY <1>1, <1>2, <2>6, FaultKnows
  <2> QED
    BY <2>1, <2>2, <2>3, <2>4, <2>5, <2>6 DEF Next
<1>3. CASE \E o \in Orders : BotPost(o) /\ NewOrderOf(o)
  BY <1>1, <1>3, BotPostKnows
<1>4. CASE \E p \in Procs : Post(p) /\ NewOrderOf(hand[p].order)
  BY <1>1, <1>4, PostKnows
<1> QED
  BY <1>2, <1>3, <1>4, HonestCalls DEF HonestInv

LEMMA InitKnows == Init => HonestInv
<1> SUFFICES ASSUME Init
             PROVE  HonestInv
  OBVIOUS
<1>1. Entries(watch) = {} /\ OpenOrders = {} /\ \A o : LiveOf(o) = {}
  BY DEF Init, Entries, OpenOrders, Live, LiveOf, Unused
<1>2. Prompt /\ Unplaced
  BY DEF Init, Prompt, Unplaced, Unused
<1> QED
  BY <1>1, <1>2 DEF HonestInv, OneLiveOrder, WatchKnows, HandKnows, LiveOrdersTracked

LEMMA AlwaysKnown == Honest /\ Safe => [](TypeInv /\ OneCustodian /\ HonestInv)
<1>1. Init => TypeInv /\ OneCustodian /\ HonestInv
  BY InitType, InitKnows DEF Init, OneCustodian, Queued, InSeq, Distinct, HeldBy, Holds
<1>2. TypeInv /\ OneCustodian /\ HonestInv /\ Honest /\ [Next]_vars =>
        (TypeInv /\ OneCustodian /\ HonestInv)'
  BY StepType, StepCustody, StepKnows
<1>3. Honest => []Honest
  <2>1. Honest => Honest'
    BY DEF Honest
  <2> QED
    BY <2>1, PTL
<1> QED
  BY <1>1, <1>2, <1>3, PTL DEF Safe

\* Against an honest exchange a leg has one order open at a time, whoever places,
\* cancels and replaces it and whatever fails (process_expired_order's cancel,
\* process_failed_order's search in the open orders).
THEOREM OneOrderAtATime == Honest /\ Safe => []OneLiveOrder
BY AlwaysKnown, PTL DEF HonestInv

\* Against an honest exchange a leg that was handed to the failed orders and is on
\* the books stays in a queue or in hand, unless a service died with it.
THEOREM NothingOpenIsDropped == Honest /\ Safe => []LiveOrdersTracked
BY AlwaysKnown, PTL DEF HonestInv

-----------------------------------------------------------------------------
(***************************************************************************)
(* OrderRecovery: every step of the bots, the services and the exchange    *)
(* moves at most one leg, in a way that the promise allows.                *)
(***************************************************************************)
\* A leg that a process lost is nowhere, and an order that the exchange got is of
\* some leg.
LostGone == \A o \in lost : PlaceOf(o) = "lost"
Owned == \A id \in Ids : exch[id].st # "unused" => exch[id].owner \in Orders

RecoveryInv == TypeInv /\ OneCustodian /\ LostGone /\ Owned /\ (Honest => HonestInv)

\* One process, and only it, changes what it does and has in hand.
Alone(p) == \A q \in Procs \ {p} : pc'[q] = pc[q] /\ hand'[q] = hand[q]

\* Nothing that says where the leg is changes, but for the hands it is in.
Resting(o) ==
  /\ bot'[o] = "handed" <=> bot[o] = "handed"
  /\ InSeq(watch, o)' <=> InSeq(watch, o)
  /\ InSeq(failed, o)' <=> InSeq(failed, o)
  /\ o \in lost' <=> o \in lost

\* Where a leg in a queue, in hand or with its bot is said to be.
LEMMA Places ==
  ASSUME OneCustodian, NEW o \in Orders
  PROVE  /\ bot[o] # "handed" => PlaceOf(o) = "bot"
         /\ InSeq(failed, o) => PlaceOf(o) = "failed"
         /\ InSeq(watch, o) => PlaceOf(o) = "watched"
         /\ \A p \in Procs : HeldBy(p, o) => PlaceOf(o) = "held"
<1>1. InSeq(failed, o) \/ InSeq(watch, o) <=> Queued(o)
  BY DEF Queued
<1>2. Queued(o) \/ (\E p \in Procs : HeldBy(p, o)) => bot[o] = "handed"
  BY DEF OneCustodian
<1>3. ~ (InSeq(watch, o) /\ InSeq(failed, o)) /\ \A p \in Procs : HeldBy(p, o) => ~ Queued(o)
  BY DEF OneCustodian
<1> QED
  BY <1>1, <1>2, <1>3 DEF PlaceOf

LEMMA PlacesNext ==
  ASSUME OneCustodian', NEW o \in Orders
  PROVE  /\ InSeq(failed, o)' => PlaceOf(o)' = "failed"
         /\ InSeq(watch, o)' => PlaceOf(o)' = "watched"
         /\ \A p \in Procs : HeldBy(p, o)' => PlaceOf(o)' = "held"
<1>1. InSeq(failed, o)' \/ InSeq(watch, o)' <=> Queued(o)'
  BY DEF Queued
<1>2. Queued(o)' \/ (\E p \in Procs : HeldBy(p, o)') => bot'[o] = "handed"
  BY DEF OneCustodian
<1>3. ~ (InSeq(watch, o)' /\ InSeq(failed, o)') /\ \A p \in Procs : HeldBy(p, o)' => ~ Queued(o)'
  BY DEF OneCustodian
<1> QED
  BY <1>1, <1>2, <1>3 DEF PlaceOf

LEMMA PlaceStays ==
  ASSUME NEW p \in Procs, Alone(p), NEW o \in Orders, Resting(o),
         HeldBy(p, o)' <=> HeldBy(p, o)
  PROVE  PlaceOf(o)' = PlaceOf(o)
<1>1. (\E q \in Procs : HeldBy(q, o))' <=> \E q \in Procs : HeldBy(q, o)
  BY DEF Alone, HeldBy, Holds
<1>2. Queued(o)' <=> Queued(o)
  BY DEF Resting, Queued
<1> QED
  BY <1>1, <1>2 DEF Resting, PlaceOf

\* A process goes on with what it is doing.
LEMMA GoesOn ==
  ASSUME NEW p \in Procs, Alone(p), \A o \in Orders : Resting(o), Holds(p)' <=> Holds(p),
         Holds(p) => hand'[p].order = hand[p].order
  PROVE  UNCHANGED <<Whereabouts, AtWork>>
<1>1. \A o \in Orders : PlaceOf(o)' = PlaceOf(o)
  <2>1. \A o \in Orders : HeldBy(p, o)' <=> HeldBy(p, o)
    BY DEF HeldBy
  <2> QED
    BY <2>1, PlaceStays
<1>2. \A q \in Procs : (Holds(q)' <=> Holds(q)) /\ (Holds(q) => hand'[q].order = hand[q].order)
  BY DEF Alone, Holds
<1> QED
  BY <1>1, <1>2 DEF Whereabouts, AtWork

\* One leg moves.
LEMMA LegGoes ==
  ASSUME NEW o \in Orders, \A q \in Orders \ {o} : PlaceOf(q)' = PlaceOf(q),
         NEW to, PlaceOf(o)' = to
  PROVE  Recovery!Go(o, to)
BY DEF Recovery!Go, Whereabouts

\* A process lets go of its leg, and no other leg moves.
LEMMA LetsGoOf ==
  ASSUME OneCustodian, NEW p \in Procs, Alone(p), ~ Holds(p)', NEW o \in Orders, HeldBy(p, o),
         \A q \in Orders \ {o} : Resting(q), NEW to, PlaceOf(o)' = to
  PROVE  Recovery!Lets(p, o, to)
<1>1. AtWork[p] = o /\ Whereabouts[o] = "held"
  BY Places DEF AtWork, Whereabouts, HeldBy
<1>2. AtWork' = [AtWork EXCEPT ![p] = NoOrder]
  <2>1. \A q \in Procs \ {p} : (Holds(q)' <=> Holds(q)) /\ hand'[q] = hand[q]
    BY DEF Alone, Holds
  <2> QED
    BY <2>1 DEF AtWork
<1>3. \A q \in Orders \ {o} : PlaceOf(q)' = PlaceOf(q)
  <2>1. \A q \in Orders \ {o} : HeldBy(p, q)' <=> HeldBy(p, q)
    BY DEF HeldBy
  <2> QED
    BY <2>1, PlaceStays
<1>4. Recovery!Go(o, to)
  BY <1>3, LegGoes
<1> QED
  BY <1>1, <1>2, <1>4 DEF Recovery!Lets

\* A process takes a leg from its queue.
LEMMA Takes ==
  ASSUME OneCustodian, OneCustodian', NEW p \in Procs, Alone(p), ~ Holds(p), NEW o \in Orders,
         HeldBy(p, o)', \A q \in Orders \ {o} : Resting(q),
         \/ p \in FailedWorkers /\ InSeq(failed, o)
         \/ p \in ExpiredWorkers /\ InSeq(watch, o),
         Recovery!Books({})
  PROVE  Recovery!Take(p, o)
<1>1. AtWork[p] = NoOrder /\ AtWork' = [AtWork EXCEPT ![p] = o]
  <2>1. \A q \in Procs \ {p} : (Holds(q)' <=> Holds(q)) /\ hand'[q] = hand[q]
    BY DEF Alone, Holds
  <2>2. Holds(p)' /\ hand'[p].order = o
    BY DEF HeldBy
  <2> QED
    BY <2>1, <2>2 DEF AtWork
<1>2. \/ p \in FailedWorkers /\ Whereabouts[o] = "failed"
      \/ p \in ExpiredWorkers /\ Whereabouts[o] = "watched"
  BY Places DEF Whereabouts
<1>3. PlaceOf(o)' = "held"
  BY PlacesNext
<1>4. \A q \in Orders \ {o} : PlaceOf(q)' = PlaceOf(q)
  <2>1. \A q \in Orders \ {o} : HeldBy(p, q)' <=> HeldBy(p, q)
    BY DEF HeldBy
  <2> QED
    BY <2>1, PlaceStays
<1> QED
  BY <1>1, <1>2, <1>3, <1>4, LegGoes DEF Recovery!Take

\* What happens to the orders on the books.
LEMMA CalmBooks ==
  ASSUME Calm, NEW legs
  PROVE  Recovery!Books(legs)
<1>1. OnTheBooks' \subseteq OnTheBooks
  BY DEF Calm, OnTheBooks, OpenOrders
<1> QED
  BY <1>1 DEF Recovery!Books

LEMMA NewBooks ==
  ASSUME NEW id \in Ids, \A i \in Ids \ {id} : exch'[i] = exch[i],
         NEW o, exch'[id].owner = o
  PROVE  Recovery!Books({o})
<1>1. \A x \in OnTheBooks' : x \in OnTheBooks \/ x = [id |-> id, leg |-> o]
  BY DEF OnTheBooks, OpenOrders, Live
<1> QED
  BY <1>1 DEF Recovery!Books

LEMMA AcceptBooks ==
  ASSUME ExchangeType, NEW id \in FreeIds, NEW o, NEW v, NEW st, Accept(id, o, v, st)
  PROVE  Recovery!Books({o})
<1>1. id \in Ids /\ exch'[id].owner = o /\ \A i \in Ids \ {id} : exch'[i] = exch[i]
  BY DEF ExchangeType, Accept, FreeIds
<1> QED
  BY <1>1, NewBooks

LEMMA LegOnBooks ==
  ASSUME NEW o
  PROVE  Recovery!OnBooks(o) <=> LiveOf(o) # {}
<1>1. (\E x \in OnTheBooks : x.leg = o) <=> \E id \in OpenOrders : exch[id].owner = o
  <2>1. ASSUME NEW x \in OnTheBooks
        PROVE  \E id \in OpenOrders : x.leg = exch[id].owner
    BY DEF OnTheBooks
  <2>2. ASSUME NEW id \in OpenOrders
        PROVE  \E x \in OnTheBooks : x.leg = exch[id].owner
    <3> DEFINE x == [id |-> id, leg |-> exch[id].owner]
    <3>1. x \in OnTheBooks /\ x.leg = exch[id].owner
      BY DEF OnTheBooks
    <3> QED
      BY <3>1
  <2> QED
    BY <2>1, <2>2
<1>2. LiveOf(o) # {} <=> \E id \in OpenOrders : exch[id].owner = o
  BY DEF LiveOf
<1> QED
  BY <1>1, <1>2 DEF Recovery!OnBooks

-----------------------------------------------------------------------------
\* A process that lets go of its leg: to a queue, out of sight, or in dying. Those
\* it gives to a queue are the only ones in a queue that were not there before.
LEMMA Gives ==
  ASSUME TypeInv, OneCustodian, OneCustodian', UNCHANGED <<bot, lost>>, Calm,
         NEW p \in Procs, Alone(p), Holds(p), ~ Holds(p)',
         \/ AddOrderToWatchQueue(hand[p]) /\ UNCHANGED failed
         \/ p \in FailedWorkers /\ AddFailedOrder(hand[p]) /\ UNCHANGED watch
  PROVE  Recovery!Next
<1>1. watch \in Seq(Trade) /\ failed \in Seq(Trade) /\ hand[p] \in Trade
  BY DEF TypeInv, TypeOK, QueuesType, ServiceType, Holds
<1>2. PICK t \in Trade : t = hand[p]
  BY <1>1
<1>3. PICK o \in Orders : o = t.order /\ HeldBy(p, o)
  BY <1>2 DEF HeldBy, Trade
<1>4. ~ InSeq(watch, o)
  BY <1>3 DEF OneCustodian, Queued
<1>5. Recovery!Books({})
  BY CalmBooks
<1>6. CASE AddOrderToWatchQueue(hand[p]) /\ UNCHANGED failed
  <2>1. watch' = Append(watch, t)
    BY <1>1, <1>2, <1>3, <1>4, <1>6, WatchAppends
  <2>2. \A q : InSeq(watch', q) <=> InSeq(watch, q) \/ t.order = q
    BY <1>1, <2>1, AppendOrders
  <2>3. InSeq(watch, o)' /\ \A q \in Orders \ {o} : Resting(q)
    BY <1>3, <1>6, <2>2 DEF Resting, InSeq
  <2>4. PlaceOf(o)' = "watched"
    BY <2>3, PlacesNext
  <2>5. Recovery!Lets(p, o, "watched")
    BY <1>3, <2>3, <2>4, LetsGoOf
  <2> QED
    BY <1>5, <2>5 DEF Recovery!Next, Recovery!PutBack, Recovery!Procs, Procs
<1>7. CASE p \in FailedWorkers /\ AddFailedOrder(hand[p]) /\ UNCHANGED watch
  <2>1. failed' = <<t>> \o failed
    BY <1>2, <1>7 DEF AddFailedOrder
  <2>2. \A q : InSeq(failed', q) <=> InSeq(failed, q) \/ t.order = q
    BY <1>1, <2>1, PushOrders
  <2>3. InSeq(failed, o)' /\ \A q \in Orders \ {o} : Resting(q)
    BY <1>3, <1>7, <2>2 DEF Resting, InSeq
  <2>4. PlaceOf(o)' = "failed"
    BY <2>3, PlacesNext
  <2>5. Recovery!Lets(p, o, "failed")
    BY <1>3, <2>3, <2>4, LetsGoOf
  <2> QED
    BY <1>5, <1>7, <2>5 DEF Recovery!Next, Recovery!PutBack, Recovery!Procs, Procs
<1> QED
  BY <1>6, <1>7

\* Where the leg is that a process lets go of without giving it to a queue.
LEMMA LeavesSight ==
  ASSUME OneCustodian, OneCustodian', UNCHANGED <<bot, watch, failed>>,
         NEW p \in Procs, Alone(p), ~ Holds(p)', NEW o \in Orders, HeldBy(p, o)
  PROVE  PlaceOf(o)' = IF o \in lost' THEN "lost" ELSE "dropped"
<1>1. bot'[o] = "handed" /\ ~ Queued(o)'
  BY DEF OneCustodian, Queued, InSeq
<1>2. \A q \in Procs : ~ HeldBy(q, o)'
  <2>1. \A q \in Procs : HeldBy(q, o)' => q # p /\ HeldBy(q, o)
    BY DEF Alone, HeldBy, Holds
  <2> QED
    BY <2>1 DEF OneCustodian
<1> QED
  BY <1>1, <1>2 DEF PlaceOf, Queued

LEMMA Drops ==
  ASSUME RecoveryInv, OneCustodian', UNCHANGED <<bot, watch, failed, lost>>, Calm,
         NEW p \in Procs, Alone(p), ~ Holds(p)', NEW o \in Orders, HeldBy(p, o),
         Honest => LiveOf(o) = {}
  PROVE  Recovery!Next
<1>1. o \notin lost
  BY Places DEF RecoveryInv, LostGone
<1>2. PlaceOf(o)' = "dropped"
  BY <1>1, LeavesSight DEF RecoveryInv
<1>3. \A q \in Orders \ {o} : Resting(q)
  BY DEF Resting, InSeq
<1>4. Recovery!Lets(p, o, "dropped")
  BY <1>2, <1>3, LetsGoOf DEF RecoveryInv
<1> QED
  BY <1>4, CalmBooks, LegOnBooks DEF Recovery!Next, Recovery!Drop, Recovery!Procs, Procs

LEMMA Loses ==
  ASSUME OneCustodian, OneCustodian', UNCHANGED <<bot, watch, failed>>,
         NEW p \in Procs, Alone(p), ~ Holds(p)', NEW o \in Orders, HeldBy(p, o),
         lost' = lost \cup {o}, Recovery!Books(IF Honest /\ LiveOf(o) # {} THEN {} ELSE {o})
  PROVE  Recovery!Next /\ PlaceOf(o)' = "lost"
<1>1. PlaceOf(o)' = "lost"
  BY LeavesSight
<1>2. \A q \in Orders \ {o} : Resting(q)
  BY DEF Resting, InSeq
<1>3. Recovery!Lets(p, o, "lost")
  BY <1>1, <1>2, LetsGoOf
<1> QED
  BY <1>1, <1>3, LegOnBooks DEF Recovery!Next, Recovery!Lose, Recovery!Procs, Procs

-----------------------------------------------------------------------------
\* A step in which no leg moves, and at most orders leave the books.
LEMMA OnlyTrades ==
  ASSUME UNCHANGED <<Whereabouts, AtWork>>, Calm
  PROVE  Recovery!Next
BY CalmBooks DEF Recovery!Next, Recovery!Trades

\* A step of a process that goes on with its leg, or has none.
LEMMA OwnGoesOn ==
  ASSUME UNCHANGED <<bot, watch, failed, lost>>, Calm, NEW p \in Procs, Alone(p),
         Holds(p)' <=> Holds(p), Holds(p) => hand'[p].order = hand[p].order
  PROVE  Recovery!Next
<1>1. \A o \in Orders : Resting(o)
  BY DEF Resting, InSeq
<1> QED
  BY <1>1, GoesOn, OnlyTrades

LEMMA GivesBack ==
  ASSUME TypeInv, OneCustodian, OneCustodian', UNCHANGED <<bot, lost>>, Calm,
         NEW p \in Procs, Holds(p), Requeue(p), Release(p) \/ Die(p)
  PROVE  Recovery!Next
<1>1. ServiceType
  BY DEF TypeInv, TypeOK
<1>2. Alone(p) /\ ~ Holds(p)'
  BY <1>1, OnlyOwnState, LetGo DEF Alone
<1> QED
  BY <1>2, Gives DEF Requeue, Procs

\* Calls that bring no order to the books.
LEMMA QuietCalls ==
  ASSUME ExchangeType
  PROVE  /\ UNCHANGED exch => Calm
         /\ \A id \in OpenOrders : CancelAt(id) => Calm
         /\ \A id \in Ids : Fill(id) => Calm
<1>1. UNCHANGED exch => Calm
  BY DEF Calm, Live
<1>2. ASSUME NEW id \in OpenOrders, CancelAt(id)
      PROVE  Calm
  BY <1>2 DEF Calm, Live, ExchangeType, OpenOrders, CancelAt
<1>3. ASSUME NEW id \in Ids, Fill(id)
      PROVE  Calm
  BY <1>3 DEF Calm, Live, ExchangeType, Fill
<1> QED
  BY <1>1, <1>2, <1>3

LEMMA BotStepRecovers ==
  ASSUME RecoveryInv, OneCustodian', NEW o \in Orders, BotStep(o)
  PROVE  Recovery!Next
<1>1. /\ TypeOK /\ ExchangeType /\ OneCustodian
      /\ watch \in Seq(Trade) /\ failed \in Seq(Trade) /\ UNCHANGED <<pc, hand, lost, watch>>
  BY DEF RecoveryInv, TypeInv, TypeOK, QueuesType, BotStep, BotPost, BotHandOver, BotRecord,
         BotCrash, queues, service, history
<1>2. AtWork' = AtWork /\ \A p \in Procs, q \in Orders : HeldBy(p, q)' <=> HeldBy(p, q)
  BY <1>1 DEF AtWork, HeldBy, Holds
<1>3. CASE BotHandOver(o)
  <2> DEFINE t == [order |-> o, oid |-> NoId, vol |-> Volume]
  <2>1. t \in Trade /\ t.order = o
    BY DEF Trade
  <2>2. failed' = <<t>> \o failed
    BY <1>3 DEF BotHandOver, AddFailedOrder
  <2> HIDE DEF t
  <2>3. \A q : InSeq(failed', q) <=> InSeq(failed, q) \/ o = q
    BY <1>1, <2>1, <2>2, PushOrders
  <2>4. \A q \in Orders \ {o} : Resting(q)
    BY <1>1, <1>3, <2>3 DEF BotHandOver, Resting, InSeq, TypeOK
  <2>5. \A q \in Orders \ {o} : PlaceOf(q)' = PlaceOf(q)
    BY <1>2, <2>4 DEF PlaceOf, Resting, Queued
  <2>6. InSeq(failed, o)'
    BY <2>3 DEF InSeq
  <2>7. PlaceOf(o)' = "failed"
    BY <2>6, PlacesNext
  <2>8. Recovery!Go(o, "failed")
    BY <2>5, <2>7, LegGoes
  <2>9. Whereabouts[o] = "bot"
    BY <1>1, <1>3, Places DEF BotHandOver, Whereabouts
  <2>10. Calm
    BY <1>1, <1>3, QuietCalls DEF BotHandOver
  <2> QED
    BY <1>2, <2>8, <2>9, <2>10, CalmBooks DEF Recovery!Next, Recovery!HandOver
<1>4. CASE BotPost(o) \/ BotRecord(o) \/ BotCrash(o)
  <2>1. failed' = failed /\ \A q \in Orders : bot'[q] = "handed" <=> bot[q] = "handed"
    BY <1>1, <1>4 DEF BotPost, BotRecord, BotCrash, TypeOK, queues
  <2>2. \A q \in Orders : PlaceOf(q)' = PlaceOf(q)
    <3>1. \A q \in Orders : Resting(q)
      BY <1>1, <2>1 DEF Resting, InSeq
    <3> QED
      BY <1>2, <3>1 DEF PlaceOf, Resting, Queued
  <2>3. UNCHANGED <<Whereabouts, AtWork>>
    BY <1>2, <2>2 DEF Whereabouts
  <2>4. CASE UNCHANGED exch
    BY <1>1, <2>3, <2>4, QuietCalls, OnlyTrades
  <2>5. ASSUME bot[o] = "new", NEW id \in FreeIds, NEW st, Accept(id, o, Volume, st)
        PROVE  Recovery!Next
    <3>1. Recovery!Books({o})
      BY <1>1, <2>5, AcceptBooks
    <3>2. Whereabouts[o] = "bot"
      BY <1>1, <2>5, Places DEF Whereabouts
    <3>3. Honest => LiveOf(o) = {}
      BY <2>5 DEF RecoveryInv, HonestInv, Unplaced, LiveOf, OpenOrders
    <3> QED
      BY <2>3, <3>1, <3>2, <3>3, LegOnBooks DEF Recovery!Next, Recovery!Place
  <2> QED
    BY <1>4, <2>4, <2>5, CallsOfBot DEF RecoveryInv, BotStep
<1> QED
  BY <1>3, <1>4 DEF BotStep

\* While the exchange can be believed, a process that is about to place its leg
\* has no order of it on the books.
LEMMA FreeToPlace ==
  ASSUME RecoveryInv, Honest, NEW p \in Procs, NEW o \in Orders, HeldBy(p, o),
         pc[p] \in {"history", "market", "post"}
  PROVE  LiveOf(o) = {}
<1>1. LiveOf(hand[p].order) \subseteq OnBooks(p)
  BY DEF RecoveryInv, HonestInv, HandKnows, HeldBy, Holds
<1> QED
  BY <1>1 DEF OnBooks, HeldBy

LEMMA PlacementRecovers ==
  ASSUME RecoveryInv, OneCustodian', NEW p \in Procs,
         Market(p) \/ Post(p) \/ Save(p) \/ Watch(p)
  PROVE  /\ Recovery!Next
         /\ \A o \in lost' \ lost : PlaceOf(o)' = "lost"
<1>1. /\ TypeInv /\ TypeOK /\ ExchangeType /\ ServiceType /\ OneCustodian /\ UNCHANGED bot
      /\ Holds(p) /\ hand[p] \in Trade
  BY DEF RecoveryInv, TypeInv, TypeOK, ServiceType, Holds, Market, Post, Save, Watch
<1>2. PICK o \in Orders : o = hand[p].order /\ HeldBy(p, o)
  BY <1>1 DEF Trade, HeldBy
<1>3. CASE Market(p)
  <2>1. UNCHANGED lost /\ Calm
    BY <1>1, <1>3, QuietCalls DEF Market, history
  <2>2. CASE Requeue(p) /\ (Release(p) \/ Die(p))
    BY <1>1, <2>1, <2>2, GivesBack
  <2>3. CASE Goto(p, "post") /\ UNCHANGED <<queues, hand>>
    <3>1. Alone(p) /\ Holds(p)'
      BY <1>1, <2>3, OnlyOwnState DEF Alone, Goto, Holds, ServiceType
    <3> QED
      BY <1>1, <2>1, <2>3, <3>1, OwnGoesOn DEF queues
  <2> QED
    BY <1>3, <2>1, <2>2, <2>3 DEF Market
<1>4. CASE Save(p)
  <2>1. UNCHANGED lost /\ Calm
    BY <1>1, <1>4, QuietCalls DEF Save, history
  <2>2. Alone(p) /\ Holds(p)'
    BY <1>1, <1>4, OnlyOwnState DEF Save, Alone, Goto, Holds, ServiceType
  <2> QED
    BY <1>1, <1>4, <2>1, <2>2, OwnGoesOn DEF Save
<1>5. CASE Watch(p)
  <2>1. UNCHANGED lost /\ Calm
    BY <1>1, <1>5, QuietCalls DEF Watch, history
  <2>2. Alone(p) /\ ~ Holds(p)'
    BY <1>1, <1>5, OnlyOwnState, LetGo DEF Watch, Alone
  <2> QED
    BY <1>1, <1>5, <2>1, <2>2, Gives DEF Watch
<1>6. CASE Post(p)
  <2>1. Honest => LiveOf(o) = {}
    BY <1>2, <1>6, FreeToPlace DEF Post
  <2>2. UNCHANGED <<bot, watch, failed>>
    BY <1>6 DEF Post, queues
  <2>3. CASE Release(p) /\ UNCHANGED <<exch, lost>>
    <3>1. Alone(p) /\ ~ Holds(p)' /\ Calm
      BY <1>1, <2>3, OnlyOwnState, LetGo, QuietCalls DEF Alone
    <3> QED
      BY <1>2, <2>1, <2>2, <2>3, <3>1, Drops
  <2>4. ASSUME NEW i, NEW v, Put(p, [hand[p] EXCEPT !.oid = i, !.vol = v], "save"), UNCHANGED lost,
               \/ UNCHANGED exch
               \/ i \in FreeIds /\ Accept(i, hand[p].order, v, "open")
        PROVE  Recovery!Next
    <3>1. Alone(p)
      BY <1>1, <2>4, OnlyOwnState DEF Alone
    <3>2. Holds(p)' /\ hand'[p].order = hand[p].order
      BY <1>1, <2>4 DEF Put, Goto, Holds, ServiceType, Trade
    <3>3. CASE UNCHANGED exch
      <4>1. Calm
        BY <1>1, <3>3, QuietCalls
      <4> QED
        BY <1>1, <2>2, <2>4, <3>1, <3>2, <4>1, OwnGoesOn
    <3>4. CASE i \in FreeIds /\ Accept(i, hand[p].order, v, "open")
      <4>1. Recovery!Books({o})
        BY <1>1, <1>2, <3>4, AcceptBooks
      <4>2. \A q \in Orders : Resting(q)
        BY <2>2, <2>4 DEF Resting, InSeq
      <4>3. UNCHANGED <<Whereabouts, AtWork>>
        BY <1>1, <3>1, <3>2, <4>2, GoesOn
      <4>4. Whereabouts[o] = "held"
        BY <1>1, <1>2, Places DEF Whereabouts
      <4> QED
        BY <2>1, <4>1, <4>3, <4>4, LegOnBooks DEF Recovery!Next, Recovery!Place
    <3> QED
      BY <2>4, <3>3, <3>4
  <2>5. ASSUME Die(p), lost' = lost \cup {hand[p].order},
               \/ UNCHANGED exch
               \/ \E v, st : \E id \in FreeIds : Accept(id, hand[p].order, v, st)
        PROVE  Recovery!Next /\ \A q \in lost' \ lost : PlaceOf(q)' = "lost"
    <3>1. Alone(p) /\ ~ Holds(p)'
      BY <1>1, <2>5, OnlyOwnState, LetGo DEF Alone
    <3>2. Recovery!Books(IF Honest /\ LiveOf(o) # {} THEN {} ELSE {o})
      <4>1. CASE UNCHANGED exch
        BY <1>1, <4>1, QuietCalls, CalmBooks
      <4>2. CASE \E v, st : \E id \in FreeIds : Accept(id, hand[p].order, v, st)
        BY <1>1, <1>2, <2>1, <4>2, AcceptBooks
      <4> QED
        BY <2>5, <4>1, <4>2
    <3>3. Recovery!Next /\ PlaceOf(o)' = "lost"
      BY <1>1, <1>2, <2>2, <2>5, <3>1, <3>2, Loses
    <3> QED
      BY <1>2, <2>5, <3>3
  <2> QED
    BY <1>6, <2>3, <2>4, <2>5 DEF Post
<1> QED
  BY <1>3, <1>4, <1>5, <1>6

LEMMA ExpiredStepRecovers ==
  ASSUME RecoveryInv, OneCustodian', NEW p \in ExpiredWorkers,
         First(p) \/ Claim(p) \/ Query(p) \/ Cancel(p)
  PROVE  Recovery!Next
<1>1. TypeInv /\ TypeOK /\ ExchangeType /\ ServiceType /\ OneCustodian /\ watch \in Seq(Trade)
  BY DEF RecoveryInv, TypeInv, TypeOK, QueuesType
<1>2. p \in Procs /\ p \notin FailedWorkers /\ UNCHANGED <<bot, lost>>
  BY DEF Procs, First, Claim, Query, Cancel, history
<1>3. pc[p] \notin {"poll", "dead"} => hand[p] \in Trade
  BY <1>1, <1>2 DEF ServiceType
<1>4. CASE First(p)
  <2>1. Alone(p) /\ ~ Holds(p) /\ ~ Holds(p)'
    BY <1>1, <1>2, <1>4, OnlyOwnState DEF First, Alone, Put, Goto, Holds, ServiceType
  <2>2. Calm
    BY <1>1, <1>4, QuietCalls DEF First
  <2> QED
    BY <1>2, <1>4, <2>1, <2>2, OwnGoesOn DEF First, queues
<1>5. CASE Claim(p)
  <2>1. Alone(p) /\ ~ Holds(p) /\ hand[p] \in Trade
    BY <1>1, <1>2, <1>3, <1>5, OnlyOwnState DEF Claim, Alone, Holds
  <2>2. Calm
    BY <1>1, <1>5, QuietCalls DEF Claim
  <2>3. CASE Release(p) /\ UNCHANGED queues
    <3>1. ~ Holds(p)'
      BY <1>1, <1>2, <2>3, LetGo
    <3> QED
      BY <1>2, <2>1, <2>2, <2>3, <3>1, OwnGoesOn DEF queues
  <2>4. ASSUME NEW i \in DOMAIN watch, watch[i] = hand[p], watch' = RemoveAt(watch, i),
               Goto(p, "query"), UNCHANGED <<hand, failed>>
        PROVE  Recovery!Next
    <3>1. PICK o \in Orders : o = watch[i].order /\ HeldBy(p, o)'
      BY <1>1, <1>2, <2>1, <2>4 DEF HeldBy, Holds, Goto, ServiceType, Trade
    <3>2. \A q : q # o => (InSeq(watch', q) <=> InSeq(watch, q))
      BY <1>1, <2>4, <3>1, RemoveAtLeaves, RemoveAtOrders DEF OneCustodian
    <3>3. \A q \in Orders \ {o} : Resting(q)
      BY <1>2, <2>4, <3>2 DEF Resting, InSeq
    <3>4. InSeq(watch, o)
      BY <2>4, <3>1 DEF InSeq
    <3>5. Recovery!Take(p, o)
      BY <1>1, <1>2, <2>1, <2>2, <3>1, <3>3, <3>4, CalmBooks, Takes
    <3> QED
      BY <1>2, <3>5 DEF Recovery!Next, Recovery!Procs, Procs
  <2> QED
    BY <1>5, <2>3, <2>4 DEF Claim
<1>6. CASE Query(p)
  <2>1. Holds(p) /\ hand[p] \in Trade /\ Calm
    BY <1>1, <1>3, <1>6, QuietCalls DEF Query, Holds
  <2>2. CASE Requeue(p) /\ Release(p)
    BY <1>1, <1>2, <2>1, <2>2, GivesBack
  <2>3. CASE OpenOrders = {} /\ Release(p) /\ UNCHANGED queues
    <3>1. Alone(p) /\ ~ Holds(p)'
      BY <1>1, <1>2, <2>3, OnlyOwnState, LetGo DEF Alone
    <3>2. PICK o \in Orders : HeldBy(p, o)
      BY <2>1 DEF HeldBy, Trade
    <3>3. LiveOf(o) = {}
      BY <2>3 DEF LiveOf
    <3> QED
      BY <1>2, <2>1, <2>3, <3>1, <3>2, <3>3, Drops DEF queues
  <2>4. CASE Put(p, [hand[p] EXCEPT !.vol = VolumeLeft(hand[p])], "cancel") /\ UNCHANGED queues
    <3>1. Alone(p)
      BY <1>1, <1>2, <2>4, OnlyOwnState DEF Alone
    <3>2. Holds(p)' /\ hand'[p].order = hand[p].order
      BY <1>1, <1>2, <2>1, <2>4 DEF Put, Goto, Holds, ServiceType, Trade
    <3> QED
      BY <1>2, <2>1, <2>4, <3>1, <3>2, OwnGoesOn DEF queues
  <2> QED
    BY <1>6, <2>2, <2>3, <2>4 DEF Query
<1>7. CASE Cancel(p)
  <2>1. Holds(p) /\ hand[p] \in Trade
    BY <1>1, <1>3, <1>7 DEF Cancel, Holds
  <2>2. Calm
    BY <1>1, <1>7, QuietCalls DEF Cancel
  <2>3. CASE Requeue(p) /\ Release(p)
    BY <1>1, <1>2, <2>1, <2>2, <2>3, GivesBack
  <2>4. CASE Goto(p, "market") /\ UNCHANGED <<queues, hand>>
    <3>1. Alone(p) /\ Holds(p)'
      BY <1>1, <1>2, <2>4, OnlyOwnState DEF Alone, Goto, Holds, ServiceType
    <3> QED
      BY <1>2, <2>1, <2>2, <2>4, <3>1, OwnGoesOn DEF queues
  <2> QED
    BY <1>7, <2>3, <2>4 DEF Cancel
<1> QED
  BY <1>4, <1>5, <1>6, <1>7

LEMMA FailedStepRecovers ==
  ASSUME RecoveryInv, OneCustodian', NEW p \in FailedWorkers,
         Pop(p) \/ SearchOpen(p) \/ SearchHistory(p)
  PROVE  Recovery!Next
<1>1. TypeInv /\ TypeOK /\ ExchangeType /\ ServiceType /\ OneCustodian /\ failed \in Seq(Trade)
  BY DEF RecoveryInv, TypeInv, TypeOK, QueuesType
<1>2. p \in Procs /\ UNCHANGED <<bot, watch, lost>>
  BY DEF Procs, Pop, SearchOpen, SearchHistory, queues, history
<1>3. Calm
  BY <1>1, QuietCalls DEF Pop, SearchOpen, SearchHistory
<1>4. CASE Pop(p)
  <2>1. Alone(p) /\ ~ Holds(p)
    BY <1>1, <1>2, <1>4, OnlyOwnState DEF Pop, Alone, Holds
  <2>2. PICK t : t = Head(failed)
    OBVIOUS
  <2>3. /\ t \in Trade /\ InSeq(failed, t.order)
        /\ failed # <<>> /\ failed' = Tail(failed)
    BY <1>1, <1>4, <2>2, TailOrders DEF Pop
  <2>4. PICK o \in Orders : o = t.order /\ HeldBy(p, o)'
    BY <1>1, <1>2, <1>4, <2>2, <2>3 DEF Pop, Put, Goto, HeldBy, Holds, ServiceType, Trade
  <2>5. \A q : q # o => (InSeq(failed', q) <=> InSeq(failed, q))
    BY <1>1, <2>2, <2>3, <2>4, TailOrders, TailLeaves
  <2>6. \A q \in Orders \ {o} : Resting(q)
    BY <1>2, <2>5 DEF Resting, InSeq
  <2>7. Recovery!Take(p, o)
    BY <1>1, <1>2, <1>3, <2>1, <2>3, <2>4, <2>6, CalmBooks, Takes
  <2> QED
    BY <1>2, <2>7 DEF Recovery!Next, Recovery!Procs, Procs
<1>5. CASE SearchOpen(p) \/ SearchHistory(p)
  <2>1. Holds(p) /\ hand[p] \in Trade /\ UNCHANGED failed
    BY <1>1, <1>2, <1>5 DEF SearchOpen, SearchHistory, Holds, ServiceType, queues
  <2>2. PICK o \in Orders : HeldBy(p, o)
    BY <2>1 DEF HeldBy, Trade
  <2>3. CASE Release(p) /\ SearchHistory(p)
    <3>1. Alone(p) /\ ~ Holds(p)'
      BY <1>1, <1>2, <2>3, OnlyOwnState, LetGo DEF Alone
    <3>2. Honest => LiveOf(o) = {}
      BY <1>2, <2>2, <2>3, FreeToPlace DEF SearchHistory
    <3> QED
      BY <1>2, <1>3, <2>1, <2>2, <3>1, <3>2, Drops
  <2>4. CASE (Goto(p, "history") \/ Goto(p, "market")) /\ UNCHANGED hand
    <3>1. Alone(p) /\ Holds(p)'
      BY <1>1, <1>2, <2>4, OnlyOwnState DEF Alone, Goto, Holds, ServiceType
    <3> QED
      BY <1>2, <1>3, <2>1, <2>4, <3>1, OwnGoesOn
  <2>5. ASSUME NEW id, Put(p, [hand[p] EXCEPT !.oid = id], "watch")
        PROVE  Recovery!Next
    <3>1. Alone(p)
      BY <1>1, <1>2, <2>5, OnlyOwnState DEF Alone
    <3>2. Holds(p)' /\ hand'[p].order = hand[p].order
      BY <1>1, <1>2, <2>1, <2>5 DEF Put, Goto, Holds, ServiceType, Trade
    <3> QED
      BY <1>2, <1>3, <2>1, <3>1, <3>2, OwnGoesOn
  <2> QED
    BY <1>5, <2>3, <2>4, <2>5 DEF SearchOpen, SearchHistory
<1> QED
  BY <1>4, <1>5

LEMMA FaultRecovers ==
  ASSUME RecoveryInv, OneCustodian', NEW p \in Procs, Crash(p) \/ Restart(p)
  PROVE  /\ Recovery!Next
         /\ \A o \in lost' \ lost : PlaceOf(o)' = "lost"
<1>1. TypeInv /\ ExchangeType /\ ServiceType /\ OneCustodian
  BY DEF RecoveryInv, TypeInv, TypeOK
<1>2. UNCHANGED <<exch, bot, watch, failed>> /\ Calm
  BY <1>1, QuietCalls DEF Crash, Restart, queues
<1>3. Alone(p) /\ ~ Holds(p)'
  BY <1>1, OnlyOwnState, LetGo DEF Crash, Restart, Alone, Goto, Holds, ServiceType
<1>4. CASE Crash(p) /\ Holds(p)
  <2>1. hand[p] \in Trade
    BY <1>1, <1>4 DEF Holds, ServiceType
  <2>2. PICK o \in Orders : o = hand[p].order /\ HeldBy(p, o)
    BY <1>4, <2>1 DEF HeldBy, Trade
  <2>3. lost' = lost \cup {o}
    BY <1>4, <2>2 DEF Crash
  <2>4. Recovery!Next /\ PlaceOf(o)' = "lost"
    BY <1>1, <1>2, <1>3, <2>2, <2>3, CalmBooks, Loses
  <2> QED
    BY <2>3, <2>4
<1>5. CASE ~ Holds(p)
  <2>1. UNCHANGED lost
    BY <1>5 DEF Crash, Restart, history
  <2> QED
    BY <1>2, <1>3, <1>5, <2>1, OwnGoesOn
<1>6. CASE Restart(p) /\ Holds(p)
  BY <1>6 DEF Restart, Holds
<1> QED
  BY <1>4, <1>5, <1>6

LEMMA StepRecovers ==
  ASSUME RecoveryInv, OneCustodian', [Next]_vars
  PROVE  /\ [Recovery!Next]_(<<Whereabouts, AtWork, OnTheBooks>>)
         /\ \A o \in lost' \ lost : PlaceOf(o)' = "lost"
<1>1. TypeInv /\ ExchangeType
  BY DEF RecoveryInv, TypeInv, TypeOK
<1>2. ASSUME NEW o \in Orders, BotStep(o)
      PROVE  Recovery!Next /\ UNCHANGED lost
  <2>1. UNCHANGED lost
    BY <1>2 DEF BotStep, BotPost, BotHandOver, BotRecord, BotCrash, history
  <2> QED
    BY <1>2, <2>1, BotStepRecovers
<1>3. ASSUME NEW p \in ExpiredWorkers, First(p) \/ Claim(p) \/ Query(p) \/ Cancel(p)
      PROVE  Recovery!Next /\ UNCHANGED lost
  <2>1. UNCHANGED lost
    BY <1>3 DEF First, Claim, Query, Cancel, history
  <2> QED
    BY <1>3, <2>1, ExpiredStepRecovers
<1>4. ASSUME NEW p \in FailedWorkers, Pop(p) \/ SearchOpen(p) \/ SearchHistory(p)
      PROVE  Recovery!Next /\ UNCHANGED lost
  <2>1. UNCHANGED lost
    BY <1>4 DEF Pop, SearchOpen, SearchHistory, history
  <2> QED
    BY <1>4, <2>1, FailedStepRecovers
<1>5. ASSUME NEW id \in Ids, Fill(id) \/ Arrive(id)
      PROVE  Recovery!Next /\ UNCHANGED lost
  <2>1. UNCHANGED <<bot, watch, failed, pc, hand, lost>>
    BY <1>5 DEF Fill, Arrive, Internal, queues, service, history
  <2>2. UNCHANGED <<Whereabouts, AtWork>>
    BY <2>1 DEF Whereabouts, PlaceOf, AtWork, Queued, InSeq, HeldBy, Holds
  <2>3. CASE Fill(id)
    BY <1>1, <2>1, <2>2, <2>3, QuietCalls, OnlyTrades
  <2>4. CASE Arrive(id)
    <3>1. PICK o \in Orders : o = exch[id].owner
      BY <2>4 DEF Arrive, RecoveryInv, Owned
    <3>2. exch'[id].owner = o /\ \A i \in Ids \ {id} : exch'[i] = exch[i]
      BY <1>1, <2>4, <3>1 DEF Arrive, ExchangeType
    <3>3. ~ Honest
      BY <2>4 DEF Arrive, RecoveryInv, HonestInv, Prompt
    <3> QED
      BY <2>1, <2>2, <3>2, <3>3, NewBooks DEF Recovery!Next, Recovery!Place
  <2> QED
    BY <1>5, <2>3, <2>4
<1>6. CASE UNCHANGED vars
  <2>1. UNCHANGED <<Whereabouts, AtWork, OnTheBooks>>
    BY <1>6 DEF vars, Whereabouts, PlaceOf, AtWork, OnTheBooks, Queued, InSeq, HeldBy, Holds,
                OpenOrders, Live
  <2> QED
    BY <1>6, <2>1 DEF vars
<1> QED
  BY <1>2, <1>3, <1>4, <1>5, <1>6, PlacementRecovers, FaultRecovers
  DEF Next, ExpiredStep, FailedStep, Procs

\* What is lost is not found again: no move of the promise starts there.
LEMMA StaysLost ==
  ASSUME RecoveryInv, TypeInv', [Recovery!Next]_(<<Whereabouts, AtWork, OnTheBooks>>),
         \A o \in lost' \ lost : PlaceOf(o)' = "lost"
  PROVE  LostGone'
<1> SUFFICES ASSUME NEW o \in lost', o \in lost
             PROVE  PlaceOf(o)' = "lost"
  BY DEF LostGone
<1>1. o \in Orders /\ Whereabouts[o] = "lost"
  BY DEF RecoveryInv, LostGone, TypeInv, TypeOK, Whereabouts
<1>2. Whereabouts'[o] = "lost"
  <2>1. ASSUME NEW q \in Orders, NEW to, Recovery!Go(q, to), Whereabouts[q] # "lost"
        PROVE  Whereabouts'[o] = "lost"
    BY <1>1, <2>1 DEF Recovery!Go, Whereabouts
  <2> QED
    BY <1>1, <2>1 DEF Recovery!Next, Recovery!Trades, Recovery!Place, Recovery!HandOver,
                      Recovery!Take, Recovery!Lets, Recovery!PutBack, Recovery!Drop, Recovery!Lose
<1> QED
  BY <1>1, <1>2 DEF Whereabouts

LEMMA StaysOwned ==
  ASSUME TypeInv, Owned, [Next]_vars
  PROVE  Owned'
<1>1. ExchangeType
  BY DEF TypeInv, TypeOK
<1>2. CASE UNCHANGED exch
  BY <1>2 DEF Owned
<1>3. ASSUME NEW id \in FreeIds, NEW o \in Orders, NEW v, NEW st, Accept(id, o, v, st)
      PROVE  Owned'
  BY <1>1, <1>3 DEF Owned, ExchangeType, FreeIds, Accept
<1>4. ASSUME NEW id \in OpenOrders, CancelAt(id)
      PROVE  Owned'
  BY <1>1, <1>4 DEF Owned, ExchangeType, OpenOrders, CancelAt, Live
<1>5. ASSUME NEW id \in Ids, Fill(id) \/ Arrive(id)
      PROVE  Owned'
  <2>1. CASE Fill(id)
    BY <1>1, <2>1 DEF Owned, ExchangeType, Fill, Live
  <2>2. CASE Arrive(id)
    BY <1>1, <2>2 DEF Owned, ExchangeType, Arrive
  <2> QED
    BY <1>5, <2>1, <2>2
<1>6. ASSUME NEW o \in Orders, BotStep(o)
      PROVE  Owned'
  BY <1>2, <1>3, <1>6, CallsOfBot
<1>7. ASSUME NEW p \in Procs,
             \/ p \in ExpiredWorkers /\ ExpiredStep(p)
             \/ p \in FailedWorkers /\ FailedStep(p)
             \/ Crash(p) \/ Restart(p)
      PROVE  Owned'
  <2>1. hand[p] \in Trade => hand[p].order \in Orders
    BY DEF Trade
  <2> QED
    BY <1>2, <1>3, <1>4, <1>7, <2>1, CallsOfService
<1> QED
  BY <1>2, <1>5, <1>6, <1>7 DEF Next, vars, Procs

LEMMA StepKeepsRecovery ==
  ASSUME RecoveryInv, [Next]_vars
  PROVE  RecoveryInv' /\ [Recovery!Next]_(<<Whereabouts, AtWork, OnTheBooks>>)
<1>1. TypeInv' /\ OneCustodian' /\ Owned'
  BY StepType, StepCustody, StaysOwned DEF RecoveryInv
<1>2. [Recovery!Next]_(<<Whereabouts, AtWork, OnTheBooks>>) /\ LostGone'
  BY <1>1, StepRecovers, StaysLost
<1>3. Honest => HonestInv'
  BY StepKnows DEF RecoveryInv
<1>4. Honest' <=> Honest
  BY DEF Honest
<1> QED
  BY <1>1, <1>2, <1>3, <1>4 DEF RecoveryInv

LEMMA RecoveryStarts == Init => RecoveryInv /\ Recovery!Init
<1> SUFFICES ASSUME Init
             PROVE  RecoveryInv /\ Recovery!Init
  OBVIOUS
<1>1. OneCustodian /\ LostGone /\ Owned
  BY DEF Init, OneCustodian, LostGone, Owned, Queued, InSeq, Distinct, HeldBy, Holds, Unused
<1>2. \A o \in Orders : PlaceOf(o) = "bot"
  BY <1>1, Places DEF Init
<1>3. AtWork = [p \in Procs |-> NoOrder]
  BY DEF Init, AtWork, Holds
<1>4. OnTheBooks = {}
  BY DEF Init, OnTheBooks, OpenOrders, Live, Unused
<1> QED
  BY <1>1, <1>2, <1>3, <1>4, InitType, InitKnows
  DEF RecoveryInv, Recovery!Init, Recovery!Procs, Procs, Whereabouts

\* The bots and both services implement OrderRecovery, whatever the exchange does and
\* whoever dies: a leg is handed over once, taken by one process at a time, goes
\* from the failed orders to the watch list and never back, and does not come
\* back when it was dropped; and where the exchange can be believed it is dropped,
\* and gets an order, only when none of its orders is on the books.
THEOREM RecoveryKept == Safe => Recovers
<1>1. Init => RecoveryInv /\ Recovery!Init
  BY RecoveryStarts
<1>2. RecoveryInv /\ [Next]_vars
        => RecoveryInv' /\ [Recovery!Next]_(<<Whereabouts, AtWork, OnTheBooks>>)
  BY StepKeepsRecovery
<1> QED
  BY <1>1, <1>2, PTL DEF Safe, Recovers, Recovery!Spec
=============================================================================
