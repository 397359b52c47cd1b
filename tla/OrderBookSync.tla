---------------------------- MODULE OrderBookSync ----------------------------
(***************************************************************************)
(* services/arbitrage_between_pair_subscription.py: one process keeps a    *)
(* local copy of the order book of two exchanges. Its main thread resets   *)
(* and supervises; a subscription thread for each exchange receives events *)
(* and runs on_order_book_update; after a reset a thread for each exchange *)
(* gets the book to start from and catches up with the events queued.      *)
(*                                                                         *)
(* An exchange's book is the number of updates made to it. A local copy is *)
(* the pair of the number it believes to be at (sequence_id) and of the    *)
(* number whose price levels it really has.                                *)
(***************************************************************************)
EXTENDS Integers, Sequences, FiniteSets

CONSTANTS
  Configs,      \* the pairs of exchanges that processes are started with
  MaxVersion,   \* bound on the updates an exchange makes to its book
  MaxResets,    \* bound on the resets of the process
  Slow,         \* threads may take longer than the pauses the main thread makes
  None          \* sequence_id = None, or no message

Sides == {"buy", "sell"}
Other(s) == IF s = "buy" THEN "sell" ELSE "buy"
Kinds == {"binance", "bittrex", "poloniex", "huobi"}

ASSUME SyncAssumption ==
  /\ Configs \subseteq [Sides -> Kinds]
  /\ MaxVersion \in Nat \ {0}
  /\ MaxResets \in Nat
  /\ Slow \in BOOLEAN
  /\ None \notin Int

\* The subscription threads of a side. A second one is only there while the
\* first has outlived a reset; no more than two at a time are considered.
Threads == Sides \X {1, 2}

VARIABLES
  kind,      \* the exchange of each side (cfg.buy_exchange_id, cfg.sell_exchange_id)
  version,   \* the exchange: how many updates were made to its book
  wire,      \* the exchange: events sent on the open connection
  open,      \* whether the subscription's connection (self.ws) is open
  running,   \* should_run of each subscription
  thread,    \* subscription threads: what each does, and its local variables
  main,      \* what the main thread is about to do
  stage,     \* sync_stage.py, SYNC_STAGE
  book,      \* order_book_buy, order_book_sell
  synced,    \* buy_order_book_synced, sell_order_book_synced
  queue,     \* buy_exchange_updates, sell_exchange_updates
  sync,      \* the threads sync_buy_order_book, sync_sell_order_book
  resets,    \* how many resets were made
  gaps,      \* history: sides where an update found a gap in the sequence
  dead       \* die_hard was called

exchange == <<version, wire>>
vars == <<kind, version, wire, open, running, thread, main, stage, book, synced,
          queue, sync, resets, gaps, dead>>

\* A delta carries the updates first .. last; a full book is one up to last.
Event == [full : BOOLEAN, first : 1 .. MaxVersion, last : 0 .. MaxVersion]
Corrupt == -1
Empty == [seq |-> None, upto |-> 0]
Idle == [pc |-> "idle", event |-> None, stage |-> "unknown"]

HasSnapshot(s) == kind[s] \in {"binance", "bittrex"}
BothRunning == \A s \in Sides : running[s]
NoneRunning == \A s \in Sides : ~ running[s]

-----------------------------------------------------------------------------
(***************************************************************************)
(* data/order_book.py, update_for_*.                                       *)
(***************************************************************************)

\* The levels of a delta are right on top of the update right before it.
Levels(b, e) == IF b.upto = e.first - 1 THEN e.last ELSE Corrupt

\* Mutant: an event is applied whatever lies between it and the book.
FitsLoosely(b, e) == ~ e.full /\ b.seq # None /\ b.seq < e.first

Fits(b, e) == ~ e.full /\ b.seq # None /\ b.seq + 1 = e.first
Gap(b, e) == ~ e.full /\ b.seq # None /\ b.seq + 1 < e.first
\* None + 1: the update raises a TypeError.
Raises(b, e) == ~ e.full /\ b.seq = None

\* Mutant: sequence_id counts the updates received, outdated ones too.
Counted(b, e) ==
  IF e.full THEN [seq |-> e.last, upto |-> e.last]
  ELSE IF b.seq = None THEN b ELSE [seq |-> b.seq + 1, upto |-> Levels(b, e)]

Updated(b, e) ==
  IF e.full THEN [seq |-> e.last, upto |-> e.last]
  ELSE IF Fits(b, e) THEN [seq |-> e.last, upto |-> Levels(b, e)]
  ELSE b

-----------------------------------------------------------------------------
(***************************************************************************)
(* The exchanges. A Binance event carries a range of updates, a Huobi      *)
(* event the whole book.                                                   *)
(***************************************************************************)
Trade(s) ==
  \E n \in version[s] + 1 .. MaxVersion :
    /\ n = version[s] + 1 \/ kind[s] = "binance"
    /\ version' = [version EXCEPT ![s] = n]
    /\ wire' = IF open[s]
         THEN [wire EXCEPT ![s] = Append(@,
                [full |-> kind[s] = "huobi", first |-> version[s] + 1, last |-> n])]
         ELSE wire
    /\ UNCHANGED <<kind, open, running, thread, main, stage, book, synced, queue,
                   sync, resets, gaps, dead>>

-----------------------------------------------------------------------------
(***************************************************************************)
(* The subscription threads (binance/socket_api.py; the other exchanges'   *)
(* have the same shape). t = <<s, i>> runs SubscriptionX.subscribe of      *)
(* side s.                                                                 *)
(***************************************************************************)
At(t, pc) == thread[t].pc = pc
Goto(t, pc) == thread' = [thread EXCEPT ![t].pc = pc]

\* A thread that is there, and is not the Bittrex loop between two of its polls of a
\* subscription that has stopped.
Busy(t) == thread[t].pc \notin {"idle", "asleep"}
Asleep == [Idle EXCEPT !.pc = "asleep"]

\* disconnect() of the subscriptions of the sides D.
Disconnect(D) ==
  /\ running' = [s \in Sides |-> running[s] /\ s \notin D]
  /\ open' = [s \in Sides |-> open[s] /\ s \notin D]
  /\ wire' = [s \in Sides |-> IF s \in D THEN <<>> ELSE wire[s]]

connection == <<running, open, wire>>
local == <<book, synced, queue>>
supervision == <<main, stage, sync, resets>>

\* subscribe: a subscription that is running already is fatal.
Subscribe(t) ==
  /\ At(t, "start")
  /\ IF running[t[1]]
       THEN dead' = TRUE /\ UNCHANGED <<running, thread>>
       ELSE /\ running' = [running EXCEPT ![t[1]] = TRUE]
            /\ Goto(t, "connect")
            /\ UNCHANGED dead
  /\ UNCHANGED <<kind, version, wire, open, local, supervision, gaps>>

\* create_connection. Poloniex sends its whole book first.
Connect(t) ==
  /\ At(t, "connect")
  /\ \/ /\ open' = [open EXCEPT ![t[1]] = TRUE]
        /\ wire' = [wire EXCEPT ![t[1]] =
             IF kind[t[1]] = "poloniex"
               THEN <<[full |-> TRUE, first |-> 1, last |-> version[t[1]]]>> ELSE <<>>]
        /\ Goto(t, "read")
        /\ UNCHANGED running
     \/ /\ Disconnect({t[1]})
        /\ thread' = [thread EXCEPT ![t] = Idle]
  /\ UNCHANGED <<kind, version, local, supervision, gaps, dead>>

\* No more events come: should_run was cleared, or the connection was closed. The
\* loop of Bittrex' thread looks only once a second.
Stop(t) ==
  /\ At(t, "read")
  /\ ~ running[t[1]] \/ ~ open[t[1]]
  /\ IF kind[t[1]] = "bittrex"
       THEN thread' = [thread EXCEPT ![t] = Asleep] ELSE Goto(t, "leave")
  /\ UNCHANGED <<kind, version, connection, local, supervision, gaps, dead>>

\* The loop of Bittrex' thread ends, with whatever connection there is by now.
End(t) ==
  /\ At(t, "asleep")
  /\ Disconnect({t[1]})
  /\ thread' = [thread EXCEPT ![t] = Idle]
  /\ UNCHANGED <<kind, version, local, supervision, gaps, dead>>

\* It ends when it looks, unless a new subscription runs: then it polls for that one.
Wake(t) == (~ running[t[1]] \/ ~ open[t[1]]) /\ End(t)

\* recv, or Bittrex' invoke, raises an exception: the connection broke, or no message
\* came in time.
Fail(t) ==
  \/ /\ At(t, "read")
     /\ running[t[1]] /\ open[t[1]]
     /\ Goto(t, "leave")
     /\ UNCHANGED <<kind, version, connection, local, supervision, gaps, dead>>
  \/ End(t)

\* recv, and on_order_book_update up to its branches: the stage is read, and
\* if either subscription has stopped, both are shut down.
Receive(t) ==
  /\ At(t, "read")
  /\ running[t[1]]
  /\ wire[t[1]] # <<>>
  /\ IF BothRunning
       THEN /\ thread' = [thread EXCEPT ![t] =
                 [pc |-> "called", event |-> Head(wire[t[1]]), stage |-> stage]]
            /\ wire' = [wire EXCEPT ![t[1]] = Tail(@)]
            /\ UNCHANGED <<running, open>>
       ELSE Disconnect(Sides) /\ UNCHANGED thread
  /\ UNCHANGED <<kind, version, local, supervision, gaps, dead>>

\* The branches: an event is queued while its book is being synchronised, and
\* dropped while the process resets.
Branch(t) ==
  /\ At(t, "called")
  /\ LET before == thread[t].stage = "before"
         after == thread[t].stage = "after"
     IN  \/ before /\ ~ synced[t[1]] /\ Goto(t, "put")
         \/ (after \/ (before /\ synced[t[1]])) /\ Goto(t, "update")
         \/ ~ before /\ ~ after /\ Goto(t, "read")
  /\ UNCHANGED <<kind, version, connection, local, supervision, gaps, dead>>

Put(t) ==
  /\ At(t, "put")
  /\ queue' = [queue EXCEPT ![t[1]] = Append(@, thread[t].event)]
  /\ Goto(t, "read")
  /\ UNCHANGED <<kind, version, connection, book, synced, supervision, gaps, dead>>

\* order_book_X.update; what it raises ends the event loop.
Update(t) ==
  /\ At(t, "update")
  /\ LET b == book[t[1]]
         e == thread[t].event
     IN  /\ book' = [book EXCEPT ![t[1]] = Updated(b, e)]
         /\ IF Gap(b, e)
              THEN /\ Disconnect(Sides)
                   /\ gaps' = gaps \cup {t[1]}
                   /\ Goto(t, "read")
              ELSE /\ UNCHANGED <<connection, gaps>>
                   /\ Goto(t, IF Raises(b, e) THEN "leave"
                              ELSE IF thread[t].stage = "after" THEN "decide" ELSE "read")
  /\ UNCHANGED <<kind, version, synced, queue, supervision, dead>>

\* The rest of on_order_book_update: the two books are compared.
Decide(t) ==
  /\ At(t, "decide")
  /\ Goto(t, "read")
  /\ UNCHANGED <<kind, version, connection, local, supervision, gaps, dead>>

\* Mutant: a thread ends and leaves should_run set.
LeaveRunning(t) ==
  /\ At(t, "leave")
  /\ thread' = [thread EXCEPT ![t] = Idle]
  /\ UNCHANGED <<kind, version, connection, local, supervision, gaps, dead>>

\* After the event loop: disconnect.
Leave(t) ==
  /\ At(t, "leave")
  /\ Disconnect({t[1]})
  /\ thread' = [thread EXCEPT ![t] = Idle]
  /\ UNCHANGED <<kind, version, local, supervision, gaps, dead>>

SubscriptionStep(t) ==
  \/ Subscribe(t) \/ Connect(t) \/ Stop(t) \/ Wake(t) \/ Receive(t) \/ Branch(t)
  \/ Put(t) \/ Update(t) \/ Decide(t) \/ Leave(t)

-----------------------------------------------------------------------------
(***************************************************************************)
(* sync_buy_order_book, sync_sell_order_book.                              *)
(***************************************************************************)
Synced(s, ok) ==
  /\ synced' = [synced EXCEPT ![s] = ok]
  /\ sync' = [sync EXCEPT ![s] = "done"]

\* get_order_book may fail, or give a book that is a little old. For the
\* exchanges that send their book the thread has nothing to do.
Fetch(s) ==
  /\ sync[s] = "fetch"
  /\ \/ /\ HasSnapshot(s)
        /\ \E v \in {version[s], version[s] - 1} \cap Nat :
             book' = [book EXCEPT ![s] = [seq |-> v, upto |-> v]]
        /\ sync' = [sync EXCEPT ![s] = "drain"]
        /\ UNCHANGED synced
     \/ /\ HasSnapshot(s)
        /\ book' = [book EXCEPT ![s] = Empty]
        /\ sync' = [sync EXCEPT ![s] = "done"]
        /\ UNCHANGED synced
     \/ /\ ~ HasSnapshot(s)
        /\ Synced(s, TRUE)
        /\ UNCHANGED book
  /\ UNCHANGED <<kind, version, connection, thread, main, stage, queue, resets, gaps, dead>>

\* update_from_queue, one round of its loop.
Drain(s) ==
  /\ sync[s] = "drain"
  /\ \/ /\ ~ BothRunning
        /\ Synced(s, FALSE)
        /\ UNCHANGED <<book, queue, gaps>>
     \/ /\ BothRunning
        /\ queue[s] = <<>>
        /\ Synced(s, TRUE)
        /\ UNCHANGED <<book, queue, gaps>>
     \/ /\ BothRunning
        /\ queue[s] # <<>>
        /\ queue' = [queue EXCEPT ![s] = Tail(@)]
        /\ book' = [book EXCEPT ![s] = Updated(@, Head(queue[s]))]
        /\ IF Gap(book[s], Head(queue[s]))
             THEN Synced(s, FALSE) /\ gaps' = gaps \cup {s}
             ELSE UNCHANGED <<synced, sync, gaps>>
  /\ UNCHANGED <<kind, version, connection, thread, main, stage, resets, dead>>

-----------------------------------------------------------------------------
(***************************************************************************)
(* The main thread: start and reset_arbitrage_state.                       *)
(***************************************************************************)
MainAt(pc) == main = pc
MainGoto(pc) == main' = pc
Subscriptions == <<kind, version, connection, thread, gaps, dead>>

\* Mutant: a thread that is about to update a book is not waited for.
ClearDuringUpdate ==
  /\ MainAt("pause")
  /\ resets < MaxResets
  /\ Slow \/ \A t \in Threads : ~ Busy(t) \/ At(t, "update")
  /\ resets' = resets + 1
  /\ stage' = "resetting"
  /\ queue' = [s \in Sides |-> <<>>]
  /\ MainGoto("init")
  /\ UNCHANGED <<Subscriptions, book, synced, sync>>

\* sleep_for(local_timeout), RESETTING, and both queues are emptied. Unless threads are
\* slow, those of the subscriptions have begun by now and, being stopped, have ended,
\* Bittrex' loop excepted, which sleeps as long as this pause. Nothing ensures that.
Clear ==
  /\ MainAt("pause")
  /\ resets < MaxResets
  /\ Slow \/ \A t \in Threads : ~ Busy(t)
  /\ resets' = resets + 1
  /\ stage' = "resetting"
  /\ queue' = [s \in Sides |-> <<>>]
  /\ MainGoto("init")
  /\ UNCHANGED <<Subscriptions, book, synced, sync>>

\* _init_arbitrage_state
InitState ==
  /\ MainAt("init")
  /\ book' = [s \in Sides |-> Empty]
  /\ synced' = [s \in Sides |-> FALSE]
  /\ stage' = "before"
  /\ MainGoto("subscribe")
  /\ UNCHANGED <<Subscriptions, queue, sync, resets>>

\* subscribe_to_order_book_update: a new thread for each side. (A behaviour in
\* which three threads of a side would be alive is not followed further.)
SubscribeBoth ==
  /\ MainAt("subscribe")
  /\ \E f \in [Sides -> {1, 2}] :
       /\ \A s \in Sides : At(<<s, f[s]>>, "idle") /\ (f[s] = 2 => ~ At(<<s, 1>>, "idle"))
       /\ thread' = [t \in Threads |->
            IF t[2] = f[t[1]] THEN [Idle EXCEPT !.pc = "start"] ELSE thread[t]]
  /\ MainGoto("sync")
  /\ UNCHANGED <<kind, version, connection, gaps, dead, local, stage, sync, resets>>

\* sync_order_books, first half: the subscriptions may not even have begun.
StartSync ==
  /\ MainAt("sync")
  /\ sync' = [s \in Sides |-> "fetch"]
  /\ MainGoto("join")
  /\ UNCHANGED <<Subscriptions, local, stage, resets>>

\* Mutant: what the threads report is not looked at.
JoinUnchecked ==
  /\ MainAt("join")
  /\ \A s \in Sides : sync[s] = "done"
  /\ sync' = [s \in Sides |-> "idle"]
  /\ stage' = "after"
  /\ MainGoto("check")
  /\ UNCHANGED <<Subscriptions, local, resets>>

\* sync_order_books, second half: both threads are waited for.
Join ==
  /\ MainAt("join")
  /\ \A s \in Sides : sync[s] = "done"
  /\ sync' = [s \in Sides |-> "idle"]
  /\ stage' = IF \A s \in Sides : synced[s] THEN "after" ELSE stage
  /\ MainGoto("check")
  /\ UNCHANGED <<Subscriptions, local, resets>>

Check ==
  /\ MainAt("check")
  /\ IF stage = "after"
       THEN MainGoto("watch") /\ UNCHANGED connection
       ELSE MainGoto("hold") /\ Disconnect(Sides)
  /\ UNCHANGED <<kind, version, thread, gaps, dead, local, stage, sync, resets>>

\* start: one subscription that does not run any more calls for a reset, once
\* the other has stopped too.
NoticeStop ==
  /\ MainAt("watch")
  /\ ~ BothRunning
  /\ MainGoto("hold")
  /\ UNCHANGED <<Subscriptions, local, stage, sync, resets>>

\* Both subscriptions have stopped: the reset may be made.
Hold ==
  /\ MainAt("hold")
  /\ NoneRunning
  /\ MainGoto("pause")
  /\ UNCHANGED <<Subscriptions, local, stage, sync, resets>>

MainStep ==
  \/ Clear \/ InitState \/ SubscribeBoth \/ StartSync \/ Join
  \/ Check \/ NoticeStop \/ Hold

-----------------------------------------------------------------------------
Init ==
  /\ kind \in Configs
  /\ version = [s \in Sides |-> 0]
  /\ wire = [s \in Sides |-> <<>>]
  /\ open = [s \in Sides |-> FALSE]
  /\ running = [s \in Sides |-> FALSE]
  /\ thread = [t \in Threads |-> Idle]
  /\ main = "pause"
  /\ stage = "unknown"
  /\ book = [s \in Sides |-> Empty]
  /\ synced = [s \in Sides |-> FALSE]
  /\ queue = [s \in Sides |-> <<>>]
  /\ sync = [s \in Sides |-> "idle"]
  /\ resets = 0
  /\ gaps = {}
  /\ dead = FALSE

Next ==
  /\ ~ dead
  /\ \/ \E s \in Sides : Trade(s) \/ Fetch(s) \/ Drain(s)
     \/ \E t \in Threads : SubscriptionStep(t) \/ Fail(t)
     \/ MainStep

Safe == Init /\ [][Next]_vars

\* Every thread goes on. Of the recv calls only Binance's is sure to time out
\* when nothing happens at the exchange: the others' keep-alive messages, which
\* on_public drops, end the wait for it.
TimesOut(t) == kind[t[1]] = "binance" /\ Fail(t)
Spec ==
  /\ Safe
  /\ WF_vars(~ dead /\ MainStep)
  /\ \A s \in Sides : WF_vars(~ dead /\ (Fetch(s) \/ Drain(s)))
  /\ \A t \in Threads : WF_vars(~ dead /\ SubscriptionStep(t)) /\ WF_vars(~ dead /\ TimesOut(t))

-----------------------------------------------------------------------------
Version == 0 .. MaxVersion

\* Every variable has its type.
TypeOK ==
  /\ kind \in Configs
  /\ version \in [Sides -> Version]
  /\ wire \in [Sides -> Seq(Event)]
  /\ open \in [Sides -> BOOLEAN]
  /\ running \in [Sides -> BOOLEAN]
  /\ thread \in [Threads ->
       [pc : {"idle", "start", "connect", "read", "asleep", "called", "put", "update",
              "decide", "leave"},
        event : Event \cup {None}, stage : {"unknown", "resetting", "before", "after"}]]
  /\ main \in {"pause", "init", "subscribe", "sync", "join", "check", "watch", "hold"}
  /\ stage \in {"unknown", "resetting", "before", "after"}
  /\ book \in [Sides -> [seq : Version \cup {None}, upto : Version \cup {Corrupt}]]
  /\ synced \in [Sides -> BOOLEAN]
  /\ queue \in [Sides -> Seq(Event)]
  /\ sync \in [Sides -> {"idle", "fetch", "drain", "done"}]
  /\ resets \in 0 .. MaxResets
  /\ gaps \subseteq Sides
  /\ dead \in BOOLEAN

\* A local book has the very price levels that the exchange had at the update
\* its sequence_id names: an event that was lost, whether it was dropped,
\* queued too late or came from before a reset, is never built upon.
BookExact == \A s \in Sides : book[s].seq # None => book[s].upto = book[s].seq

\* What a book shows: the levels of the update it names, or a mixture.
Shown(b) ==
  IF b.seq = None THEN None ELSE IF b.upto = b.seq THEN b.upto ELSE Corrupt
Copy == [s \in Sides |-> Shown(book[s])]

\* A local book shows the exchange's book as it was at one moment, and follows it: an
\* answer or an event that is older than the book never takes it back, whatever order
\* they come in, and between two resets it is not given up.
Mirror == INSTANCE OrderBookMirror WITH source <- version, copy <- Copy
Mirrors == Mirror!Spec

\* Books are compared only after both were synchronised since the last reset.
DecisionsOnSyncedBooks ==
  \A t \in Threads : At(t, "decide") =>
    \A s \in Sides : synced[s] /\ (HasSnapshot(s) => book[s].seq # None)

\* A subscription that stops makes the process reset itself, unless the other waits
\* from then on for an exchange that is not Binance and sends no more events.
Silent == \E s \in Sides : running[s] /\ kind[s] # "binance" /\ wire[s] = <<>>
StopLeadsToReset == main = "watch" /\ ~ BothRunning ~> main = "pause" \/ []Silent
=============================================================================
