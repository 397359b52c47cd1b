--------------------------- MODULE OrderLifecycle ---------------------------
(***************************************************************************)
(* The bots, the two recovery services and the exchange together: where an *)
(* order is between the moment a bot decides to place it and the moment    *)
(* nobody looks after it any more.                                         *)
(***************************************************************************)
EXTENDS ExpiredOrders, FailedOrders

Init ==
  /\ exch = [id \in Ids |-> Unused]
  /\ bot = [o \in Orders |-> "new"]
  /\ watch = <<>>
  /\ failed = <<>>
  /\ recorded = {}
  /\ pc = [p \in Procs |-> "poll"]
  /\ hand = [p \in Procs |-> NoTrade]
  /\ restarts = 0
  /\ forgotten = {}
  /\ lost = {}

-----------------------------------------------------------------------------
(***************************************************************************)
(* What the exchange does on its own.                                      *)
(***************************************************************************)
Internal == <<bot, queues, service, restarts, history>>

\* A unit of an open order is traded, and the last one closes the order.
Fill(id) ==
  /\ Live(id)
  /\ exch' = [exch EXCEPT
       ![id].done = @ + 1,
       ![id].st = IF exch[id].done + 1 = exch[id].vol THEN "filled" ELSE @]
  /\ UNCHANGED Internal

\* A request whose sender gave up reaches the books, within the 15 seconds that
\* try_to_set_order_id allows or after them.
Arrive(id) ==
  /\ exch[id].st = "flight"
  /\ \E soon \in BOOLEAN :
       exch' = [exch EXCEPT ![id].st = "open", ![id].timely = soon]
  /\ UNCHANGED Internal

-----------------------------------------------------------------------------
Next ==
  \/ \E o \in Orders : BotStep(o)
  \/ \E p \in ExpiredWorkers : ExpiredStep(p)
  \/ \E p \in FailedWorkers : FailedStep(p)
  \/ \E p \in Procs : Crash(p) \/ Restart(p)
  \/ \E id \in Ids : Fill(id) \/ Arrive(id)

Safe == Init /\ [][Next]_vars

\* The services run `while True`: one that lives takes its next step. For the
\* failed orders' searches, which are repeated until they succeed, this says
\* that the exchange answers at last. Nothing makes a bot act or an order trade.
Spec ==
  /\ Safe
  /\ \A p \in ExpiredWorkers : WF_vars(ExpiredStep(p))
  /\ \A p \in FailedWorkers : WF_vars(FailedStep(p))

-----------------------------------------------------------------------------
ExchangeType ==
  exch \in [Ids -> [st : {"unused", "flight", "open", "filled", "cancelled"},
                    owner : Orders \cup {NoOrder}, vol : 0 .. Volume,
                    done : 0 .. Volume, timely : BOOLEAN]]
QueuesType == watch \in Seq(Trade) /\ failed \in Seq(Trade) /\ recorded \subseteq Ids
ServiceType ==
  /\ pc \in [Procs -> {"poll", "claim", "query", "cancel", "open", "history",
                       "market", "post", "save", "watch", "dead"}]
  /\ hand \in [Procs -> Trade \cup {NoTrade}]
  /\ \A p \in Procs : pc[p] \notin {"poll", "dead"} => hand[p] \in Trade

\* Every variable has its type, and a process that is past polling has a Trade.
TypeOK ==
  /\ ExchangeType
  /\ bot \in [Orders -> {"new", "placed", "refused", "handed", "done", "dead"}]
  /\ QueuesType
  /\ ServiceType
  /\ restarts \in 0 .. MaxRestarts
  /\ forgotten \subseteq Ids
  /\ lost \subseteq Orders

-----------------------------------------------------------------------------
(***************************************************************************)
(* Custody.                                                                *)
(***************************************************************************)
Queued(o) == InSeq(watch, o) \/ InSeq(failed, o)
HeldBy(p, o) == Holds(p) /\ hand[p].order = o

\* Whatever fails, a Trade is in one place at most, so that no two processes ever
\* recover the same order (get_oldest_order's zrem, get_next_order's lpop), and
\* only the Trades that a bot has handed over are recovered at all.
OneCustodian ==
  /\ Distinct(watch)
  /\ Distinct(failed)
  /\ \A o \in Orders : ~ (InSeq(watch, o) /\ InSeq(failed, o))
  /\ \A p, q \in Procs, o \in Orders : HeldBy(p, o) /\ HeldBy(q, o) => p = q
  /\ \A p \in Procs, o \in Orders : HeldBy(p, o) => ~ Queued(o)
  /\ \A o \in Orders :
       bot[o] # "handed" => ~ Queued(o) /\ \A p \in Procs : ~ HeldBy(p, o)

-----------------------------------------------------------------------------
(***************************************************************************)
(* What the services may believe about the exchange.                       *)
(***************************************************************************)
LiveOf(o) == {id \in OpenOrders : exch[id].owner = o}
Tracked(o) == Queued(o) \/ o \in lost \/ \E p \in Procs : HeldBy(p, o)

\* An order is replaced or placed again only after its predecessor has left the
\* books: one leg never has two orders open (process_expired_order's cancel,
\* process_failed_order's searches).
OneLiveOrder == \A o \in Orders : \A i, j \in LiveOf(o) : i = j

\* An order on the watch list that a service drops as filled ("not
\* open_orders") is never on the books again.
ForgottenNeverLive == forgotten \cap OpenOrders = {}

\* A leg that a bot handed to the failed orders, and that is on the books, is
\* in a queue or in a living service's hands unless a service died with it.
LiveOrdersTracked ==
  \A o \in Orders : bot[o] = "handed" /\ LiveOf(o) # {} => Tracked(o)

\* The volume a watched Trade carries is never less than what its order still
\* has on the books, so that a replacement never falls short of it.
KeepsVolume(t) ==
  t.oid \in OpenOrders => t.vol >= exch[t.oid].vol - exch[t.oid].done
RemainingVolumeKept == \A i \in DOMAIN watch : KeepsVolume(watch[i])

\* The same at Poloniex, whose Trades are given the volume of the report.
PoloniexVolumeKept == Poloniex => RemainingVolumeKept

\* When a service places an order again, the one it had in hand was cancelled.
CancelBeforeReplace ==
  \A p \in ExpiredWorkers : pc[p] \in {"market", "post"} => hand[p].oid \notin OpenOrders

-----------------------------------------------------------------------------
(***************************************************************************)
(* What recovery promises, in OrderRecovery.                               *)
(***************************************************************************)
\* The exchange reports its errors by HTTP status and drops what has timed out, and
\* no two legs are taken for each other.
Honest == ~ ErrorBodies /\ ~ LateEffects /\ \A l \in Lookalike : l[1] = l[2]

\* Where a leg is.
PlaceOf(o) ==
  CASE bot[o] # "handed" -> "bot"
    [] bot[o] = "handed" /\ InSeq(failed, o) -> "failed"
    [] bot[o] = "handed" /\ ~ InSeq(failed, o) /\ InSeq(watch, o) -> "watched"
    [] bot[o] = "handed" /\ ~ Queued(o) /\ (\E p \in Procs : HeldBy(p, o)) -> "held"
    [] OTHER -> IF o \in lost THEN "lost" ELSE "dropped"

Whereabouts == [o \in Orders |-> PlaceOf(o)]
AtWork == [p \in Procs |-> IF Holds(p) THEN hand[p].order ELSE NoOrder]
OnTheBooks == {[id |-> id, leg |-> exch[id].owner] : id \in OpenOrders}

Recovery == INSTANCE OrderRecovery WITH
  place <- Whereabouts, hands <- AtWork, open <- OnTheBooks

\* Both services together keep the promise, whatever fails, and with an exchange
\* that can be believed to the full: no step moves a leg in any other way.
Recovers == Recovery!Spec

\* What waits on the watch list gets its turn, as long as a service lives.
WatchTurn ==
  \A o \in Orders :
    InSeq(watch, o) ~> ~ InSeq(watch, o) \/ \A p \in ExpiredWorkers : pc[p] = "dead"
=============================================================================
