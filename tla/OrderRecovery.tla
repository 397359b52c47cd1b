---------------------------- MODULE OrderRecovery ----------------------------
(***************************************************************************)
(* What recovery promises of the legs that the bots hand over. A leg is in *)
(* one place; it goes from the failed orders to the watch list and never   *)
(* back; a process works on one leg, which it puts back, drops, or loses   *)
(* when it dies; what was dropped or lost does not come back. While the    *)
(* exchange can be believed, a leg is dropped only when none of its orders *)
(* is on the books, and gets an order only then.                           *)
(***************************************************************************)

CONSTANTS
  Orders,          \* the legs
  FailedWorkers,   \* processes that take legs from the failed orders
  ExpiredWorkers,  \* processes that take legs from the watch list
  NoOrder,         \* what a process without a leg works on
  Honest           \* the exchange can be believed

VARIABLES
  place,   \* where each leg is
  hands,   \* the leg that each process works on
  open     \* the orders on the books, each with the leg it is of

Procs == ExpiredWorkers \cup FailedWorkers

Init ==
  /\ place = [o \in Orders |-> "bot"]
  /\ hands = [p \in Procs |-> NoOrder]
  /\ open = {}

OnBooks(o) == \E x \in open : x.leg = o

\* Orders leave the books at any moment. No more than one comes to them at a
\* time, and only of these legs.
Books(legs) ==
  /\ \A x \in open' \ open : x.leg \in legs
  /\ \A x, y \in open' \ open : x = y

Go(o, to) == place' = [place EXCEPT ![o] = to]

\* An order of a leg is placed, by its bot or by the process that works on it; one
\* whose sender gave up may come whenever it likes.
Place(o) ==
  /\ Honest => place[o] \in {"bot", "held"} /\ ~ OnBooks(o)
  /\ Books({o})
  /\ UNCHANGED <<place, hands>>

Trades == Books({}) /\ UNCHANGED <<place, hands>>

HandOver(o) ==
  /\ place[o] = "bot"
  /\ Go(o, "failed")
  /\ Books({})
  /\ UNCHANGED hands

Take(p, o) ==
  /\ hands[p] = NoOrder
  /\ \/ p \in FailedWorkers /\ place[o] = "failed"
     \/ p \in ExpiredWorkers /\ place[o] = "watched"
  /\ Go(o, "held")
  /\ hands' = [hands EXCEPT ![p] = o]
  /\ Books({})

Lets(p, o, to) ==
  /\ hands[p] = o
  /\ place[o] = "held"
  /\ Go(o, to)
  /\ hands' = [hands EXCEPT ![p] = NoOrder]

PutBack(p, o) ==
  /\ Lets(p, o, "watched") \/ (p \in FailedWorkers /\ Lets(p, o, "failed"))
  /\ Books({})

Drop(p, o) ==
  /\ Lets(p, o, "dropped")
  /\ Honest => ~ OnBooks(o)
  /\ Books({})

\* A process that dies may have placed an order without having got the answer.
Lose(p, o) ==
  /\ Lets(p, o, "lost")
  /\ Books(IF Honest /\ OnBooks(o) THEN {} ELSE {o})

Next ==
  \/ Trades
  \/ \E o \in Orders :
       \/ Place(o) \/ HandOver(o)
       \/ \E p \in Procs : Take(p, o) \/ PutBack(p, o) \/ Drop(p, o) \/ Lose(p, o)

Spec == Init /\ [][Next]_<<place, hands, open>>
=============================================================================
