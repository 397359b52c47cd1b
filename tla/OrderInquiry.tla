---------------------------- MODULE OrderInquiry ----------------------------
(***************************************************************************)
(* What recovery and the bots take an exchange's adapter for: it tells     *)
(* what was true at some moment between question and answer, or that it    *)
(* failed, or it raises an exception. What the questions that are not      *)
(* promised are answered may leave out orders or count too many coins, but *)
(* never has an order that was not there.                                  *)
(***************************************************************************)
EXTENDS Naturals

CONSTANTS Questions, Orders, Coins, None

VARIABLES
  truth,      \* question -> the answer that is right now
  promised,   \* the questions that are answered completely
  asked,      \* the question that waits for its answer, if any
  seen,       \* the answers that were right since it was asked
  told        \* how the last answer went, and what it was

Answers == [orders : SUBSET Orders, coins : 0 .. Coins]

Init ==
  /\ truth \in [Questions -> Answers]
  /\ promised \subseteq Questions
  /\ asked = None
  /\ seen = {}
  /\ told = [status |-> "none", answer |-> [orders |-> {}, coins |-> 0]]

\* The exchange goes on, before a question or while it waits.
Change ==
  /\ truth' \in [Questions -> Answers]
  /\ seen' = IF asked = None THEN {} ELSE seen \cup {truth'[asked]}
  /\ UNCHANGED <<promised, asked, told>>

Ask ==
  /\ asked = None
  /\ asked' \in Questions
  /\ seen' = {truth[asked']}
  /\ UNCHANGED <<truth, promised, told>>

\* A question that is not promised is answered with less than the truth.
Falls(a, v) == a.orders \subseteq v.orders /\ a.coins >= v.coins

Tell ==
  /\ asked # None
  /\ \/ told'.status \in {"failure", "raised"}
     \/ /\ told'.status = "success"
        /\ \E v \in seen :
             told'.answer = v \/ (asked \notin promised /\ Falls(told'.answer, v))
  /\ asked' = None
  /\ seen' = {}
  /\ UNCHANGED <<truth, promised>>

Next == Change \/ Ask \/ Tell

Spec == Init /\ [][Next]_<<truth, promised, asked, seen, told>>
=============================================================================
