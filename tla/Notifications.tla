---------------------------- MODULE Notifications ----------------------------
(***************************************************************************)
(* services/telegram_notifier.py: what the other processes tell their      *)
(* operators.  They push messages to the topics of the message queue, one  *)
(* notifier takes them off in turn and sends them to the chat of the       *)
(* topic.  A message is its number within its topic.                       *)
(***************************************************************************)
EXTENDS Naturals, Sequences, FiniteSets

CONSTANT Topics   \* QUEUE_TOPICS, in the notifier's order

ASSUME TopicsAssumption == Topics \in Seq(STRING) /\ Topics # <<>>

Nobody == 0       \* no message in hand

VARIABLES
  queue,      \* redis: the messages of each topic
  added,      \* how many were pushed to each topic
  stage,      \* what the notifier does: look, html, plain, back or dead
  turn,       \* the topic it is at
  hand,       \* the message it has taken off
  delivered,  \* the messages each chat has shown
  lost        \* the messages that died with the notifier

notifications == <<queue, added, stage, turn, hand, delivered, lost>>

TopicSet == {Topics[i] : i \in DOMAIN Topics}
Topic == Topics[turn]

InitNotifications ==
  /\ queue = [t \in TopicSet |-> <<>>]
  /\ added = [t \in TopicSet |-> 0]
  /\ stage = "look"
  /\ turn = 1
  /\ hand = Nobody
  /\ delivered = [t \in TopicSet |-> {}]
  /\ lost = [t \in TopicSet |-> {}]

\* MessageQueue.add_message, of whatever process.
AddMessage(t) ==
  /\ queue' = [queue EXCEPT ![t] = Append(@, added[t] + 1)]
  /\ added' = [added EXCEPT ![t] = @ + 1]
  /\ UNCHANGED <<stage, turn, hand, delivered, lost>>

NextTopic == turn' = 1 + (turn % Len(Topics))

\* The topics in the order of the notifier's loop, from the one it is at.
After(k) == 1 + ((turn - 1 + k) % Len(Topics))

\* get_message_nowait of each topic in turn: lpop. Where there is none nothing
\* happens, so that the notifier is here at the next topic that has one.
Look ==
  /\ stage = "look"
  /\ \E k \in 0 .. Len(Topics) - 1 :
       LET t == Topics[After(k)]
       IN  /\ queue[t] # <<>>
           /\ \A j \in 0 .. k - 1 : queue[Topics[After(j)]] = <<>>
           /\ turn' = After(k)
           /\ hand' = Head(queue[t])
           /\ queue' = [queue EXCEPT ![t] = Tail(@)]
  /\ stage' = "html"
  /\ UNCHANGED <<added, delivered, lost>>

Shown == delivered' = [delivered EXCEPT ![Topic] = @ \cup {hand}]

\* Telegram shows the message and says so, to send_single_message or to
\* send_single_message_no_parsing.
Send(t) ==
  /\ stage \in {"html", "plain"}
  /\ Topic = t
  /\ Shown
  /\ hand' = Nobody
  /\ stage' = "look"
  /\ NextTopic
  /\ UNCHANGED <<queue, added, lost>>

\* The call raises an exception: Telegram refused the message, or showed it and
\* its answer was lost.  What failed as HTML is tried as plain text.
SendFails ==
  /\ stage \in {"html", "plain"}
  /\ Shown \/ UNCHANGED delivered
  /\ stage' = IF stage = "html" THEN "plain" ELSE "back"
  /\ UNCHANGED <<queue, added, turn, hand, lost>>

\* Mutant: the message goes to the end of its topic.
PutBackLast ==
  /\ stage = "back"
  /\ queue' = [queue EXCEPT ![Topic] = Append(@, hand)]
  /\ hand' = Nobody
  /\ stage' = "look"
  /\ NextTopic
  /\ UNCHANGED <<added, delivered, lost>>

\* Mutant: the message is not put back.
GiveUp ==
  /\ stage = "back"
  /\ hand' = Nobody
  /\ stage' = "look"
  /\ NextTopic
  /\ UNCHANGED <<queue, added, delivered, lost>>

\* add_message_to_start: lpush.
PutBack ==
  /\ stage = "back"
  /\ queue' = [queue EXCEPT ![Topic] = <<hand>> \o @]
  /\ hand' = Nobody
  /\ stage' = "look"
  /\ NextTopic
  /\ UNCHANGED <<added, delivered, lost>>

\* The notifier is killed, and what it has in hand is in no queue. With nothing
\* in hand it would lose nothing.
NotifierCrash ==
  /\ hand # Nobody
  /\ stage' = "dead"
  /\ hand' = Nobody
  /\ lost' = [lost EXCEPT ![Topic] = @ \cup {hand}]
  /\ UNCHANGED <<queue, added, turn, delivered>>

NotifierRestart ==
  /\ stage = "dead"
  /\ stage' = "look"
  /\ turn' = 1
  /\ UNCHANGED <<queue, added, hand, delivered, lost>>

NotifierStep == Look \/ (\E t \in TopicSet : Send(t)) \/ SendFails \/ PutBack

-----------------------------------------------------------------------------
NotificationsTypeOK ==
  /\ queue \in [TopicSet -> Seq(Nat \ {0})]
  /\ added \in [TopicSet -> Nat]
  /\ stage \in {"look", "html", "plain", "back", "dead"}
  /\ turn \in DOMAIN Topics
  /\ hand \in Nat
  /\ hand # Nobody <=> stage \in {"html", "plain", "back"}
  /\ \A t \in TopicSet : delivered[t] \cup lost[t] \subseteq 1 .. added[t]

\* No chat shows a message while an earlier one of its topic is still to come,
\* however often sending fails and whatever was shown without an answer: only
\* messages that died with a notifier are left out.
InOrder ==
  \A t \in TopicSet : \A m \in delivered[t] : 1 .. m - 1 \subseteq delivered[t] \cup lost[t]
=============================================================================
