--------------------------- MODULE OrderBookMirror ---------------------------
(***************************************************************************)
(* What the synchronisation of order books promises: a local copy shows    *)
(* the book as the exchange had it at one moment, and that moment moves    *)
(* forward only, until all copies are thrown away and got anew. How the    *)
(* copy is got and which events bring it forward is left open.             *)
(***************************************************************************)
EXTENDS Integers

CONSTANTS
  Sides,       \* the exchanges
  MaxVersion,  \* bound on the updates an exchange makes to its book
  None         \* there is no copy

VARIABLES
  source,      \* how many updates were made to each exchange's book
  copy         \* after how many of them each copy shows it

Init ==
  /\ source = [s \in Sides |-> 0]
  /\ copy = [s \in Sides |-> None]

Change(s) ==
  /\ \E n \in source[s] + 1 .. MaxVersion : source' = [source EXCEPT ![s] = n]
  /\ UNCHANGED copy

\* The copy is got: maybe not the newest, never one of the future.
Load(s) ==
  /\ copy[s] = None
  /\ \E v \in 0 .. source[s] : copy' = [copy EXCEPT ![s] = v]
  /\ UNCHANGED source

Follow(s) ==
  /\ copy[s] # None
  /\ \E v \in copy[s] + 1 .. source[s] : copy' = [copy EXCEPT ![s] = v]
  /\ UNCHANGED source

Reset ==
  /\ copy' = [s \in Sides |-> None]
  /\ UNCHANGED source

Next == Reset \/ \E s \in Sides : Change(s) \/ Load(s) \/ Follow(s)

Spec == Init /\ [][Next]_<<source, copy>>
=============================================================================
