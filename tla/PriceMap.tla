------------------------------ MODULE PriceMap ------------------------------
(***************************************************************************)
(* What one side of an order book promises: the volume last heard of each  *)
(* price, where a volume that is next to nothing takes the price off.      *)
(***************************************************************************)
EXTENDS Integers

CONSTANTS
  Prices,      \* the prices of one side of the book
  MaxVolume,   \* bound on the volume at a price
  Dust         \* MIN_VOLUME_ORDER_BOOK: a volume up to it removes the price

VARIABLES
  volume,   \* the volume at each price, 0 where there is none
  loaded    \* whether there is a book to be changed

Volumes == 0 .. MaxVolume
Nothing == [p \in Prices |-> 0]

Init == volume = Nothing /\ loaded = FALSE

\* A whole book. Its volumes are not looked at.
Load ==
  /\ ~ loaded
  /\ volume' \in [Prices -> Volumes]
  /\ loaded' = TRUE

Change(p, v) ==
  /\ loaded
  /\ volume' = [volume EXCEPT ![p] = IF v <= Dust THEN 0 ELSE v]
  /\ UNCHANGED loaded

Forget ==
  /\ loaded
  /\ volume' = Nothing
  /\ loaded' = FALSE

Next == Load \/ (\E p \in Prices, v \in Volumes : Change(p, v)) \/ Forget

Spec == Init /\ [][Next]_<<volume, loaded>>
=============================================================================
