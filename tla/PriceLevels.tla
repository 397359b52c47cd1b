---------------------------- MODULE PriceLevels -----------------------------
(***************************************************************************)
(* One side of a local order book (data/order_book.py): the sequence of    *)
(* its price levels, the best one first, which every change of a delta is  *)
(* inserted into by binary search (analysis/binary_search.py).             *)
(*                                                                         *)
(* Asks and bids differ in the order of their prices alone, and a book's   *)
(* two sides never touch each other. Other threads read the levels between *)
(* any two steps.                                                          *)
(***************************************************************************)
EXTENDS Integers, SequencesExt

CONSTANTS Prices, MaxVolume, Dust

ASSUME LevelAssumption ==
  /\ Prices \subseteq Nat /\ IsFiniteSet(Prices)
  /\ MaxVolume \in Nat
  /\ Dust \in 0 .. MaxVolume

VARIABLES
  side,     \* "ask" or "bid"
  levels,   \* OrderBook.ask, OrderBook.bid
  stage     \* "empty", "copied" or "sorted": how far the book is

vars == <<side, levels, stage>>

\* A Deal of the book.
Level == [price : Prices, volume : 0 .. MaxVolume]

\* cmp_method_ask, cmp_method_bid
Better(p, q) == IF side = "ask" THEN p < q ELSE p > q

\* binary_search, with indices from 1: where the price is, or would be.
InsertionPoint(s, price) ==
  LET search[t \in Seq(Level)] ==
        LET mid == (Len(t) + 1) \div 2
        IN  IF t = <<>> THEN 1
            ELSE IF t[mid].price = price THEN mid
            ELSE IF Better(t[mid].price, price)
              THEN mid + search[SubSeq(t, mid + 1, Len(t))]
            ELSE search[SubSeq(t, 1, mid - 1)]
  IN  search[s]

Present(s, i, price) == i <= Len(s) /\ s[i].price = price

\* Mutant: a price that is there already gets a second level.
InsertAlways(s, d) ==
  IF d.volume <= Dust THEN SelectSeq(s, LAMBDA l : l.price # d.price)
  ELSE InsertAt(s, InsertionPoint(s, d.price), d)

\* Mutant: a change is the volume traded, and taken off the level.
Subtracted(s, d) ==
  LET i == InsertionPoint(s, d.price)
  IN  IF Present(s, i, d.price) THEN [s EXCEPT ![i].volume = @ - d.volume]
      ELSE InsertAt(s, i, d)

\* Mutant: a volume that is next to nothing leaves the price on.
InsertDust(s, d) ==
  LET i == InsertionPoint(s, d.price)
  IN  IF Present(s, i, d.price) THEN [s EXCEPT ![i].volume = d.volume]
      ELSE InsertAt(s, i, d)

\* insert_new_ask_preserve_order and insert_new_bid_preserve_order, as they are
\* called: overwrite_volume = False is for the trades of an update, of which the
\* parsers that feed update_for_bittrex never report any.
Inserted(s, d) ==
  LET i == InsertionPoint(s, d.price)
  IN  IF Present(s, i, d.price)
        THEN IF d.volume <= Dust THEN RemoveAt(s, i)
                                 ELSE [s EXCEPT ![i].volume = d.volume]
        ELSE IF d.volume <= Dust THEN s ELSE InsertAt(s, i, d)

-----------------------------------------------------------------------------
Init ==
  /\ side \in {"ask", "bid"}
  /\ levels = <<>>
  /\ stage = "empty"

\* The books that an exchange can send, in any order of their prices: Poloniex'
\* and Bittrex' documents are read as they come.
Orderings(P) == {f \in [1 .. Cardinality(P) -> P] : \A i, j \in DOMAIN f : f[i] = f[j] => i = j}
FullBooks ==
  UNION {{[i \in DOMAIN f |-> [price |-> f[i], volume |-> v[f[i]]]] :
            f \in Orderings(P), v \in [P -> 1 .. MaxVolume]} : P \in SUBSET Prices}

\* _copy_order_book, or the book that get_order_book returns.
Copy ==
  /\ stage = "empty"
  /\ levels' \in FullBooks
  /\ stage' = "copied"
  /\ UNCHANGED side

\* The orders that n levels can be put in.
Orders == [n \in 0 .. Cardinality(Prices) |-> {order : order \in Orderings(1 .. n)}]

\* sort_by_price, with list.sort
Sort ==
  /\ stage = "copied"
  /\ \E order \in Orders[Len(levels)] :
       /\ \A j \in DOMAIN levels : \A i \in 1 .. j - 1 :
            ~ Better(levels[order[j]].price, levels[order[i]].price)
       /\ levels' = [i \in DOMAIN levels |-> levels[order[i]]]
  /\ stage' = "sorted"
  /\ UNCHANGED side

\* One entry of the ask or bid list of a delta.
Apply(d) ==
  /\ stage = "sorted"
  /\ levels' = Inserted(levels, d)
  /\ UNCHANGED <<side, stage>>

\* init_order_books, or the next full book (Huobi): a new start.
Reset ==
  /\ stage = "sorted"
  /\ levels' = <<>>
  /\ stage' = "empty"
  /\ UNCHANGED side

Next == Copy \/ Sort \/ (\E d \in Level : Apply(d)) \/ Reset

Spec == Init /\ [][Next]_vars

-----------------------------------------------------------------------------
\* Every variable has its type.
TypeOK ==
  /\ side \in {"ask", "bid"}
  /\ levels \in Seq(Level)
  /\ stage \in {"empty", "copied", "sorted"}

\* The best price is first, and no price is there twice (the docstrings of the
\* insert_new_..._preserve_order methods), whatever changes are applied and in
\* whatever order: search_for_arbitrage looks at the first level alone.
BestFirst ==
  stage = "sorted" =>
    \A i, j \in DOMAIN levels : i < j => Better(levels[i].price, levels[j].price)

VolumeAt(p) ==
  LET at == {i \in DOMAIN levels : levels[i].price = p}
  IN  IF at = {} THEN 0 ELSE levels[CHOOSE i \in at : TRUE].volume

Map == INSTANCE PriceMap WITH
  volume <- [p \in Prices |-> VolumeAt(p)],
  loaded <- stage # "empty"

\* The sequence of levels keeps the volume last heard of each price, and sorting
\* it changes none (update_for_..., sort_by_price): what is found by binary search
\* is the very level that the change is about.
KeepsMap == Map!Spec
=============================================================================
