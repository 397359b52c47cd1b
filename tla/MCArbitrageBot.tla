--------------------------- MODULE MCArbitrageBot ---------------------------
(***************************************************************************)
(* Instances of ArbitrageBot for TLC.                                      *)
(***************************************************************************)
EXTENDS ArbitrageBot

Levels(prices, vols) == [price : prices, vol : vols]

\* Books of no, one and two levels.
Sorted(levels) ==
  {<<>>} \cup {<<a>> : a \in levels}
         \cup {<<p[1], p[2]>> : p \in {q \in levels \X levels : q[1].price < q[2].price}}
Backwards(s) == IF Len(s) = 2 THEN <<s[2], s[1]>> ELSE s

ManyAsks == Sorted(Levels({2, 3}, {1, 3, 4}))
ManyBids == {Backwards(s) : s \in Sorted(Levels({2, 3, 4}, {1, 3, 4}))}
FewAsks == {<<[price |-> 2, vol |-> 2]>>}
FewBids == {<<[price |-> 3, vol |-> 2]>>}

ManyHoldings == [coins : {0, 1, 3, 5}, base : {0, 5, 7, 12}]
OneHolding == {[coins |-> 4, base |-> 9]}
=============================================================================
