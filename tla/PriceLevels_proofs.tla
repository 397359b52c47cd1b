------------------------- MODULE PriceLevels_proofs -------------------------
(***************************************************************************)
(* The levels of a book stay sorted, and the binary search finds the level *)
(* that a change is about, whatever the prices, volumes and changes.       *)
(***************************************************************************)
EXTENDS PriceLevels, FiniteSetTheorems, SequenceTheorems, WellFoundedInduction, TLAPS

-----------------------------------------------------------------------------
(* Induction. *)

\* Each nonempty set of numbers has a least one.
LEMMA LeastNumber ==
  ASSUME NEW S, S \subseteq Nat, S # {}
  PROVE  \E n \in S : \A m \in S : n <= m
<1> DEFINE R == {x \in Nat \X Nat : x[1] < x[2]}
<1>1. IsWellFoundedOn(R, Nat)
  BY NatLessThanWellFounded DEF OpToRel
<1>2. PICK n \in S : \A m \in S : <<m, n>> \notin R
  <2> HIDE DEF R
  <2> QED
    BY <1>1, WFMin
<1>3. ASSUME NEW m \in S PROVE n <= m
  <2>1. m \in Nat /\ n \in Nat /\ <<m, n>> \in Nat \X Nat
    OBVIOUS
  <2>2. ~ (m < n)
    BY <1>2, <2>1
  <2> QED
    BY <2>1, <2>2
<1> QED
  BY <1>3

\* What holds of a number whenever it holds of all smaller ones holds of all.
LEMMA NumbersInduction ==
  ASSUME NEW S, \A n \in Nat : (\A m \in 0 .. n - 1 : m \in S) => n \in S
  PROVE  Nat \subseteq S
<1> SUFFICES ASSUME NEW k \in Nat, k \notin S PROVE FALSE
  OBVIOUS
<1> DEFINE T == {n \in Nat : n \notin S}
<1>1. PICK n \in T : \A m \in T : n <= m
  <2>1. T \subseteq Nat /\ k \in T
    OBVIOUS
  <2> HIDE DEF T
  <2> QED
    BY <2>1, LeastNumber
<1>2. \A m \in 0 .. n - 1 : m \in S
  BY <1>1
<1> QED
  BY <1>1, <1>2

-----------------------------------------------------------------------------
(* The binary search. *)

Middle(t) == (Len(t) + 1) \div 2
Above(t) == SubSeq(t, Middle(t) + 1, Len(t))
Below(t) == SubSeq(t, 1, Middle(t) - 1)

\* One step of binary_search, g being the search of the halves.
Halve(g, t, price) ==
  IF t = <<>> THEN 1
  ELSE IF t[Middle(t)].price = price THEN Middle(t)
  ELSE IF Better(t[Middle(t)].price, price) THEN Middle(t) + g[Above(t)]
  ELSE g[Below(t)]

LEMMA Halves ==
  ASSUME NEW t \in Seq(Level), t # <<>>
  PROVE  /\ Len(t) \in Nat \ {0}
         /\ Middle(t) \in 1 .. Len(t)
         /\ Above(t) \in Seq(Level) /\ Len(Above(t)) = Len(t) - Middle(t)
         /\ \A i \in 1 .. Len(t) - Middle(t) : Above(t)[i] = t[Middle(t) + i]
         /\ Below(t) \in Seq(Level) /\ Len(Below(t)) = Middle(t) - 1
         /\ \A i \in 1 .. Middle(t) - 1 : Below(t)[i] = t[i]
<1>1. Len(t) \in Nat \ {0}
  OBVIOUS
<1>2. Middle(t) \in 1 .. Len(t)
  BY <1>1 DEF Middle
<1> HIDE DEF Middle
<1>3. \A i \in 1 .. Len(t) : t[i] \in Level
  OBVIOUS
<1>4. Above(t) \in Seq(Level) /\ Len(Above(t)) = Len(t) - Middle(t)
      /\ \A i \in 1 .. Len(t) - Middle(t) : Above(t)[i] = t[Middle(t) + i]
  BY <1>1, <1>2, <1>3 DEF Above
<1>5. Below(t) \in Seq(Level) /\ Len(Below(t)) = Middle(t) - 1
      /\ \A i \in 1 .. Middle(t) - 1 : Below(t)[i] = t[i]
  BY <1>1, <1>2, <1>3 DEF Below
<1> QED
  BY <1>1, <1>2, <1>4, <1>5

\* A step looks no further than at shorter lists.
LEMMA HalveLooksAtHalves ==
  ASSUME NEW price, NEW t \in Seq(Level), NEW g, NEW h,
         \A s \in Seq(Level) : Len(s) < Len(t) => g[s] = h[s]
  PROVE  Halve(g, t, price) = Halve(h, t, price)
<1>1. CASE t = <<>>
  BY <1>1 DEF Halve
<1>2. CASE t # <<>>
  <2>1. g[Above(t)] = h[Above(t)] /\ g[Below(t)] = h[Below(t)]
    BY <1>2, Halves
  <2> QED
    BY <2>1 DEF Halve
<1> QED
  BY <1>1, <1>2

\* The search of lists of at most n levels.
Short(n) == {t \in Seq(Level) : Len(t) <= n}
SearchUpTo(n, g, price) == g = [t \in Short(n) |-> Halve(g, t, price)]

LEMMA SearchesExist ==
  ASSUME NEW price
  PROVE  \A n \in Nat : \E g : SearchUpTo(n, g, price)
<1> DEFINE S == {n \in Nat : \E g : SearchUpTo(n, g, price)}
<1>1. ASSUME NEW n \in Nat, \A m \in 0 .. n - 1 : m \in S PROVE n \in S
  <2>1. CASE n = 0
    <3> DEFINE g == [t \in Short(0) |-> 1]
    <3>1. \A t \in Short(0) : t = <<>>
      BY DEF Short
    <3>2. SearchUpTo(0, g, price)
      BY <3>1 DEF SearchUpTo, Halve
    <3> QED
      BY <2>1, <3>2
  <2>2. CASE n # 0
    <3>1. PICK g : SearchUpTo(n - 1, g, price)
      BY <1>1, <2>2
    <3> DEFINE h == [t \in Short(n) |-> Halve(g, t, price)]
    <3>2. ASSUME NEW t \in Short(n) PROVE Halve(h, t, price) = Halve(g, t, price)
      <4>1. ASSUME NEW s \in Seq(Level), Len(s) < Len(t) PROVE h[s] = g[s]
        <5>1. s \in Short(n - 1) /\ s \in Short(n)
          BY <4>1 DEF Short
        <5> QED
          BY <3>1, <5>1 DEF SearchUpTo
      <4>2. t \in Seq(Level)
        BY DEF Short
      <4> HIDE DEF h
      <4> QED
        BY <4>1, <4>2, HalveLooksAtHalves
    <3>3. SearchUpTo(n, h, price)
      BY <3>2 DEF SearchUpTo
    <3> QED
      BY <3>3
  <2> QED
    BY <2>1, <2>2
<1>2. Nat \subseteq S
  <2> HIDE DEF S
  <2> QED
    BY <1>1, NumbersInduction
<1> QED
  BY <1>2

LEMMA SearchesAgree ==
  ASSUME NEW price, NEW m \in Nat, NEW n \in Nat, NEW g, NEW h,
         SearchUpTo(m, g, price), SearchUpTo(n, h, price)
  PROVE  \A t \in Short(m) \cap Short(n) : g[t] = h[t]
<1> DEFINE S == {k \in Nat : \A t \in Short(m) \cap Short(n) : Len(t) = k => g[t] = h[t]}
<1>1. ASSUME NEW k \in Nat, \A i \in 0 .. k - 1 : i \in S PROVE k \in S
  <2> SUFFICES ASSUME NEW t \in Short(m) \cap Short(n), Len(t) = k PROVE g[t] = h[t]
    OBVIOUS
  <2>1. t \in Seq(Level)
    BY DEF Short
  <2>2. ASSUME NEW s \in Seq(Level), Len(s) < Len(t) PROVE g[s] = h[s]
    <3>1. s \in Short(m) \cap Short(n) /\ Len(s) \in 0 .. k - 1
      BY <2>2 DEF Short
    <3> QED
      BY <1>1, <3>1
  <2>3. Halve(g, t, price) = Halve(h, t, price)
    BY <2>1, <2>2, HalveLooksAtHalves
  <2> QED
    BY <2>3 DEF SearchUpTo
<1>2. Nat \subseteq S
  <2> HIDE DEF S
  <2> QED
    BY <1>1, NumbersInduction
<1>3. \A t \in Short(m) \cap Short(n) : Len(t) \in Nat
  BY DEF Short
<1> QED
  BY <1>2, <1>3

\* The searches of short lists are one search of all lists.
LEMMA SearchExists ==
  ASSUME NEW price
  PROVE  \E f : f = [t \in Seq(Level) |-> Halve(f, t, price)]
<1> DEFINE G(n) == CHOOSE g : SearchUpTo(n, g, price)
           f == [t \in Seq(Level) |-> G(Len(t))[t]]
<1>1. \A n \in Nat : SearchUpTo(n, G(n), price)
  BY SearchesExist
<1>2. ASSUME NEW t \in Seq(Level) PROVE f[t] = Halve(f, t, price)
  <2>1. t \in Short(Len(t)) /\ Len(t) \in Nat
    BY DEF Short
  <2>2. SearchUpTo(Len(t), G(Len(t)), price)
    BY <1>1, <2>1
  <2>3. ASSUME NEW s \in Seq(Level), Len(s) < Len(t) PROVE f[s] = G(Len(t))[s]
    <3>1. Len(s) \in Nat /\ s \in Short(Len(s)) \cap Short(Len(t))
      BY <2>3 DEF Short
    <3>2. SearchUpTo(Len(s), G(Len(s)), price)
      BY <1>1, <3>1
    <3>3. f[s] = G(Len(s))[s]
      OBVIOUS
    <3> HIDE DEF G, f
    <3>4. G(Len(s))[s] = G(Len(t))[s]
      BY <2>1, <2>2, <3>1, <3>2, SearchesAgree
    <3> QED
      BY <3>3, <3>4
  <2>4. f[t] = G(Len(t))[t]
    OBVIOUS
  <2> HIDE DEF G, f
  <2>5. Halve(f, t, price) = Halve(G(Len(t)), t, price)
    BY <2>3, HalveLooksAtHalves
  <2>6. G(Len(t))[t] = Halve(G(Len(t)), t, price)
    BY <2>1, <2>2 DEF SearchUpTo
  <2> QED
    BY <2>4, <2>5, <2>6
<1>3. f = [t \in Seq(Level) |-> Halve(f, t, price)]
  <2>1. f = [t \in Seq(Level) |-> f[t]]
    OBVIOUS
  <2> HIDE DEF f
  <2> QED
    BY <1>2, <2>1
<1> QED
  BY <1>3

\* The code's recursion ends, as it halves its list.
LEMMA SearchUnfolds ==
  ASSUME NEW price
  PROVE  \E f : /\ \A t \in Seq(Level) : f[t] = Halve(f, t, price)
                /\ \A s : InsertionPoint(s, price) = f[s]
<1> DEFINE Body(search) ==
      [t \in Seq(Level) |->
        LET mid == (Len(t) + 1) \div 2
        IN  IF t = <<>> THEN 1
            ELSE IF t[mid].price = price THEN mid
            ELSE IF Better(t[mid].price, price)
              THEN mid + search[SubSeq(t, mid + 1, Len(t))]
            ELSE search[SubSeq(t, 1, mid - 1)]]
      f == CHOOSE search : search = Body(search)
<1>1. \A g : Body(g) = [t \in Seq(Level) |-> Halve(g, t, price)]
  BY DEF Halve, Middle, Above, Below
<1>2. \A s : InsertionPoint(s, price) = f[s]
  BY DEF InsertionPoint
<1> HIDE DEF Body
<1>3. \E g : g = Body(g)
  BY <1>1, SearchExists
<1>4. f = Body(f)
  BY <1>3
<1> HIDE DEF f
<1>5. \A t \in Seq(Level) : f[t] = Halve(f, t, price)
  BY <1>1, <1>4
<1> QED
  BY <1>2, <1>5

Sorted(s) == \A i, j \in DOMAIN s : i < j => Better(s[i].price, s[j].price)

\* Where a price belongs among levels: all before are better, none behind is.
IsPoint(p, s, price) ==
  /\ p \in 1 .. Len(s) + 1
  /\ \A i \in 1 .. p - 1 : Better(s[i].price, price)
  /\ \A i \in p .. Len(s) : s[i].price = price \/ Better(price, s[i].price)

LEMMA BetterOrders ==
  ASSUME NEW p \in Nat, NEW q \in Nat, NEW r \in Nat
  PROVE  /\ Better(p, q) /\ Better(q, r) => Better(p, r)
         /\ ~ (Better(p, q) /\ Better(q, p))
         /\ ~ Better(p, p)
         /\ Better(p, q) \/ Better(q, p) \/ p = q
BY DEF Better

LEMMA PricesAreNumbers ==
  ASSUME NEW s \in Seq(Level)
  PROVE  \A i \in 1 .. Len(s) : s[i].price \in Nat
<1>1. \A i \in 1 .. Len(s) : s[i] \in Level
  OBVIOUS
<1>2. \A l \in Level : l.price \in Nat
  BY LevelAssumption DEF Level
<1> QED
  BY <1>1, <1>2

\* The halves of sorted levels are sorted.
LEMMA HalvesAreSorted ==
  ASSUME NEW t \in Seq(Level), t # <<>>, Sorted(t)
  PROVE  /\ Sorted(Above(t)) /\ Sorted(Below(t))
         /\ \A i \in 1 .. Middle(t) - 1 : Better(t[i].price, t[Middle(t)].price)
         /\ \A i \in Middle(t) + 1 .. Len(t) : Better(t[Middle(t)].price, t[i].price)
<1>1. /\ Len(t) \in Nat \ {0} /\ Middle(t) \in 1 .. Len(t)
      /\ DOMAIN t = 1 .. Len(t)
      /\ DOMAIN Above(t) = 1 .. Len(t) - Middle(t)
      /\ DOMAIN Below(t) = 1 .. Middle(t) - 1
      /\ \A i \in 1 .. Len(t) - Middle(t) : Above(t)[i] = t[Middle(t) + i]
      /\ \A i \in 1 .. Middle(t) - 1 : Below(t)[i] = t[i]
  BY Halves
<1>2. Sorted(Above(t))
  <2> SUFFICES ASSUME NEW i \in 1 .. Len(t) - Middle(t), NEW j \in 1 .. Len(t) - Middle(t), i < j
               PROVE  Better(Above(t)[i].price, Above(t)[j].price)
    BY <1>1 DEF Sorted
  <2>1. Middle(t) + i \in DOMAIN t /\ Middle(t) + j \in DOMAIN t /\ Middle(t) + i < Middle(t) + j
    BY <1>1
  <2> QED
    BY <1>1, <2>1 DEF Sorted
<1>3. Sorted(Below(t))
  BY <1>1 DEF Sorted
<1> HIDE DEF Middle
<1>4. ASSUME NEW i \in 1 .. Middle(t) - 1 PROVE Better(t[i].price, t[Middle(t)].price)
  <2>1. i \in DOMAIN t /\ Middle(t) \in DOMAIN t /\ i < Middle(t)
    BY <1>1
  <2> QED
    BY <2>1 DEF Sorted
<1>5. ASSUME NEW i \in Middle(t) + 1 .. Len(t) PROVE Better(t[Middle(t)].price, t[i].price)
  <2>1. i \in DOMAIN t /\ Middle(t) \in DOMAIN t /\ Middle(t) < i
    BY <1>1
  <2> QED
    BY <2>1 DEF Sorted
<1> QED
  BY <1>2, <1>3, <1>4, <1>5

\* In sorted levels, binary_search finds where a price is or would be.
LEMMA SearchFinds ==
  ASSUME NEW price \in Nat
  PROVE  \A s \in Seq(Level) : Sorted(s) => IsPoint(InsertionPoint(s, price), s, price)
<1>1. PICK f : /\ \A t \in Seq(Level) : f[t] = Halve(f, t, price)
               /\ \A s : InsertionPoint(s, price) = f[s]
  BY SearchUnfolds
<1> DEFINE S == {n \in Nat : \A t \in Seq(Level) : Len(t) = n /\ Sorted(t) => IsPoint(f[t], t, price)}
<1>2. ASSUME NEW n \in Nat, \A m \in 0 .. n - 1 : m \in S PROVE n \in S
  <2> SUFFICES ASSUME NEW t \in Seq(Level), Len(t) = n, Sorted(t) PROVE IsPoint(f[t], t, price)
    OBVIOUS
  <2> DEFINE mid == Middle(t)
  <2>1. CASE t = <<>>
    <3>1. f[t] = 1 /\ Len(t) = 0
      BY <1>1, <2>1 DEF Halve
    <3> QED
      BY <3>1 DEF IsPoint
  <2>2. CASE t # <<>>
    <3>1. /\ n \in Nat \ {0} /\ mid \in 1 .. n
          /\ Above(t) \in Seq(Level) /\ Len(Above(t)) = n - mid
          /\ \A i \in 1 .. n - mid : Above(t)[i] = t[mid + i]
          /\ Below(t) \in Seq(Level) /\ Len(Below(t)) = mid - 1
          /\ \A i \in 1 .. mid - 1 : Below(t)[i] = t[i]
      BY <2>2, Halves
    <3>2. /\ Sorted(Above(t)) /\ Sorted(Below(t))
          /\ \A i \in 1 .. mid - 1 : Better(t[i].price, t[mid].price)
          /\ \A i \in mid + 1 .. n : Better(t[mid].price, t[i].price)
      BY <2>2, HalvesAreSorted
    <3>3. \A i \in 1 .. n : t[i].price \in Nat
      BY PricesAreNumbers
    <3>4. f[t] = Halve(f, t, price)
      BY <1>1
    <3>5. CASE t[mid].price = price
      <4>1. f[t] = mid
        BY <2>2, <3>4, <3>5 DEF Halve
      <4> HIDE DEF mid
      <4> QED
        BY <3>1, <3>2, <3>5, <4>1 DEF IsPoint
    <3>6. CASE t[mid].price # price /\ Better(t[mid].price, price)
      <4>1. f[t] = mid + f[Above(t)]
        BY <2>2, <3>4, <3>6 DEF Halve
      <4>2. IsPoint(f[Above(t)], Above(t), price)
        <5>1. n - mid \in 0 .. n - 1
          BY <3>1
        <5> QED
          BY <1>2, <3>1, <3>2, <5>1
      <4> HIDE DEF mid
      <4>3. f[Above(t)] \in 1 .. n - mid + 1 /\ f[t] \in 1 .. n + 1
        BY <3>1, <4>1, <4>2 DEF IsPoint
      <4>4. ASSUME NEW i \in 1 .. f[t] - 1 PROVE Better(t[i].price, price)
        <5>1. CASE i <= mid
          BY <3>1, <3>2, <3>3, <3>6, <4>3, <5>1, BetterOrders
        <5>2. CASE i > mid
          <6>1. i - mid \in 1 .. f[Above(t)] - 1 /\ i - mid \in 1 .. n - mid /\ i = mid + (i - mid)
            BY <3>1, <4>1, <4>3, <5>2
          <6>2. Above(t)[i - mid] = t[i]
            BY <3>1, <6>1
          <6> QED
            BY <4>2, <6>1, <6>2 DEF IsPoint
        <5> QED
          BY <5>1, <5>2, <3>1, <4>3
      <4>5. ASSUME NEW i \in f[t] .. n PROVE t[i].price = price \/ Better(price, t[i].price)
        <5>1. i - mid \in f[Above(t)] .. n - mid /\ i - mid \in 1 .. n - mid /\ i = mid + (i - mid)
          BY <3>1, <4>1, <4>3
        <5>2. Above(t)[i - mid] = t[i]
          BY <3>1, <5>1
        <5> QED
          BY <3>1, <4>2, <5>1, <5>2 DEF IsPoint
      <4> QED
        BY <4>3, <4>4, <4>5 DEF IsPoint
    <3>7. CASE t[mid].price # price /\ ~ Better(t[mid].price, price)
      <4>1. f[t] = f[Below(t)]
        BY <2>2, <3>4, <3>7 DEF Halve
      <4>2. IsPoint(f[Below(t)], Below(t), price)
        <5>1. mid - 1 \in 0 .. n - 1
          BY <3>1
        <5> QED
          BY <1>2, <3>1, <3>2, <5>1
      <4> HIDE DEF mid
      <4>3. f[t] \in 1 .. mid
        BY <3>1, <4>1, <4>2 DEF IsPoint
      <4>4. Better(price, t[mid].price)
        BY <3>1, <3>3, <3>7, BetterOrders
      <4>5. ASSUME NEW i \in 1 .. f[t] - 1 PROVE Better(t[i].price, price)
        <5>1. i \in 1 .. f[Below(t)] - 1 /\ i \in 1 .. mid - 1
          BY <3>1, <4>1, <4>3
        <5>2. Better(Below(t)[i].price, price)
          BY <4>2, <5>1 DEF IsPoint
        <5> QED
          BY <3>1, <5>1, <5>2
      <4>6. ASSUME NEW i \in f[t] .. n PROVE t[i].price = price \/ Better(price, t[i].price)
        <5>1. CASE i < mid
          <6>1. i \in f[Below(t)] .. mid - 1 /\ i \in 1 .. mid - 1
            BY <3>1, <4>1, <4>3, <5>1
          <6>2. Below(t)[i].price = price \/ Better(price, Below(t)[i].price)
            BY <3>1, <4>2, <6>1 DEF IsPoint
          <6> QED
            BY <3>1, <6>1, <6>2
        <5>2. CASE i = mid
          BY <4>4, <5>2
        <5>3. CASE i > mid
          BY <3>1, <3>2, <3>3, <4>3, <4>4, <5>3, BetterOrders
        <5> QED
          BY <5>1, <5>2, <5>3, <3>1, <4>3
      <4> QED
        BY <3>1, <4>3, <4>5, <4>6 DEF IsPoint
    <3> QED
      BY <3>5, <3>6, <3>7
  <2> QED
    BY <2>1, <2>2
<1>3. Nat \subseteq S
  <2> HIDE DEF S
  <2> QED
    BY <1>2, NumbersInduction
<1>4. \A s \in Seq(Level) : Sorted(s) => IsPoint(f[s], s, price)
  <2> SUFFICES ASSUME NEW s \in Seq(Level), Sorted(s) PROVE IsPoint(f[s], s, price)
    OBVIOUS
  <2>1. Len(s) \in S
    BY <1>3
  <2> QED
    BY <2>1
<1> QED
  BY <1>1, <1>4

-----------------------------------------------------------------------------
(* A change of a delta. *)

\* The levels before one and those from one on.
LEMMA LevelsBefore ==
  ASSUME NEW s \in Seq(Level), NEW p \in 1 .. Len(s) + 1
  PROVE  /\ SubSeq(s, 1, p - 1) \in Seq(Level)
         /\ Len(SubSeq(s, 1, p - 1)) = p - 1
         /\ \A i \in 1 .. p - 1 : SubSeq(s, 1, p - 1)[i] = s[i]
<1>1. \A i \in 1 .. Len(s) : s[i] \in Level
  OBVIOUS
<1> QED
  BY <1>1

LEMMA LevelsFrom ==
  ASSUME NEW s \in Seq(Level), NEW p \in 1 .. Len(s) + 1
  PROVE  /\ SubSeq(s, p, Len(s)) \in Seq(Level)
         /\ Len(SubSeq(s, p, Len(s))) = Len(s) - p + 1
         /\ \A i \in 1 .. Len(s) - p + 1 : SubSeq(s, p, Len(s))[i] = s[p + i - 1]
<1>1. \A i \in 1 .. Len(s) : s[i] \in Level
  OBVIOUS
<1> QED
  BY <1>1

LEMMA RemoveAtLevels ==
  ASSUME NEW s \in Seq(Level), NEW p \in 1 .. Len(s)
  PROVE  /\ RemoveAt(s, p) \in Seq(Level)
         /\ Len(RemoveAt(s, p)) = Len(s) - 1
         /\ \A i \in 1 .. Len(s) - 1 : RemoveAt(s, p)[i] = IF i < p THEN s[i] ELSE s[i + 1]
<1> DEFINE n == Len(s)
           a == SubSeq(s, 1, p - 1)
           b == SubSeq(s, p + 1, n)
<1>1. n \in Nat /\ p \in 1 .. n /\ p \in 1 .. n + 1 /\ p + 1 \in 1 .. n + 1
  OBVIOUS
<1>2. /\ a \in Seq(Level) /\ Len(a) = p - 1
      /\ \A i \in 1 .. p - 1 : a[i] = s[i]
  BY <1>1, LevelsBefore
<1>3. /\ b \in Seq(Level) /\ Len(b) = n - (p + 1) + 1
      /\ \A i \in 1 .. n - (p + 1) + 1 : b[i] = s[(p + 1) + i - 1]
  BY <1>1, LevelsFrom
<1>4. RemoveAt(s, p) = a \o b
  BY DEF RemoveAt
<1> HIDE DEF n, a, b
<1>5. /\ a \o b \in Seq(Level)
      /\ Len(a \o b) = Len(a) + Len(b)
      /\ \A i \in 1 .. Len(a) + Len(b) :
           (a \o b)[i] = IF i <= Len(a) THEN a[i] ELSE b[i - Len(a)]
  BY <1>2, <1>3, ConcatProperties
<1>6. Len(a) + Len(b) = n - 1
  BY <1>1, <1>2, <1>3
<1>7. ASSUME NEW i \in 1 .. n - 1
      PROVE  (a \o b)[i] = IF i < p THEN s[i] ELSE s[i + 1]
  <2>1. CASE i < p
    <3>1. i <= Len(a) /\ i \in 1 .. p - 1 /\ i \in 1 .. Len(a) + Len(b)
      BY <1>1, <1>2, <1>6, <2>1
    <3>2. (a \o b)[i] = a[i] /\ a[i] = s[i]
      BY <1>2, <1>5, <3>1
    <3> QED
      BY <2>1, <3>2
  <2>2. CASE i >= p
    <3>1. /\ i - (p - 1) \in 1 .. n - (p + 1) + 1
          /\ (p + 1) + (i - (p - 1)) - 1 = i + 1
          /\ ~ (i <= p - 1) /\ ~ (i < p)
      BY <1>1, <2>2
    <3>2. (a \o b)[i] = b[i - (p - 1)]
      BY <1>2, <1>5, <1>6, <3>1
    <3>3. b[i - (p - 1)] = s[(p + 1) + (i - (p - 1)) - 1]
      BY <1>3, <3>1
    <3> QED
      BY <3>1, <3>2, <3>3
  <2>3. i < p \/ i >= p
    BY <1>1
  <2> QED
    BY <2>1, <2>2, <2>3
<1> QED
  BY <1>4, <1>5, <1>6, <1>7 DEF n

LEMMA InsertAtLevels ==
  ASSUME NEW s \in Seq(Level), NEW p \in 1 .. Len(s) + 1, NEW d \in Level
  PROVE  /\ InsertAt(s, p, d) \in Seq(Level)
         /\ Len(InsertAt(s, p, d)) = Len(s) + 1
         /\ \A i \in 1 .. Len(s) + 1 :
              InsertAt(s, p, d)[i] = IF i < p THEN s[i] ELSE IF i = p THEN d ELSE s[i - 1]
<1> DEFINE n == Len(s)
           a == SubSeq(s, 1, p - 1)
           b == SubSeq(s, p, n)
           c == a \o <<d>>
<1>1. n \in Nat /\ p \in 1 .. n + 1
  OBVIOUS
<1>2. /\ a \in Seq(Level) /\ Len(a) = p - 1
      /\ \A i \in 1 .. p - 1 : a[i] = s[i]
  BY LevelsBefore
<1>3. /\ b \in Seq(Level) /\ Len(b) = n - p + 1
      /\ \A i \in 1 .. n - p + 1 : b[i] = s[p + i - 1]
  BY LevelsFrom
<1>4. InsertAt(s, p, d) = c \o b
  BY DEF InsertAt
<1> HIDE DEF n, a, b
<1>5. /\ c \in Seq(Level) /\ Len(c) = p
      /\ \A i \in 1 .. p : c[i] = IF i < p THEN s[i] ELSE d
  BY <1>1, <1>2
<1> HIDE DEF c
<1>6. /\ c \o b \in Seq(Level)
      /\ Len(c \o b) = Len(c) + Len(b)
      /\ \A i \in 1 .. Len(c) + Len(b) :
           (c \o b)[i] = IF i <= Len(c) THEN c[i] ELSE b[i - Len(c)]
  BY <1>3, <1>5, ConcatProperties
<1>7. Len(c) + Len(b) = n + 1
  BY <1>1, <1>3, <1>5
<1>8. ASSUME NEW i \in 1 .. n + 1
      PROVE  (c \o b)[i] = IF i < p THEN s[i] ELSE IF i = p THEN d ELSE s[i - 1]
  <2>1. CASE i <= p
    <3>1. i <= Len(c) /\ i \in 1 .. p /\ i \in 1 .. Len(c) + Len(b)
      BY <1>1, <1>5, <1>7, <2>1
    <3>2. (c \o b)[i] = c[i] /\ c[i] = IF i < p THEN s[i] ELSE d
      BY <1>5, <1>6, <3>1
    <3>3. ~ (i < p) => i = p
      BY <1>1, <2>1
    <3> QED
      BY <3>2, <3>3
  <2>2. CASE i > p
    <3>1. i - p \in 1 .. n - p + 1 /\ p + (i - p) - 1 = i - 1 /\ ~ (i <= p)
      BY <1>1, <2>2
    <3>2. (c \o b)[i] = b[i - p]
      BY <1>5, <1>6, <1>7, <3>1
    <3>3. ~ (i < p) /\ i # p
      BY <1>1, <2>2
    <3> QED
      BY <1>3, <3>1, <3>2, <3>3
  <2>3. i <= p \/ i > p
    BY <1>1
  <2> QED
    BY <2>1, <2>2, <2>3
<1> QED
  BY <1>4, <1>6, <1>7, <1>8 DEF n

\* What a change d makes of the levels s.
Changed(s, d, r) ==
  /\ r \in Seq(Level)
  /\ Sorted(r)
  /\ \A i \in DOMAIN r : \/ r[i] = d /\ d.volume > Dust
                         \/ r[i].price # d.price /\ \E j \in DOMAIN s : s[j] = r[i]
  /\ \A j \in DOMAIN s : s[j].price # d.price => \E i \in DOMAIN r : r[i] = s[j]
  /\ d.volume > Dust => \E i \in DOMAIN r : r[i] = d

LEMMA LevelFacts ==
  ASSUME NEW d \in Level
  PROVE  /\ d.price \in Prices /\ d.price \in Nat
         /\ d.volume \in 0 .. MaxVolume /\ d.volume \in Nat
         /\ Dust \in Nat
<1>1. d.price \in Prices /\ d.volume \in 0 .. MaxVolume
  BY DEF Level
<1>2. d.price \in Nat
  BY <1>1, LevelAssumption
<1>3. Dust \in Nat /\ d.volume \in Nat
  BY <1>1, LevelAssumption
<1> QED
  BY <1>1, <1>2, <1>3

\* Where a price is not at its point, no level has it.
LEMMA PointTells ==
  ASSUME NEW s \in Seq(Level), Sorted(s), NEW price \in Nat, NEW p, IsPoint(p, s, price)
  PROVE  /\ p \in Nat
         /\ \A i \in 1 .. p - 1 : s[i].price # price
         /\ \A i \in p + 1 .. Len(s) : Better(price, s[i].price) /\ s[i].price # price
         /\ ~ Present(s, p, price) => \A i \in p .. Len(s) : Better(price, s[i].price) /\ s[i].price # price
<1>1. p \in 1 .. Len(s) + 1 /\ Len(s) \in Nat /\ DOMAIN s = 1 .. Len(s)
  BY DEF IsPoint
<1>2. \A i \in 1 .. Len(s) : s[i].price \in Nat
  BY PricesAreNumbers
<1>3. ASSUME NEW i \in 1 .. p - 1 PROVE s[i].price # price
  <2>1. Better(s[i].price, price)
    BY DEF IsPoint
  <2> QED
    BY <1>1, <2>1 DEF Better
<1>4. ASSUME NEW i \in p + 1 .. Len(s) PROVE Better(price, s[i].price) /\ s[i].price # price
  <2>1. p \in DOMAIN s /\ i \in DOMAIN s /\ p < i
    BY <1>1
  <2>2. Better(s[p].price, s[i].price)
    BY <2>1 DEF Sorted
  <2>3. s[p].price = price \/ Better(price, s[p].price)
    BY <1>1, <2>1 DEF IsPoint
  <2>4. s[p].price \in Nat /\ s[i].price \in Nat
    BY <1>1, <1>2, <2>1
  <2>5. Better(price, s[i].price)
    BY <2>2, <2>3, <2>4, BetterOrders
  <2> QED
    BY <2>4, <2>5, BetterOrders
<1>5. ASSUME ~ Present(s, p, price), NEW i \in p .. Len(s)
      PROVE  Better(price, s[i].price) /\ s[i].price # price
  <2>1. CASE i = p
    <3>1. s[p].price # price
      BY <1>1, <1>5, <2>1 DEF Present
    <3> QED
      BY <2>1, <3>1 DEF IsPoint
  <2>2. CASE i # p
    BY <1>1, <1>4, <2>2
  <2> QED
    BY <2>1, <2>2
<1> QED
  BY <1>1, <1>3, <1>4, <1>5

\* The four cases of a change: the price is there or not, and goes or not.
LEMMA ChangeRemoves ==
  ASSUME NEW s \in Seq(Level), Sorted(s), NEW d \in Level, d.volume <= Dust,
         NEW p, IsPoint(p, s, d.price), Present(s, p, d.price)
  PROVE  Changed(s, d, RemoveAt(s, p))
<1> DEFINE r == RemoveAt(s, p)
           n == Len(s)
<1>1. /\ n \in Nat /\ p \in 1 .. n /\ s[p].price = d.price /\ ~ (d.volume > Dust)
      /\ DOMAIN s = 1 .. n
  BY LevelFacts DEF IsPoint, Present
<1>2. /\ r \in Seq(Level) /\ DOMAIN r = 1 .. n - 1
      /\ \A i \in 1 .. n - 1 : r[i] = IF i < p THEN s[i] ELSE s[i + 1]
  <2>1. n - 1 \in Nat
    BY <1>1
  <2>2. Len(r) = n - 1 /\ r \in Seq(Level)
    BY <1>1, RemoveAtLevels
  <2>3. \A i \in 1 .. n - 1 : r[i] = IF i < p THEN s[i] ELSE s[i + 1]
    BY <1>1, RemoveAtLevels
  <2> HIDE DEF r
  <2> QED
    BY <2>1, <2>2, <2>3
<1>3. \A i \in 1 .. n : i # p => s[i].price # d.price
  <2>1. d.price \in Nat
    BY LevelFacts
  <2>2. /\ \A i \in 1 .. p - 1 : s[i].price # d.price
        /\ \A i \in p + 1 .. n : s[i].price # d.price
    BY <2>1, PointTells
  <2> HIDE DEF n
  <2> QED
    BY <1>1, <2>2
<1> HIDE DEF r, n
<1>4. Sorted(r)
  <2> SUFFICES ASSUME NEW i \in 1 .. n - 1, NEW j \in 1 .. n - 1, i < j
               PROVE  Better(r[i].price, r[j].price)
    BY <1>2 DEF Sorted
  <2> DEFINE a == IF i < p THEN i ELSE i + 1
             b == IF j < p THEN j ELSE j + 1
  <2>1. a \in 1 .. n /\ b \in 1 .. n /\ a < b
    BY <1>1
  <2>2. r[i] = s[a] /\ r[j] = s[b]
    BY <1>1, <1>2
  <2> HIDE DEF a, b
  <2> QED
    BY <1>1, <2>1, <2>2 DEF Sorted
<1>5. ASSUME NEW i \in 1 .. n - 1
      PROVE  r[i].price # d.price /\ \E j \in 1 .. n : s[j] = r[i]
  <2> DEFINE a == IF i < p THEN i ELSE i + 1
  <2>1. a \in 1 .. n /\ a # p /\ r[i] = s[a]
    BY <1>1, <1>2
  <2> HIDE DEF a
  <2> QED
    BY <1>3, <2>1
<1>6. ASSUME NEW j \in 1 .. n, s[j].price # d.price
      PROVE  \E i \in 1 .. n - 1 : r[i] = s[j]
  <2> DEFINE a == IF j < p THEN j ELSE j - 1
  <2>1. j # p
    BY <1>1, <1>6
  <2>2. a \in 1 .. n - 1 /\ r[a] = s[j]
    BY <1>1, <1>2, <2>1
  <2> HIDE DEF a
  <2> QED
    BY <2>2
<1>7. Changed(s, d, r)
  BY <1>1, <1>2, <1>4, <1>5, <1>6 DEF Changed
<1> QED
  BY <1>7 DEF r

LEMMA ChangeUpdates ==
  ASSUME NEW s \in Seq(Level), Sorted(s), NEW d \in Level, d.volume > Dust,
         NEW p, IsPoint(p, s, d.price), Present(s, p, d.price)
  PROVE  Changed(s, d, [s EXCEPT ![p].volume = d.volume])
<1> DEFINE r == [s EXCEPT ![p].volume = d.volume]
           n == Len(s)
<1>1. n \in Nat /\ p \in 1 .. n /\ s[p].price = d.price /\ DOMAIN s = 1 .. n
  BY DEF IsPoint, Present
<1>2. s[p] \in Level
  BY <1>1
<1>3. [s[p] EXCEPT !.volume = d.volume] = d
  BY <1>1, <1>2 DEF Level
<1>4. /\ DOMAIN r = 1 .. n /\ r[p] = d
      /\ \A i \in 1 .. n : i # p => r[i] = s[i]
  BY <1>1, <1>3
<1>5. r \in Seq(Level)
  <2>1. r = [s EXCEPT ![p] = d]
    BY <1>3
  <2> QED
    BY <1>1, <2>1
<1>6. \A i \in 1 .. n : r[i].price = s[i].price
  BY <1>1, <1>4
<1>7. \A i \in 1 .. n : i # p => s[i].price # d.price
  <2>1. d.price \in Nat
    BY LevelFacts
  <2>2. /\ \A i \in 1 .. p - 1 : s[i].price # d.price
        /\ \A i \in p + 1 .. n : s[i].price # d.price
    BY <2>1, PointTells
  <2> HIDE DEF n
  <2> QED
    BY <1>1, <2>2
<1> HIDE DEF r, n
<1>8. Sorted(r)
  BY <1>1, <1>4, <1>6 DEF Sorted
<1>9. Changed(s, d, r)
  BY <1>1, <1>4, <1>5, <1>6, <1>7, <1>8 DEF Changed
<1> QED
  BY <1>9 DEF r

LEMMA ChangeInserts ==
  ASSUME NEW s \in Seq(Level), Sorted(s), NEW d \in Level, d.volume > Dust,
         NEW p, IsPoint(p, s, d.price), ~ Present(s, p, d.price)
  PROVE  Changed(s, d, InsertAt(s, p, d))
<1> DEFINE r == InsertAt(s, p, d)
           n == Len(s)
<1>1. n \in Nat /\ p \in 1 .. n + 1 /\ DOMAIN s = 1 .. n
  BY DEF IsPoint
<1>2. /\ r \in Seq(Level) /\ DOMAIN r = 1 .. n + 1
      /\ \A i \in 1 .. n + 1 : r[i] = IF i < p THEN s[i] ELSE IF i = p THEN d ELSE s[i - 1]
  <2>1. n + 1 \in Nat /\ Len(r) = n + 1 /\ r \in Seq(Level)
    BY <1>1, InsertAtLevels
  <2>2. \A i \in 1 .. n + 1 : r[i] = IF i < p THEN s[i] ELSE IF i = p THEN d ELSE s[i - 1]
    BY <1>1, InsertAtLevels
  <2> HIDE DEF r
  <2> QED
    BY <2>1, <2>2
<1>3. d.price \in Nat
  BY LevelFacts
<1>4. /\ \A i \in 1 .. p - 1 : Better(s[i].price, d.price) /\ s[i].price # d.price
      /\ \A i \in p .. n : Better(d.price, s[i].price) /\ s[i].price # d.price
  BY <1>3, PointTells DEF IsPoint
<1> HIDE DEF r, n
<1>5. Sorted(r)
  <2> SUFFICES ASSUME NEW i \in 1 .. n + 1, NEW j \in 1 .. n + 1, i < j
               PROVE  Better(r[i].price, r[j].price)
    BY <1>2 DEF Sorted
  <2>1. CASE i = p
    <3>1. r[i] = d /\ r[j] = s[j - 1] /\ j - 1 \in p .. n
      BY <1>1, <1>2, <2>1
    <3> QED
      BY <1>4, <3>1
  <2>2. CASE j = p
    <3>1. r[j] = d /\ r[i] = s[i] /\ i \in 1 .. p - 1
      BY <1>1, <1>2, <2>2
    <3> QED
      BY <1>4, <3>1
  <2>3. CASE i # p /\ j # p
    <3> DEFINE a == IF i < p THEN i ELSE i - 1
               b == IF j < p THEN j ELSE j - 1
    <3>1. a \in 1 .. n /\ b \in 1 .. n /\ a < b /\ r[i] = s[a] /\ r[j] = s[b]
      BY <1>1, <1>2, <2>3
    <3> HIDE DEF a, b
    <3> QED
      BY <1>1, <3>1 DEF Sorted
  <2> QED
    BY <2>1, <2>2, <2>3
<1>6. ASSUME NEW i \in 1 .. n + 1, i # p
      PROVE  r[i].price # d.price /\ \E j \in 1 .. n : s[j] = r[i]
  <2>1. CASE i < p
    BY <1>1, <1>2, <1>4, <2>1
  <2>2. CASE i > p
    <3>1. i - 1 \in p .. n /\ i - 1 \in 1 .. n /\ r[i] = s[i - 1]
      BY <1>1, <1>2, <2>2
    <3> QED
      BY <1>4, <3>1
  <2> QED
    BY <1>1, <1>6, <2>1, <2>2
<1>7. ASSUME NEW j \in 1 .. n
      PROVE  \E i \in 1 .. n + 1 : r[i] = s[j]
  <2> DEFINE a == IF j < p THEN j ELSE j + 1
  <2>1. a \in 1 .. n + 1 /\ r[a] = s[j]
    BY <1>1, <1>2
  <2> HIDE DEF a
  <2> QED
    BY <2>1
<1>8. r[p] = d
  BY <1>1, <1>2
<1>9. Changed(s, d, r)
  BY <1>1, <1>2, <1>5, <1>6, <1>7, <1>8 DEF Changed
<1> QED
  BY <1>9 DEF r

LEMMA ChangeIsNothing ==
  ASSUME NEW s \in Seq(Level), Sorted(s), NEW d \in Level, d.volume <= Dust,
         NEW p, IsPoint(p, s, d.price), ~ Present(s, p, d.price)
  PROVE  Changed(s, d, s)
<1>1. d.price \in Nat /\ ~ (d.volume > Dust)
  BY LevelFacts
<1>2. Len(s) \in Nat /\ DOMAIN s = 1 .. Len(s) /\ p \in 1 .. Len(s) + 1
  BY DEF IsPoint
<1>3. \A i \in 1 .. Len(s) : s[i].price # d.price
  <2>1. /\ \A i \in 1 .. p - 1 : s[i].price # d.price
        /\ \A i \in p .. Len(s) : s[i].price # d.price
    BY <1>1, PointTells
  <2> QED
    BY <1>2, <2>1
<1> QED
  BY <1>1, <1>2, <1>3 DEF Changed

\* insert_new_ask_preserve_order, insert_new_bid_preserve_order
LEMMA InsertedChanges ==
  ASSUME NEW s \in Seq(Level), Sorted(s), NEW d \in Level
  PROVE  Changed(s, d, Inserted(s, d))
<1> DEFINE p == InsertionPoint(s, d.price)
<1>1. IsPoint(p, s, d.price)
  BY LevelFacts, SearchFinds
<1>2. d.volume <= Dust \/ d.volume > Dust
  BY LevelFacts
<1>3. d.volume > Dust => ~ (d.volume <= Dust)
  BY LevelFacts
<1>4. Inserted(s, d) =
        IF Present(s, p, d.price)
          THEN IF d.volume <= Dust THEN RemoveAt(s, p) ELSE [s EXCEPT ![p].volume = d.volume]
          ELSE IF d.volume <= Dust THEN s ELSE InsertAt(s, p, d)
  BY DEF Inserted
<1> HIDE DEF p
<1>5. CASE Present(s, p, d.price) /\ d.volume <= Dust
  BY <1>1, <1>4, <1>5, ChangeRemoves
<1>6. CASE Present(s, p, d.price) /\ d.volume > Dust
  <2>1. Inserted(s, d) = [s EXCEPT ![p].volume = d.volume]
    BY <1>3, <1>4, <1>6
  <2>2. Changed(s, d, [s EXCEPT ![p].volume = d.volume])
    BY <1>1, <1>6, ChangeUpdates
  <2> QED
    BY <2>1, <2>2
<1>7. CASE ~ Present(s, p, d.price) /\ d.volume > Dust
  BY <1>1, <1>3, <1>4, <1>7, ChangeInserts
<1>8. CASE ~ Present(s, p, d.price) /\ d.volume <= Dust
  BY <1>1, <1>4, <1>8, ChangeIsNothing
<1> QED
  BY <1>2, <1>5, <1>6, <1>7, <1>8

-----------------------------------------------------------------------------
(* The volumes of a book. *)

OnePerPrice(s) == \A i, j \in DOMAIN s : s[i].price = s[j].price => i = j

\* VolumeAt, of any levels.
VolumeIn(s, p) ==
  LET at == {i \in DOMAIN s : s[i].price = p}
  IN  IF at = {} THEN 0 ELSE s[CHOOSE i \in at : TRUE].volume

LEMMA SortedIsOnePerPrice ==
  ASSUME NEW s \in Seq(Level), Sorted(s)
  PROVE  OnePerPrice(s)
<1> SUFFICES ASSUME NEW i \in DOMAIN s, NEW j \in DOMAIN s, i < j, s[i].price = s[j].price
             PROVE  FALSE
  <2>1. DOMAIN s \subseteq Nat
    OBVIOUS
  <2>2. \A i, j \in DOMAIN s : i < j \/ j < i \/ i = j
    BY <2>1
  <2> QED
    BY <2>2 DEF OnePerPrice
<1>1. Better(s[i].price, s[j].price)
  BY DEF Sorted
<1>2. s[i].price \in Nat
  BY PricesAreNumbers
<1> QED
  BY <1>1, <1>2, BetterOrders

LEMMA VolumeOfLevel ==
  ASSUME NEW s \in Seq(Level), OnePerPrice(s), NEW i \in DOMAIN s
  PROVE  VolumeIn(s, s[i].price) = s[i].volume
<1> DEFINE at == {k \in DOMAIN s : s[k].price = s[i].price}
<1>1. at = {i}
  BY DEF OnePerPrice
<1> HIDE DEF at
<1>2. (CHOOSE k \in at : TRUE) = i
  BY <1>1
<1> QED
  BY <1>1, <1>2 DEF VolumeIn, at

LEMMA VolumeOfNone ==
  ASSUME NEW s \in Seq(Level), NEW p, \A i \in DOMAIN s : s[i].price # p
  PROVE  VolumeIn(s, p) = 0
BY DEF VolumeIn

LEMMA VolumeType ==
  ASSUME NEW s \in Seq(Level), OnePerPrice(s), NEW p
  PROVE  VolumeIn(s, p) \in 0 .. MaxVolume
<1>1. CASE \E i \in DOMAIN s : s[i].price = p
  <2>1. PICK i \in DOMAIN s : s[i].price = p
    BY <1>1
  <2>2. s[i] \in Level
    BY <2>1
  <2> QED
    BY <2>1, <2>2, VolumeOfLevel DEF Level
<1>2. CASE ~ \E i \in DOMAIN s : s[i].price = p
  <2>1. VolumeIn(s, p) = 0
    BY <1>2, VolumeOfNone
  <2> QED
    BY <2>1, LevelAssumption
<1> QED
  BY <1>1, <1>2

\* The levels of a price make its volume, wherever they are.
LEMMA SameVolume ==
  ASSUME NEW s \in Seq(Level), OnePerPrice(s), NEW r \in Seq(Level), OnePerPrice(r), NEW p,
         \A j \in DOMAIN s : s[j].price = p => \E i \in DOMAIN r : r[i] = s[j],
         \A i \in DOMAIN r : r[i].price = p => \E j \in DOMAIN s : s[j] = r[i]
  PROVE  VolumeIn(r, p) = VolumeIn(s, p)
<1>1. CASE \E j \in DOMAIN s : s[j].price = p
  <2>1. PICK j \in DOMAIN s : s[j].price = p
    BY <1>1
  <2>2. PICK i \in DOMAIN r : r[i] = s[j]
    BY <2>1
  <2>3. VolumeIn(s, p) = s[j].volume
    BY <2>1, VolumeOfLevel
  <2>4. VolumeIn(r, p) = r[i].volume
    <3>1. r[i].price = p
      BY <2>1, <2>2
    <3>2. VolumeIn(r, r[i].price) = r[i].volume
      BY VolumeOfLevel
    <3> QED
      BY <3>1, <3>2
  <2> QED
    BY <2>2, <2>3, <2>4
<1>2. CASE ~ \E j \in DOMAIN s : s[j].price = p
  <2>1. \A i \in DOMAIN r : r[i].price # p
    BY <1>2
  <2> QED
    BY <1>2, <2>1, VolumeOfNone
<1> QED
  BY <1>1, <1>2

\* A change sets the volume of its price and leaves the others.
LEMMA ChangedVolumes ==
  ASSUME NEW s \in Seq(Level), Sorted(s), NEW d \in Level, NEW r, Changed(s, d, r), NEW p
  PROVE  VolumeIn(r, p) = IF p = d.price THEN IF d.volume <= Dust THEN 0 ELSE d.volume
                                         ELSE VolumeIn(s, p)
<1>1. r \in Seq(Level) /\ OnePerPrice(r) /\ OnePerPrice(s)
  BY SortedIsOnePerPrice DEF Changed
<1>2. d.volume > Dust <=> ~ (d.volume <= Dust)
  BY LevelFacts
<1>3. CASE p = d.price /\ d.volume > Dust
  <2>1. PICK i \in DOMAIN r : r[i] = d
    BY <1>3 DEF Changed
  <2>2. VolumeIn(r, d.price) = d.volume
    BY <1>1, <2>1, VolumeOfLevel
  <2> QED
    BY <1>2, <1>3, <2>2
<1>4. CASE p = d.price /\ d.volume <= Dust
  <2>1. \A i \in DOMAIN r : r[i].price # d.price
    BY <1>2, <1>4 DEF Changed
  <2>2. VolumeIn(r, d.price) = 0
    BY <1>1, <2>1, VolumeOfNone
  <2> QED
    BY <1>4, <2>2
<1>5. CASE p # d.price
  <2>1. \A j \in DOMAIN s : s[j].price = p => \E i \in DOMAIN r : r[i] = s[j]
    BY <1>5 DEF Changed
  <2>2. \A i \in DOMAIN r : r[i].price = p => \E j \in DOMAIN s : s[j] = r[i]
    BY <1>5 DEF Changed
  <2>3. VolumeIn(r, p) = VolumeIn(s, p)
    BY <1>1, <2>1, <2>2, SameVolume
  <2> QED
    BY <1>5, <2>3
<1> QED
  BY <1>2, <1>3, <1>4, <1>5

-----------------------------------------------------------------------------
(* The steps. *)

\* A full book has one level of each of its prices.
LEMMA FullBooksAreLevels ==
  ASSUME NEW b \in FullBooks
  PROVE  /\ b \in Seq(Level) /\ OnePerPrice(b)
         /\ Len(b) \in 0 .. Cardinality(Prices)
<1>1. PICK P \in SUBSET Prices :
        \E f \in Orderings(P), v \in [P -> 1 .. MaxVolume] :
          b = [i \in DOMAIN f |-> [price |-> f[i], volume |-> v[f[i]]]]
  BY DEF FullBooks
<1>2. PICK f \in Orderings(P), v \in [P -> 1 .. MaxVolume] :
        b = [i \in DOMAIN f |-> [price |-> f[i], volume |-> v[f[i]]]]
  BY <1>1
<1>3. Cardinality(P) \in 0 .. Cardinality(Prices)
  <2>1. IsFiniteSet(P) /\ Cardinality(P) <= Cardinality(Prices)
    BY LevelAssumption, FS_Subset
  <2>2. Cardinality(P) \in Nat /\ Cardinality(Prices) \in Nat
    BY <2>1, LevelAssumption, FS_CardinalityType
  <2> QED
    BY <2>1, <2>2
<1>4. /\ f \in [1 .. Cardinality(P) -> P]
      /\ \A i, j \in DOMAIN f : f[i] = f[j] => i = j
  BY <1>2 DEF Orderings
<1>5. MaxVolume \in Nat
  BY LevelAssumption
<1>6. \A i \in 1 .. Cardinality(P) : [price |-> f[i], volume |-> v[f[i]]] \in Level
  BY <1>1, <1>2, <1>4, <1>5 DEF Level
<1>7. DOMAIN b = 1 .. Cardinality(P) /\ \A i \in DOMAIN b : b[i] \in Level /\ b[i].price = f[i]
  BY <1>2, <1>4, <1>6
<1>8. b \in Seq(Level) /\ Len(b) = Cardinality(P)
  <2>1. b = [i \in 1 .. Cardinality(P) |-> b[i]] /\ Cardinality(P) \in Nat
    BY <1>2, <1>3, <1>4, <1>7
  <2> QED
    BY <1>7, <2>1
<1>9. OnePerPrice(b)
  BY <1>4, <1>7 DEF OnePerPrice
<1> QED
  BY <1>3, <1>8, <1>9

\* An order of the numbers up to n has all of them.
LEMMA OrderingsAreOnto ==
  ASSUME NEW n \in Nat, NEW order \in Orderings(1 .. n)
  PROVE  /\ order \in [1 .. n -> 1 .. n]
         /\ \A i, j \in 1 .. n : order[i] = order[j] => i = j
         /\ \A k \in 1 .. n : \E i \in 1 .. n : order[i] = k
<1>1. IsFiniteSet(1 .. n) /\ Cardinality(1 .. n) = n
  BY FS_Interval
<1>2. order \in [1 .. n -> 1 .. n] /\ \A i, j \in 1 .. n : order[i] = order[j] => i = j
  BY <1>1 DEF Orderings
<1>3. order \in Injection(1 .. n, 1 .. n)
  BY <1>2 DEF Injection, IsInjective
<1>4. order \in Surjection(1 .. n, 1 .. n)
  BY <1>1, <1>3, FS_Injection
<1> QED
  BY <1>2, <1>4 DEF Surjection

\* sort_by_price: the same levels, in order.
LEMMA SortSorts ==
  ASSUME NEW s \in Seq(Level), OnePerPrice(s), NEW order \in Orderings(1 .. Len(s)), NEW r,
         \A j \in DOMAIN s : \A i \in 1 .. j - 1 : ~ Better(s[order[j]].price, s[order[i]].price),
         r = [i \in DOMAIN s |-> s[order[i]]]
  PROVE  /\ r \in Seq(Level) /\ Sorted(r)
         /\ \A p : VolumeIn(r, p) = VolumeIn(s, p)
<1> DEFINE n == Len(s)
<1>1. n \in Nat /\ DOMAIN s = 1 .. n /\ \A i \in 1 .. n : s[i] \in Level
  OBVIOUS
<1> HIDE DEF n
<1>2. /\ order \in [1 .. n -> 1 .. n]
      /\ \A i, j \in 1 .. n : order[i] = order[j] => i = j
      /\ \A k \in 1 .. n : \E i \in 1 .. n : order[i] = k
  BY <1>1, OrderingsAreOnto DEF n
<1>3. DOMAIN r = 1 .. n /\ \A i \in 1 .. n : r[i] = s[order[i]] /\ r[i] \in Level
  BY <1>1, <1>2
<1>4. r \in Seq(Level)
  BY <1>1, <1>3
<1>5. Sorted(r)
  <2> SUFFICES ASSUME NEW i \in 1 .. n, NEW j \in 1 .. n, i < j
               PROVE  Better(r[i].price, r[j].price)
    BY <1>3 DEF Sorted
  <2>1. i \in 1 .. j - 1
    BY <1>1
  <2>2. ~ Better(r[j].price, r[i].price)
    BY <1>1, <1>3, <2>1
  <2>3. r[i].price # r[j].price
    <3>1. i # j
      BY <1>1
    <3>2. order[i] # order[j]
      BY <1>2, <3>1
    <3>3. order[i] \in DOMAIN s /\ order[j] \in DOMAIN s
      BY <1>1, <1>2
    <3>4. s[order[i]].price # s[order[j]].price
      BY <3>2, <3>3 DEF OnePerPrice
    <3> QED
      BY <1>3, <3>4
  <2>4. r[i].price \in Nat /\ r[j].price \in Nat
    BY <1>3, <1>4, LevelFacts
  <2> QED
    BY <2>2, <2>3, <2>4, BetterOrders
<1>6. ASSUME NEW p PROVE VolumeIn(r, p) = VolumeIn(s, p)
  <2>1. \A j \in DOMAIN s : \E i \in DOMAIN r : r[i] = s[j]
    BY <1>1, <1>2, <1>3
  <2>2. \A i \in DOMAIN r : \E j \in DOMAIN s : s[j] = r[i]
    BY <1>1, <1>2, <1>3
  <2>3. OnePerPrice(r)
    BY <1>4, <1>5, SortedIsOnePerPrice
  <2> QED
    <3>1. \A j \in DOMAIN s : s[j].price = p => \E i \in DOMAIN r : r[i] = s[j]
      BY <2>1
    <3>2. \A i \in DOMAIN r : r[i].price = p => \E j \in DOMAIN s : s[j] = r[i]
      BY <2>2
    <3> QED
      BY <1>4, <2>3, <3>1, <3>2, SameVolume
<1> QED
  BY <1>4, <1>5, <1>6

\* Before the levels are sorted, each price is there once at most.
LevelsInv ==
  /\ TypeOK
  /\ OnePerPrice(levels)
  /\ stage = "empty" => levels = <<>>
  /\ stage = "copied" => Len(levels) \in 0 .. Cardinality(Prices)
  /\ stage = "sorted" => Sorted(levels)

LEMMA SameSide == ASSUME side' = side, Sorted(levels') PROVE (Sorted(levels))'
BY DEF Sorted, Better

LEMMA LevelsStart == ASSUME Init PROVE LevelsInv
BY DEF Init, LevelsInv, TypeOK, OnePerPrice

LEMMA LevelsSteps ==
  ASSUME LevelsInv, [Next]_vars
  PROVE  LevelsInv'
<1>1. CASE Copy
  BY <1>1, FullBooksAreLevels DEF Copy, LevelsInv, TypeOK, OnePerPrice
<1>2. CASE Sort
  <2>1. /\ levels \in Seq(Level) /\ OnePerPrice(levels)
        /\ Len(levels) \in 0 .. Cardinality(Prices)
    BY <1>2 DEF Sort, LevelsInv, TypeOK
  <2>2. PICK order \in Orderings(1 .. Len(levels)) :
          /\ \A j \in DOMAIN levels : \A i \in 1 .. j - 1 :
               ~ Better(levels[order[j]].price, levels[order[i]].price)
          /\ levels' = [i \in DOMAIN levels |-> levels[order[i]]]
    BY <1>2, <2>1 DEF Sort, Orders
  <2>3. levels' \in Seq(Level) /\ Sorted(levels')
    BY <2>1, <2>2, SortSorts
  <2>4. OnePerPrice(levels')
    BY <2>3, SortedIsOnePerPrice
  <2> QED
    BY <1>2, <2>3, <2>4, SameSide DEF Sort, LevelsInv, TypeOK, OnePerPrice
<1>3. ASSUME NEW d \in Level, Apply(d) PROVE LevelsInv'
  <2>1. levels \in Seq(Level) /\ Sorted(levels)
    BY <1>3 DEF Apply, LevelsInv, TypeOK
  <2>2. Changed(levels, d, levels')
    BY <1>3, <2>1, InsertedChanges DEF Apply
  <2>3. levels' \in Seq(Level) /\ Sorted(levels')
    BY <2>2 DEF Changed
  <2>4. OnePerPrice(levels')
    BY <2>3, SortedIsOnePerPrice
  <2> QED
    BY <1>3, <2>3, <2>4, SameSide DEF Apply, LevelsInv, TypeOK, OnePerPrice
<1>4. CASE Reset
  BY <1>4 DEF Reset, LevelsInv, TypeOK, OnePerPrice
<1>5. CASE UNCHANGED vars
  BY <1>5 DEF vars, LevelsInv, TypeOK, OnePerPrice, Sorted, Better
<1> QED
  BY <1>1, <1>2, <1>3, <1>4, <1>5 DEF Next

LEMMA LevelsInvHolds == Spec => []LevelsInv
BY LevelsStart, LevelsSteps, PTL DEF Spec

\* data/order_book.py: the sides of a book keep their types, whatever changes come.
THEOREM LevelTypes == Spec => []TypeOK
<1>1. LevelsInv => TypeOK
  BY DEF LevelsInv
<1> QED
  BY <1>1, LevelsInvHolds, PTL

\* insert_new_ask_preserve_order and insert_new_bid_preserve_order: with any
\* prices, volumes and changes the best price of a sorted book stays first, and
\* no price is there twice.
THEOREM StaysSorted == Spec => []BestFirst
<1>1. LevelsInv => BestFirst
  BY DEF LevelsInv, BestFirst, Sorted
<1> QED
  BY <1>1, LevelsInvHolds, PTL

\* The volumes as the map of PriceMap.
Volumes(s) == [p \in Prices |-> VolumeIn(s, p)]

LEMMA MapVolumes ==
  /\ [p \in Prices |-> VolumeAt(p)] = Volumes(levels)
  /\ [p \in Prices |-> VolumeAt(p)]' = Volumes(levels')
BY DEF Volumes, VolumeAt, VolumeIn

LEMMA EmptyVolumes == Volumes(<<>>) = [p \in Prices |-> 0]
BY DEF Volumes, VolumeIn

\* Each step of the levels is a step of the map, or leaves it.
LEMMA StepsOfTheMap ==
  ASSUME LevelsInv, LevelsInv', [Next]_vars
  PROVE  [Map!Next]_(<<[p \in Prices |-> VolumeAt(p)], stage # "empty">>)
<1> DEFINE V == [p \in Prices |-> VolumeAt(p)]
<1>1. V = Volumes(levels) /\ V' = Volumes(levels')
  BY MapVolumes
<1> HIDE DEF V
<1>2. levels \in Seq(Level) /\ OnePerPrice(levels) /\ levels' \in Seq(Level) /\ OnePerPrice(levels')
  BY DEF LevelsInv, TypeOK, OnePerPrice
<1>3. CASE Copy
  <2>1. V' \in [Prices -> 0 .. MaxVolume]
    BY <1>1, <1>2, VolumeType DEF Volumes
  <2>2. Map!Load
    BY <1>3, <2>1 DEF Copy, Map!Load, Map!Volumes, V
  <2> QED
    BY <2>2 DEF Map!Next, V
<1>4. CASE Sort
  <2>1. Len(levels) \in 0 .. Cardinality(Prices)
    BY <1>4 DEF Sort, LevelsInv
  <2>2. PICK order \in Orderings(1 .. Len(levels)) :
          /\ \A j \in DOMAIN levels : \A i \in 1 .. j - 1 :
               ~ Better(levels[order[j]].price, levels[order[i]].price)
          /\ levels' = [i \in DOMAIN levels |-> levels[order[i]]]
    BY <1>4, <2>1 DEF Sort, Orders
  <2>3. \A p : VolumeIn(levels', p) = VolumeIn(levels, p)
    BY <1>2, <2>2, SortSorts
  <2>4. V' = V
    BY <1>1, <2>3 DEF Volumes
  <2> QED
    BY <1>4, <2>4 DEF Sort, V
<1>5. ASSUME NEW d \in Level, Apply(d) PROVE Map!Change(d.price, d.volume)
  <2>1. Sorted(levels) /\ stage = "sorted" /\ stage' = "sorted"
    BY <1>5 DEF Apply, LevelsInv
  <2>2. Changed(levels, d, levels')
    BY <1>2, <1>5, <2>1, InsertedChanges DEF Apply
  <2>3. \A p : VolumeIn(levels', p) = IF p = d.price THEN IF d.volume <= Dust THEN 0 ELSE d.volume
                                                     ELSE VolumeIn(levels, p)
    BY <1>2, <2>1, <2>2, ChangedVolumes
  <2>4. V' = [V EXCEPT ![d.price] = IF d.volume <= Dust THEN 0 ELSE d.volume]
    BY <1>1, <2>3 DEF Volumes
  <2> QED
    BY <2>1, <2>4 DEF Map!Change, V
<1>6. CASE Reset
  <2>1. V' = [p \in Prices |-> 0]
    BY <1>1, <1>6, EmptyVolumes DEF Reset
  <2>2. Map!Forget
    BY <1>6, <2>1 DEF Reset, Map!Forget, Map!Nothing, V
  <2> QED
    BY <2>2 DEF Map!Next, V
<1>7. CASE UNCHANGED vars
  <2>1. V' = V
    BY <1>1, <1>7 DEF vars
  <2> QED
    BY <1>7, <2>1 DEF vars, V
<1>8. CASE \E d \in Level : Apply(d)
  <2>1. PICK d \in Level : Apply(d)
    BY <1>8
  <2>2. Map!Change(d.price, d.volume) /\ d.price \in Prices /\ d.volume \in Map!Volumes
    BY <1>5, <2>1, LevelFacts DEF Map!Volumes
  <2> QED
    BY <2>2 DEF Map!Next
<1> QED
  BY <1>3, <1>4, <1>6, <1>7, <1>8 DEF Next

\* update_for_..., sort_by_price and the binary search: the levels of a book, with
\* any prices, volumes and changes, implement the map from prices to the volumes
\* last heard of.
THEOREM LevelsAreAMap == Spec => KeepsMap
<1>1. Init => Map!Init
  <2> SUFFICES ASSUME Init PROVE Map!Init
    OBVIOUS
  <2>1. [p \in Prices |-> VolumeAt(p)] = [p \in Prices |-> 0]
    BY MapVolumes, EmptyVolumes DEF Init
  <2> QED
    BY <2>1 DEF Init, Map!Init, Map!Nothing
<1> QED
  BY <1>1, LevelsInvHolds, StepsOfTheMap, PTL DEF Spec, KeepsMap, Map!Spec
=============================================================================
