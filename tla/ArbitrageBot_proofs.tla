------------------------ MODULE ArbitrageBot_proofs ------------------------
(***************************************************************************)
(* What the REST bot never does, whatever the exchanges' books, balances   *)
(* and caps are, and whatever the thresholds of its command line.          *)
(***************************************************************************)
EXTENDS ArbitrageBot, TLAPS

-----------------------------------------------------------------------------
(***************************************************************************)
(* Arithmetic.                                                             *)
(***************************************************************************)
LEMMA Quotient ==
  ASSUME NEW a \in Nat, NEW b \in Nat \ {0}
  PROVE  a \div b \in Nat /\ (a \div b) * b <= a
OBVIOUS

LEMMA Remainder ==
  ASSUME NEW v \in Nat
  PROVE  v - (v % Lot) \in 0 .. v
BY LotAssumption

LEMMA Scaled ==
  ASSUME NEW u \in Nat, NEW v \in Nat, NEW p \in Nat, u <= v
  PROVE  u * p <= v * p
OBVIOUS

\* A quotient of a smaller part of what v units cost is at most v.
LEMMA Cheaper ==
  ASSUME NEW u \in Nat, NEW v \in Nat, NEW p \in Nat \ {0}, NEW base \in Nat,
         10 * (u * p) <= 9 * base, base < v * p
  PROVE  u <= v
<1>1. SUFFICES ASSUME v < u PROVE FALSE
  OBVIOUS
<1>2. v * p <= u * p
  BY <1>1, Scaled
<1>3. v * p \in Nat /\ u * p \in Nat
  OBVIOUS
<1> QED
  BY <1>2, <1>3

-----------------------------------------------------------------------------
(***************************************************************************)
(* get_change.                                                             *)
(***************************************************************************)

\* What counts as more than nothing is a gain, and every gain is a natural.
LEMMA Gain ==
  ASSUME NEW a \in Nat, NEW b \in Nat
  PROVE  GetChange(a, b) \in Nat /\ (GetChange(a, b) > 1 => a > b)
<1>1. CASE 2000 * (a - b) > a + b
  <2>1. a > b
    BY <1>1
  <2>2. (20000 * (a - b)) \div (a + b) \in Nat
    BY <2>1, Quotient
  <2> QED
    BY <1>1, <2>1, <2>2 DEF GetChange
<1>2. CASE ~ (2000 * (a - b) > a + b)
  BY <1>2 DEF GetChange
<1> QED
  BY <1>1, <1>2

-----------------------------------------------------------------------------
(***************************************************************************)
(* The volume.                                                             *)
(***************************************************************************)
LEMMA BuyableBounds ==
  ASSUME NEW v \in Nat, NEW base \in Nat, NEW p \in Nat \ {0}
  PROVE  /\ Buyable(v, base, p) \in Nat
         /\ Buyable(v, base, p) <= v
         /\ Buyable(v, base, p) * p <= base
<1>1. CASE base >= v * p
  BY <1>1 DEF Buyable
<1>2. CASE ~ (base >= v * p)
  <2> DEFINE u == (9 * base) \div (10 * p)
  <2>0. 9 * base \in Nat /\ 10 * p \in Nat \ {0}
    OBVIOUS
  <2>1. u \in Nat /\ u * (10 * p) <= 9 * base
    BY <2>0, Quotient
  <2>2. Buyable(v, base, p) = u
    BY <1>2 DEF Buyable
  <2> HIDE DEF u
  <2>3. u * (10 * p) = 10 * (u * p) /\ u * p \in Nat /\ v * p \in Nat
    BY <2>1
  <2>4. 10 * (u * p) <= 9 * base
    BY <2>1, <2>3
  <2>5. u * p <= base
    BY <2>3, <2>4
  <2>6. base < v * p
    BY <1>2, <2>3
  <2>7. u <= v
    BY <2>1, <2>4, <2>6, Cheaper
  <2> QED
    BY <2>1, <2>2, <2>5, <2>7
<1> QED
  BY <1>1, <1>2

\* determine_minimum_volume stays within the books and the balances.
LEMMA DetermineBounds ==
  ASSUME NEW bid \in Level, NEW ask \in Level, NEW coins \in Nat, NEW base \in Nat
  PROVE  LET d == DetermineMinimumVolume(bid, ask, coins, base)
         IN  /\ d \in Nat
             /\ d <= bid.vol /\ d <= ask.vol /\ d <= coins
             /\ d * ask.price <= base
<1> DEFINE w == VolumeOfBooks(bid, ask)
           u == AtMost(w, coins)
<1>1. w \in Nat /\ w <= bid.vol /\ w <= ask.vol
  BY DEF VolumeOfBooks, Level
<1>2. u \in Nat /\ u <= w /\ u <= coins
  BY <1>1 DEF AtMost
<1> HIDE DEF w, u
<1>3. /\ Buyable(u, base, ask.price) \in Nat
      /\ Buyable(u, base, ask.price) <= u
      /\ Buyable(u, base, ask.price) * ask.price <= base
  BY <1>2, BuyableBounds DEF Level
<1>4. DetermineMinimumVolume(bid, ask, coins, base) = Buyable(u, base, ask.price)
  BY DEF DetermineMinimumVolume, w, u
<1> QED
  BY <1>1, <1>2, <1>3, <1>4 DEF Level

\* The caps take volume off, and never add any. A minimum keeps dust out, unless
\* the maximum is dust.
LEMMA CapBounds ==
  ASSUME NEW d \in Nat, NEW minCap_ \in Nat, NEW maxCap_ \in Nat
  PROVE  LET b == AdjustMaximumVolumeByTradingCap(maxCap_,
                    AdjustMinimumVolumeByTradingCap(minCap_, d))
         IN  /\ b \in Int
             /\ b <= d
             /\ maxCap_ # 0 => 2 * b <= maxCap_
             /\ b > 0 /\ minCap_ >= Tiny /\ (maxCap_ # 0 => maxCap_ >= 2 * Tiny)
                  => b >= Tiny
<1> DEFINE a == AdjustMinimumVolumeByTradingCap(minCap_, d)
           b == AdjustMaximumVolumeByTradingCap(maxCap_, a)
<1>1. a \in Int /\ a <= d /\ (a > 0 => a >= minCap_)
  BY DEF AdjustMinimumVolumeByTradingCap
<1> HIDE DEF a
<1>2. maxCap_ \div 2 \in Nat /\ (maxCap_ \div 2) * 2 <= maxCap_
      /\ maxCap_ < (maxCap_ \div 2) * 2 + 2
  OBVIOUS
<1>3. b \in Int /\ b <= a /\ (maxCap_ # 0 => 2 * b <= maxCap_)
      /\ (b = a \/ (maxCap_ # 0 /\ b = maxCap_ \div 2))
  BY <1>1, <1>2 DEF AdjustMaximumVolumeByTradingCap
<1> HIDE DEF b
<1>4. ASSUME b > 0, minCap_ >= Tiny, maxCap_ # 0 => maxCap_ >= 2 * Tiny
      PROVE  b >= Tiny
  BY <1>1, <1>2, <1>3, <1>4, LotAssumption
<1> QED
  BY <1>1, <1>3, <1>4 DEF b, a

\* Rounding takes volume off too, if it is written without an exponent.
LEMMA RoundBounds ==
  ASSUME NEW b \in Int, NEW v \in RoundVolumeByExchangeRules(b)
  PROVE  /\ v \in Int
         /\ v > 0 => b > 0
         /\ b >= Tiny => v <= b
<1>1. CASE b <= 0
  BY <1>1, LotAssumption DEF RoundVolumeByExchangeRules
<1>2. CASE Exponent(b)
  <2>1. b < Tiny /\ b > 0
    BY <1>2 DEF Exponent
  <2>2. v \in {b} \cup Misread
    BY <1>2, <2>1 DEF RoundVolumeByExchangeRules
  <2> QED
    BY <2>1, <2>2, LotAssumption
<1>3. CASE ~ (b <= 0) /\ ~ Exponent(b)
  BY <1>3, Remainder DEF RoundVolumeByExchangeRules
<1> QED
  BY <1>1, <1>2, <1>3

-----------------------------------------------------------------------------
(***************************************************************************)
(* The pairs.                                                              *)
(***************************************************************************)

\* The first level of a book is its best one.
LEMMA BestLevels ==
  /\ \A bids \in Bids, i \in Nat :
        i \in DOMAIN bids => /\ Head(bids) \in Level /\ bids[i] \in Level
                            /\ bids[i].price <= Head(bids).price
  /\ \A asks \in Asks, i \in Nat :
        i \in DOMAIN asks => /\ Head(asks) \in Level /\ asks[i] \in Level
                            /\ asks[i].price >= Head(asks).price
<1>1. ASSUME NEW bids \in Bids, NEW i \in Nat, i \in DOMAIN bids
      PROVE  /\ Head(bids) \in Level /\ bids[i] \in Level
             /\ bids[i].price <= Head(bids).price
  <2>1. bids \in Seq(Level) /\ 1 \in DOMAIN bids /\ Head(bids) = bids[1] /\ i >= 1
    BY <1>1, BotAssumption
  <2>2. i > 1 => bids[1].price > bids[i].price
    BY <1>1, <2>1, BotAssumption
  <2>3. bids[1] \in Level /\ bids[i] \in Level
    BY <1>1, <2>1
  <2>4. bids[i].price \in Nat
    BY <2>3 DEF Level
  <2>5. bids[i].price <= bids[1].price
    BY <2>1, <2>2, <2>3, <2>4 DEF Level
  <2> QED
    BY <2>1, <2>3, <2>5
<1>2. ASSUME NEW asks \in Asks, NEW i \in Nat, i \in DOMAIN asks
      PROVE  /\ Head(asks) \in Level /\ asks[i] \in Level
             /\ asks[i].price >= Head(asks).price
  <2>1. asks \in Seq(Level) /\ 1 \in DOMAIN asks /\ Head(asks) = asks[1] /\ i >= 1
    BY <1>2, BotAssumption
  <2>2. i > 1 => asks[1].price < asks[i].price
    BY <1>2, <2>1, BotAssumption
  <2>3. asks[1] \in Level /\ asks[i] \in Level
    BY <1>2, <2>1
  <2>4. asks[i].price >= asks[1].price
    BY <2>1, <2>2, <2>3 DEF Level
  <2> QED
    BY <2>1, <2>3, <2>4
<1> QED
  BY <1>1, <1>2

\* What is said of a pair that is found with these balances and caps.
Sound(p, coins, base, minCap_, maxCap_) ==
  /\ p \in PairType
  /\ p.sell <= p.bid.price /\ p.buy >= p.ask.price /\ p.sell > p.buy
  /\ p.wanted >= Tiny =>
       /\ p.vol <= p.bid.vol /\ p.vol <= p.ask.vol
       /\ p.vol <= coins /\ p.vol * p.ask.price <= base
       /\ maxCap_ # 0 => 2 * p.vol <= maxCap_
  /\ minCap_ >= Tiny /\ (maxCap_ # 0 => maxCap_ >= 2 * Tiny) => p.wanted >= Tiny

\* What search_for_arbitrage goes to the exchanges with.
LEMMA PairBounds ==
  ASSUME NEW bids \in Bids, NEW asks \in Asks,
         NEW coins \in Nat, NEW base \in Nat, NEW minCap_ \in Nat, NEW maxCap_ \in Nat,
         NEW v \in RoundVolumeByExchangeRules(
                     Volume(Head(bids), Head(asks), coins, base, minCap_, maxCap_)),
         NEW p \in Pairs(bids, asks,
                     Volume(Head(bids), Head(asks), coins, base, minCap_, maxCap_), v)
  PROVE  Sound(p, coins, base, minCap_, maxCap_)
<1> DEFINE bid == Head(bids)
           ask == Head(asks)
           b == Volume(bid, ask, coins, base, minCap_, maxCap_)
           d == DetermineMinimumVolume(bid, ask, coins, base)
<1>1. PICK i \in DOMAIN bids, j \in DOMAIN asks :
        /\ v > 0
        /\ GetChange(bids[i].price, asks[j].price) > NotEnough
        /\ p = Pair(bids, asks, i, j, b, v)
  BY DEF Pairs
<1>2. i \in Nat /\ j \in Nat
  BY <1>1, BotAssumption
<1>3. /\ bid \in Level /\ bids[i] \in Level /\ bids[i].price <= bid.price
      /\ ask \in Level /\ asks[j] \in Level /\ asks[j].price >= ask.price
  BY <1>1, <1>2, BestLevels
<1>4. bids[i].price > asks[j].price
  <2>1. bids[i].price \in Nat /\ asks[j].price \in Nat
    BY <1>3 DEF Level
  <2>2. GetChange(bids[i].price, asks[j].price) \in Nat
    BY <2>1, Gain
  <2>3. GetChange(bids[i].price, asks[j].price) > 1
    BY <1>1, <2>2 DEF NotEnough
  <2> QED
    BY <2>1, <2>3, Gain
<1>5. p = [vol |-> v, sell |-> bids[i].price, buy |-> asks[j].price,
           wanted |-> b, bid |-> bid, ask |-> ask]
  BY <1>1 DEF Pair
<1>6. v \in RoundVolumeByExchangeRules(b)
  OBVIOUS
<1> HIDE DEF bid, ask
<1>7. /\ d \in Nat
      /\ d <= bid.vol /\ d <= ask.vol /\ d <= coins
      /\ d * ask.price <= base
  BY <1>3, DetermineBounds
<1> HIDE DEF d
<1>8. /\ b \in Int
      /\ b <= d
      /\ maxCap_ # 0 => 2 * b <= maxCap_
      /\ b > 0 /\ minCap_ >= Tiny /\ (maxCap_ # 0 => maxCap_ >= 2 * Tiny) => b >= Tiny
  BY <1>7, CapBounds DEF Volume, d
<1> HIDE DEF b
<1>9. v \in Nat \ {0} /\ b \in Nat \ {0} /\ (b >= Tiny => v <= b)
  BY <1>1, <1>6, <1>8, RoundBounds
<1>10. ASSUME b >= Tiny
       PROVE  v * ask.price <= base
  <2>1. v <= d /\ v \in Nat /\ d \in Nat /\ ask.price \in Nat
    BY <1>3, <1>7, <1>8, <1>9, <1>10 DEF Level
  <2>2. v * ask.price <= d * ask.price
    BY <2>1, Scaled
  <2>3. v * ask.price \in Nat /\ d * ask.price \in Nat
    BY <2>1
  <2> QED
    BY <1>7, <2>2, <2>3
<1>11. p \in PairType
  BY <1>3, <1>5, <1>9 DEF PairType, Level
<1>12. b >= Tiny => /\ v <= bid.vol /\ v <= ask.vol /\ v <= coins
                    /\ maxCap_ # 0 => 2 * v <= maxCap_
  BY <1>3, <1>7, <1>8, <1>9 DEF Level
<1> QED
  BY <1>3, <1>4, <1>5, <1>8, <1>9, <1>10, <1>11, <1>12 DEF Sound

-----------------------------------------------------------------------------
(***************************************************************************)
(* Types.                                                                  *)
(***************************************************************************)

\* What the bot finds is a pair that is worth its while.
LEMMA SearchMove ==
  ASSUME TypeOK, NEW bids \in Bids, NEW asks \in Asks, NEW threshold, NEW cap \in Nat,
         Search(bids, asks, threshold, cap)
  PROVE  \/ pc' \in {"next", "dead"} /\ UNCHANGED pair
         \/ /\ pc' = "post"
            /\ Sound(pair', have["sell"].coins, have["buy"].base, minCap, cap)
<1> DEFINE wanted == Volume(Head(bids), Head(asks), have["sell"].coins,
                            have["buy"].base, minCap, cap)
<1>1. have["sell"].coins \in Nat /\ have["buy"].base \in Nat /\ minCap \in Nat
  BY DEF TypeOK, Sides, Balance
<1>2. CASE (Goto("next") \/ Goto("dead")) /\ UNCHANGED pair
  BY <1>2 DEF Goto
<1>3. CASE ~ ((Goto("next") \/ Goto("dead")) /\ UNCHANGED pair)
  <2>1. PICK v \in RoundVolumeByExchangeRules(wanted) :
          \E p \in Pairs(bids, asks, wanted, v) : pair' = p /\ Goto("post")
    BY <1>3 DEF Search
  <2>2. PICK p \in Pairs(bids, asks, wanted, v) : pair' = p /\ Goto("post")
    BY <2>1
  <2>3. Sound(p, have["sell"].coins, have["buy"].base, minCap, cap)
    BY <1>1, <2>1, <2>2, PairBounds
  <2> QED
    BY <2>2, <2>3 DEF Goto
<1> QED
  BY <1>2, <1>3

LEMMA DifferenceType ==
  ASSUME TypeOK
  PROVE  Difference \in Nat
BY DEF TypeOK, Sides, Balance, Difference

\* Every variable of the bot, of the cache and of those who fill it keeps its
\* type, and a pair of orders is in hand exactly while it is being placed.
THEOREM BotTypes == Safe => []TypeOK
<1>1. Init => TypeOK
  BY BotAssumption DEF Init, TypeOK, Holding, Balance, Ages, Nothing, Idle, Sides
<1>2. TypeOK /\ [Next]_vars => TypeOK'
  <2> SUFFICES ASSUME TypeOK, [Next]_vars PROVE TypeOK'
    OBVIOUS
  <2> USE BotAssumption DEF TypeOK
  <2>1. CASE Tick
    <3>1. \A a \in Ages : Older(a) \in Ages
      BY DEF Ages, Older
    <3> QED
      BY <2>1, <3>1 DEF Tick, bot, Balance
  <2>2. ASSUME NEW w \in Writers, Ask(w) PROVE TypeOK'
    BY <2>2 DEF Ask, bot, Ages
  <2>3. ASSUME NEW w \in Writers, Answer(w) PROVE TypeOK'
    <3>1. writer' \in [Writers -> [st : {"idle", "asked", "stopped"}, age : Ages]]
      BY <2>3 DEF Answer, Idle, Ages
    <3>2. writer[w].age \in Ages /\ At(w) \in Sides
      BY DEF At, Sides
    <3>3. \A h \in Holdings :
            [coins |-> h.coins, base |-> h.base, age |-> writer[w].age] \in Balance
      BY <3>2 DEF Balance, Holding
    <3>4. cache' \in [Sides -> Balance \cup {Missing}]
      BY <2>3, <3>2, <3>3 DEF Answer
    <3> QED
      BY <2>3, <3>1, <3>4 DEF Answer, bot
  <2>4. ASSUME NEW w \in Writers, Stop(w) PROVE TypeOK'
    BY <2>4 DEF Stop, Stopped, bot, Ages
  <2>5. CASE Round
    BY <2>5 DEF Round, Goto
  <2>6. CASE CheckBalance
    BY <2>6 DEF CheckBalance, Goto
  <2>7. CASE LoseBooks \/ SkipBooks
    BY <2>7 DEF LoseBooks, SkipBooks, Goto
  <2>8. CASE Arbitrage
    <3>1. pair = NoPair
      BY <2>8 DEF Arbitrage
    <3>2. \/ pc' \in {"next", "dead"} /\ UNCHANGED pair
          \/ pc' = "post" /\ pair' \in PairType
      BY <2>8, SearchMove DEF Arbitrage, Sound
    <3> QED
      BY <2>8, <3>1, <3>2 DEF Arbitrage
  <2>9. CASE Reverse
    <3>1. pair = NoPair
      BY <2>9 DEF Reverse
    <3>2. maxCap' \in Nat
      BY <2>9, DifferenceType DEF Reverse
    <3>3. \/ pc' \in {"next", "dead"} /\ UNCHANGED pair
          \/ pc' = "post" /\ pair' \in PairType
      BY <2>9, <3>2, SearchMove DEF Reverse, Goto, Sound
    <3> QED
      BY <2>9, <3>1, <3>2, <3>3 DEF Reverse
  <2>10. CASE Post
    BY <2>10 DEF Post, Goto
  <2>11. CASE NextMode
    BY <2>11 DEF NextMode, Goto
  <2>12. CASE UNCHANGED vars
    BY <2>12 DEF vars, bot
  <2> QED
    BY <2>1, <2>2, <2>3, <2>4, <2>5, <2>6, <2>7, <2>8, <2>9, <2>10, <2>11, <2>12
       DEF Next, BotStep
<1> QED
  BY <1>1, <1>2, PTL DEF Safe

-----------------------------------------------------------------------------
(***************************************************************************)
(* The pair in hand. A step either leaves it, the mode and the balances    *)
(* alone, or it was not there, or it is gone.                              *)
(***************************************************************************)
PairSound == BothFill /\ Covered /\ NeverOvershoots /\ MinimumKeepsOut

\* A minimum volume is none, or keeps dust out.
MinCapKnown == minCap = 0 \/ minCap >= Tiny

BotInv == TypeOK /\ CapLifted /\ MinCapKnown /\ PairSound

LEMMA PairKept ==
  ASSUME PairSound, UNCHANGED <<pair, mode, have, minCap, maxCap>>
  PROVE  PairSound'
BY DEF PairSound, BothFill, Covered, NeverOvershoots, MinimumKeepsOut

LEMMA PairGone ==
  ASSUME pair' = NoPair
  PROVE  PairSound'
BY DEF PairSound, BothFill, Covered, NeverOvershoots, MinimumKeepsOut

\* Half a difference moved from the larger to the smaller leaves the larger so.
LEMMA HalfMoved ==
  ASSUME TypeOK, Disbalance, NEW v \in Nat, Difference # 0 => 2 * v <= Difference
  PROVE  Difference # 0 /\ have["sell"].coins - v >= have["buy"].coins + v
<1>1. have["sell"].coins \in Nat /\ have["buy"].coins \in Nat
  BY DEF TypeOK, Sides, Balance
<1>2. GetChange(have["sell"].coins, have["buy"].coins) > BalanceThreshold
  BY DEF Disbalance
<1>3. have["sell"].coins > have["buy"].coins
  <2>1. GetChange(have["sell"].coins, have["buy"].coins) \in Nat
    BY <1>1, Gain
  <2>2. BalanceThreshold \in Nat \ {0}
    BY BotAssumption
  <2>3. GetChange(have["sell"].coins, have["buy"].coins) > 1
    BY <1>2, <2>1, <2>2
  <2> QED
    BY <1>1, <2>3, Gain
<1> QED
  BY <1>1, <1>3 DEF Difference

LEMMA BotInvInductive ==
  ASSUME BotInv, TypeOK', [Next]_vars
  PROVE  CapLifted' /\ MinCapKnown' /\ PairSound'
<1> USE DEF BotInv
<1>1. CASE Tick \/ (\E w \in Writers : Ask(w) \/ Answer(w) \/ Stop(w)) \/ UNCHANGED vars
  BY <1>1, PairKept DEF Tick, Ask, Answer, Stop, vars, bot, CapLifted, MinCapKnown
<1>2. CASE Round
  <2>1. pair' = NoPair
    BY <1>2 DEF Round, TypeOK
  <2>2. MinCapKnown'
    BY <1>2, BotAssumption DEF Round, MinCapKnown
  <2> QED
    BY <1>2, <2>1, <2>2, PairGone DEF Round, CapLifted
<1>3. CASE LoseBooks \/ SkipBooks
  BY <1>3, PairKept DEF LoseBooks, SkipBooks, CapLifted, MinCapKnown
<1>4. CASE CheckBalance
  <2>1. pair' = NoPair
    BY <1>4 DEF CheckBalance, TypeOK
  <2> QED
    BY <1>4, <2>1, PairGone DEF CheckBalance, CapLifted, MinCapKnown
<1>5. CASE Arbitrage
  <2>1. CapLifted' /\ MinCapKnown' /\ UNCHANGED <<mode, have, minCap, maxCap>>
    BY <1>5 DEF Arbitrage, CapLifted, MinCapKnown
  <2>2. PICK bids \in Bids, asks \in Asks : Search(bids, asks, Threshold, maxCap)
    BY <1>5 DEF Arbitrage
  <2>3. maxCap = 0 /\ mode = "arbitrage"
    BY <1>5 DEF Arbitrage, CapLifted
  <2>4. CASE pair' = pair
    BY <2>1, <2>4, PairKept
  <2>5. CASE pair' # pair
    <3>1. Sound(pair', have["sell"].coins, have["buy"].base, minCap, 0)
      BY <2>2, <2>3, <2>5, SearchMove
    <3>2. PairSound'
      BY <2>1, <2>3, <3>1
         DEF Sound, PairSound, BothFill, Covered, NeverOvershoots, MinimumKeepsOut, MinCapKnown
    <3> QED
      BY <2>1, <3>2
  <2> QED
    BY <2>4, <2>5
<1>6. CASE Reverse
  <2>1. CapLifted' /\ MinCapKnown' /\ UNCHANGED <<mode, have, minCap>> /\ mode = "reverse"
    BY <1>6 DEF Reverse, CapLifted, MinCapKnown
  <2>2. CASE pair' = pair
    <3>1. pair' = NoPair
      BY <1>6, <2>2 DEF Reverse, TypeOK
    <3> QED
      BY <2>1, <3>1, PairGone
  <2>3. CASE pair' # pair
    <3>1. Disbalance /\ maxCap' = Difference
      BY <1>6, <2>3 DEF Reverse
    <3>2. PICK bids \in Bids, asks \in Asks : Search(bids, asks, ReverseThreshold, Difference)
      BY <1>6, <2>3, <3>1 DEF Reverse
    <3>3. Sound(pair', have["sell"].coins, have["buy"].base, minCap, Difference)
      BY <2>3, <3>2, DifferenceType, SearchMove
    <3>4. pair'.vol \in Nat
      BY <3>3 DEF Sound, PairType
    <3>5. pair'.wanted >= Tiny => have["sell"].coins - pair'.vol >= have["buy"].coins + pair'.vol
      BY <3>1, <3>3, <3>4, HalfMoved DEF Sound
    <3>6. BothFill' /\ Covered' /\ NeverOvershoots'
      BY <2>1, <3>3, <3>5 DEF Sound, BothFill, Covered, NeverOvershoots
    <3>7. MinimumKeepsOut'
      BY <2>1, <3>1, <3>3 DEF Sound, MinimumKeepsOut, MinCapKnown
    <3> QED
      BY <2>1, <3>6, <3>7 DEF PairSound
  <2> QED
    BY <2>2, <2>3
<1>7. CASE Post
  BY <1>7, PairGone DEF Post, CapLifted, MinCapKnown
<1>8. CASE NextMode
  <2>1. pair' = NoPair
    BY <1>8 DEF NextMode, TypeOK
  <2>2. CapLifted' /\ MinCapKnown'
    BY <1>8 DEF NextMode, CapLifted, MinCapKnown, TypeOK
  <2> QED
    BY <2>1, <2>2, PairGone
<1> QED
  BY <1>1, <1>2, <1>3, <1>4, <1>5, <1>6, <1>7, <1>8 DEF Next, BotStep

\* The types, the lifted cap and what holds of the pair in hand hold together.
THEOREM BotInvariant == Safe => []BotInv
<1>1. Init /\ TypeOK => BotInv
  BY DEF Init, BotInv, CapLifted, MinCapKnown,
         PairSound, BothFill, Covered, NeverOvershoots, MinimumKeepsOut
<1>2. BotInv /\ TypeOK' /\ [Next]_vars => BotInv'
  BY BotInvInductive DEF BotInv
<1>3. Safe => []TypeOK
  BY BotTypes
<1> QED
  BY <1>1, <1>2, <1>3, PTL DEF Safe

\* Both orders of a pair can be filled at once, whatever the books, if the volume
\* is written without an exponent, and are placed at a profit with any volume.
THEOREM BothLegsFill == Safe => []BothFill
<1>1. BotInv => BothFill
  BY DEF BotInv, PairSound
<1> QED
  BY <1>1, BotInvariant, PTL

\* No pair whose volume is written without an exponent takes more than the
\* balances that the bot has read.
THEOREM BalancesCover == Safe => []Covered
<1>1. BotInv => Covered
  BY DEF BotInv, PairSound
<1> QED
  BY <1>1, BotInvariant, PTL

\* Balancing never turns one imbalance into the opposite one, with such a volume.
THEOREM BalancingConverges == Safe => []NeverOvershoots
<1>1. BotInv => NeverOvershoots
  BY DEF BotInv, PairSound
<1> QED
  BY <1>1, BotInvariant, PTL

\* With a minimum volume known, every volume is such a one, but where the two
\* exchanges differ by less than two millionths of a coin.
THEOREM NoDust == Safe => []MinimumKeepsOut
<1>1. BotInv => MinimumKeepsOut
  BY DEF BotInv, PairSound
<1> QED
  BY <1>1, BotInvariant, PTL

\* The cap of balancing is never in force when arbitrage is looked for.
THEOREM CapIsLifted == Safe => []CapLifted
<1>1. BotInv => CapLifted
  BY DEF BotInv
<1> QED
  BY <1>1, BotInvariant, PTL
=============================================================================
