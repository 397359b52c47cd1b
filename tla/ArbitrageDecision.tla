------------------------- MODULE ArbitrageDecision -------------------------
(***************************************************************************)
(* core/arbitrage_core.py: which pair of orders, if any, two order books   *)
(* call for. Prices, volumes and coins are natural numbers of their        *)
(* smallest units; a price is what one unit of volume costs in units of    *)
(* the base currency. One side of a book is a sequence of levels with the  *)
(* best price first, as PriceLevels keeps it.                              *)
(***************************************************************************)
EXTENDS Integers, Sequences

CONSTANTS
  Lot,     \* the exchange's step of volume, in units
  Tiny,    \* a millionth of a coin: str() writes less than it as 1.2E-7
  Misread  \* what such a text may say when its end is cut off

ASSUME LotAssumption ==
  /\ Lot \in Nat \ {0}
  /\ Tiny \in Nat \ {0}
  /\ Misread \subseteq Nat

Level == [price : Nat \ {0}, vol : Nat \ {0}]

\* get_change with provide_abs=False, in thousandths of a percent of the mean,
\* truncated to hundredths. What is no gain, or a gain of at most a thousandth,
\* counts as a thousandth of a percent.
GetChange(a, b) ==
  IF 2000 * (a - b) > a + b THEN 10 * ((20000 * (a - b)) \div (a + b)) ELSE 1

\* search_for_arbitrage places no pair whose prices differ by no more than 0.2.
NotEnough == 200

-----------------------------------------------------------------------------
(***************************************************************************)
(* The volume.                                                             *)
(***************************************************************************)

\* Mutant: the larger of the two best levels is taken.
LargerLevel(bid, ask) == IF bid.vol >= ask.vol THEN bid.vol ELSE ask.vol

VolumeOfBooks(bid, ask) == IF bid.vol <= ask.vol THEN bid.vol ELSE ask.vol

AtMost(v, coins) == IF coins >= v THEN v ELSE coins

\* Mutant: the order is cut down to the whole of the base currency, at any price.
WholeBase(v, base, price) == IF base >= v * price THEN v ELSE base

\* What base buys at price: v if that is enough for it, and otherwise what
\* MAX_VOLUME_COEFFICIENT of it buys.
Buyable(v, base, price) ==
  IF base >= v * price THEN v ELSE (9 * base) \div (10 * price)

\* determine_minimum_volume: the best levels of both books, the coins at the
\* exchange of the sale, the base currency at the exchange of the purchase.
DetermineMinimumVolume(bid, ask, coins, base) ==
  Buyable(AtMost(VolumeOfBooks(bid, ask), coins), base, ask.price)

\* Mutant: the minimum does not keep small volumes out.
AnyVolume(minCap, v) == v

AdjustMinimumVolumeByTradingCap(minCap, v) == IF v < minCap THEN -1 ELSE v

\* Twice the cap is what the bot keeps, as it sets half a difference. None is 0.
AdjustMaximumVolumeByTradingCap(maxCap, v) ==
  IF maxCap # 0 /\ 2 * v > maxCap THEN maxCap \div 2 ELSE v

\* The volume is written with an exponent.
Exponent(v) == 0 < v /\ v < Tiny

\* truncate_float keeps the decimals that the exchange takes, by the length of
\* the text. With an exponent at its end, it is either short enough to be left as
\* it is, or loses the exponent or a digit of it and says another number.
RoundVolumeByExchangeRules(v) ==
  IF v <= 0 THEN {v} ELSE IF Exponent(v) THEN {v} \cup Misread ELSE {v - (v % Lot)}

\* The volume that is worth a pair, as it is before it is rounded.
Volume(bid, ask, coins, base, minCap, maxCap) ==
  AdjustMaximumVolumeByTradingCap(maxCap,
    AdjustMinimumVolumeByTradingCap(minCap,
      DetermineMinimumVolume(bid, ask, coins, base)))

-----------------------------------------------------------------------------
(***************************************************************************)
(* The prices.                                                             *)
(***************************************************************************)

\* The volume of the first k levels, for every k.
Depth(levels) ==
  LET d[k \in 0 .. Len(levels)] == IF k = 0 THEN 0 ELSE d[k - 1] + levels[k].vol
  IN  d

\* adjust_price_by_order_book stops at level k, which is where twice the volume
\* can be placed, or the last one.
StopsAt(levels, v, k) ==
  /\ Depth(levels)[k - 1] < 2 * v
  /\ k = Len(levels) \/ Depth(levels)[k] >= 2 * v

\* The pair of orders with which search_for_arbitrage goes to the exchanges. The
\* best levels and the volume before it was rounded are kept with it for what is
\* said about it.
Pair(bids, asks, i, j, wanted, v) ==
  [vol |-> v, sell |-> bids[i].price, buy |-> asks[j].price,
   wanted |-> wanted, bid |-> Head(bids), ask |-> Head(asks)]

\* search_for_arbitrage looks for a volume if the best prices differ enough.
Differ(bids, asks, threshold) ==
  /\ bids # <<>> /\ asks # <<>>
  /\ GetChange(Head(bids).price, Head(asks).price) >= threshold

\* The pairs of a rounded volume that it goes for, at most one.
Pairs(bids, asks, wanted, v) ==
  LET Worth(i, j) ==
        /\ v > 0
        /\ StopsAt(bids, v, i)
        /\ StopsAt(asks, v, j)
        /\ GetChange(bids[i].price, asks[j].price) > NotEnough
  IN  {Pair(bids, asks, k[1], k[2], wanted, v) :
         k \in {q \in (DOMAIN bids) \X (DOMAIN asks) : Worth(q[1], q[2])}}
=============================================================================
