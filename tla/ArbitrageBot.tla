---------------------------- MODULE ArbitrageBot ----------------------------
(***************************************************************************)
(* services/arbitrage_between_pair.py: the bot that polls two exchanges,   *)
(* with the balance cache it depends on (dao/balance_utils.py,             *)
(* data_access/classes/memory_cache.py) and the processes that fill it:    *)
(* services/balance_monitoring.py, one for each exchange, and the recovery *)
(* services, which force an update.                                        *)
(***************************************************************************)
EXTENDS ArbitrageDecision

CONSTANTS
  SellWriters, BuyWriters,   \* processes that update one exchange's balance
  Holdings,                  \* what an exchange may say the account holds
  Bids, Asks,                \* what the sides of the fetched books may be
  Fresh,                     \* BALANCE_EXPIRED_THRESHOLD, in ticks
  Threshold, ReverseThreshold, BalanceThreshold,   \* of the command line
  MinCaps,                   \* minimum volumes that the tickers may give
  Missing, NoPair

Writers == SellWriters \cup BuyWriters
At(w) == IF w \in SellWriters THEN "sell" ELSE "buy"
Sides == {"sell", "buy"}   \* the exchanges of the sale and of the purchase

Holding == [coins : Nat, base : Nat]
Ages == 0 .. Fresh + 1     \* Fresh + 1 stands for every age that is too old
Balance == [coins : Nat, base : Nat, age : Ages]
PairType == [vol : Nat \ {0}, sell : Nat \ {0}, buy : Nat \ {0},
             wanted : Nat \ {0}, bid : Level, ask : Level]

ASSUME BotAssumption ==
  /\ SellWriters \cap BuyWriters = {}
  /\ Holdings \subseteq Holding
  /\ \A s \in Bids : /\ s \in Seq(Level)
                     /\ \A i, j \in DOMAIN s : i < j => s[i].price > s[j].price
  /\ \A s \in Asks : /\ s \in Seq(Level)
                     /\ \A i, j \in DOMAIN s : i < j => s[i].price < s[j].price
  /\ Fresh \in Nat
  /\ Threshold \in Nat /\ ReverseThreshold \in Nat
  /\ BalanceThreshold \in Nat \ {0}   \* 0 would find balances that agree unequal
  /\ \A c \in MinCaps : c \in Nat /\ c >= Tiny   \* 0.004 bitcoin worth of a coin is more
  /\ NoPair \notin PairType

VARIABLES
  cache,    \* redis: the last balance of each exchange, and its age
  writer,   \* what each updating process is doing
  pc,       \* where the bot is in its loop
  mode,     \* ARBITRAGE or REVERSE
  minCap,   \* deal_cap.min_volume_cap
  maxCap,   \* twice deal_cap.max_volume_cap; 0 is NO_MAX_CAP_LIMIT
  have,     \* balance_state: what the bot thinks it has
  pair      \* the orders about to be placed

bot == <<pc, mode, minCap, maxCap, have, pair>>
vars == <<cache, writer, bot>>

Idle == [st |-> "idle", age |-> 0]
Stopped == [st |-> "stopped", age |-> 0]
Nothing == [s \in Sides |-> [coins |-> 0, base |-> 0, age |-> Fresh + 1]]

\* The monitors may have been at work for long when the bot starts, or not yet.
Init ==
  /\ cache \in [Sides -> {[coins |-> h.coins, base |-> h.base, age |-> a] :
                            h \in Holdings, a \in Ages} \cup {Missing}]
  /\ writer = [w \in Writers |-> Idle]
  /\ pc = "round"
  /\ mode = "arbitrage"
  /\ minCap = 0
  /\ maxCap = 0
  /\ have = Nothing
  /\ pair = NoPair

-----------------------------------------------------------------------------
(***************************************************************************)
(* The processes that update the cache, and time.                          *)
(***************************************************************************)
Older(a) == IF a <= Fresh THEN a + 1 ELSE a

\* A second or so goes by.
Tick ==
  /\ cache' = [s \in Sides |-> IF cache[s] = Missing THEN Missing
                               ELSE [cache[s] EXCEPT !.age = Older(@)]]
  /\ writer' = [w \in Writers |-> IF writer[w].st # "asked" THEN writer[w]
                                  ELSE [writer[w] EXCEPT !.age = Older(@)]]
  /\ UNCHANGED bot

\* get_balance_by_exchange: the balance is dated before it is asked for.
Ask(w) ==
  /\ writer[w].st = "idle"
  /\ writer' = [writer EXCEPT ![w] = [st |-> "asked", age |-> 0]]
  /\ UNCHANGED <<cache, bot>>

\* update_balance_by_exchange: what was answered is cached, whatever another
\* process wrote meanwhile. A failure changes nothing, and is not tried again:
\* the pair that is returned is never None.
Answer(w) ==
  /\ writer[w].st = "asked"
  /\ writer' = [writer EXCEPT ![w] = Idle]
  /\ \/ \E h \in Holdings :
          cache' = [cache EXCEPT ![At(w)] =
                      [coins |-> h.coins, base |-> h.base, age |-> writer[w].age]]
     \/ UNCHANGED cache
  /\ UNCHANGED bot

\* The process is stopped. A monitor's health check does it too: it calls a
\* method of a balance on the pair that update_balance_by_exchange returned.
Stop(w) ==
  /\ writer[w].st = "idle"
  /\ writer' = [writer EXCEPT ![w] = Stopped]
  /\ UNCHANGED <<cache, bot>>

-----------------------------------------------------------------------------
(***************************************************************************)
(* The bot.                                                                *)
(***************************************************************************)
Goto(label) == pc' = label

\* The top of the loop: update_min_cap, if it is time to and if tickers came.
Round ==
  /\ pc = "round"
  /\ minCap' \in {minCap} \cup MinCaps
  /\ Goto("balance")
  /\ UNCHANGED <<cache, writer, mode, maxCap, have, pair>>

\* Mutant: only the exchange of the purchase is looked at.
ExpiredAtBuy(b) == b["buy"].age > Fresh

\* BalanceState.expired
Expired(b) == \E s \in Sides : b[s].age > Fresh

\* get_updated_balance_arbitrage and the check of its age, which ends the
\* process. So does a balance that was never cached (pickle.loads of None). The
\* two reads are of different keys, which nobody writes together.
CheckBalance ==
  /\ pc = "balance"
  /\ IF \A s \in Sides : cache[s] # Missing
       THEN /\ have' = cache
            /\ Goto(IF Expired(cache) THEN "dead" ELSE "books")
       ELSE Goto("dead") /\ UNCHANGED have
  /\ UNCHANGED <<cache, writer, mode, minCap, maxCap, pair>>

\* The books are fetched. A request that failed leaves a string where a book is
\* expected, and is_order_books_expired ends the process with it.
LoseBooks ==
  /\ pc = "books"
  /\ Goto("dead")
  /\ UNCHANGED <<cache, writer, mode, minCap, maxCap, have, pair>>

\* Books that pass for a repetition are left alone. Deals of different objects
\* are never equal for a set, so that these are the books with an empty side,
\* which may be one that is of no use here.
SkipBooks ==
  /\ pc = "books"
  /\ Goto("next")
  /\ UNCHANGED <<cache, writer, mode, minCap, maxCap, have, pair>>

\* search_for_arbitrage under a threshold and a cap. A text that ends inside its
\* exponent is no number, which ends the process.
Search(bids, asks, threshold, cap) ==
  LET wanted == Volume(Head(bids), Head(asks), have["sell"].coins, have["buy"].base,
                       minCap, cap)
  IN  \/ ~ Differ(bids, asks, threshold) /\ Goto("next") /\ UNCHANGED pair
      \/ /\ Differ(bids, asks, threshold)
         /\ \/ \E v \in RoundVolumeByExchangeRules(wanted) :
                 \/ Pairs(bids, asks, wanted, v) = {} /\ Goto("next") /\ UNCHANGED pair
                 \/ \E p \in Pairs(bids, asks, wanted, v) : pair' = p /\ Goto("post")
            \/ Exponent(wanted) /\ Goto("dead") /\ UNCHANGED pair

Arbitrage ==
  /\ pc = "books"
  /\ mode = "arbitrage"
  /\ \E bids \in Bids, asks \in Asks : Search(bids, asks, Threshold, maxCap)
  /\ UNCHANGED <<cache, writer, mode, minCap, maxCap, have>>

\* is_there_disbalance
Disbalance == GetChange(have["sell"].coins, have["buy"].coins) > BalanceThreshold

\* Mutant: the difference has a sign (abs).
SignedDifference == have["buy"].coins - have["sell"].coins

\* Mutant: the difference of the coins is not halved.
WholeDifference == 2 * (have["sell"].coins - have["buy"].coins)

\* Twice the cap with which adjust_currency_balance sells.
Difference ==
  LET d == have["buy"].coins - have["sell"].coins
  IN  IF d >= 0 THEN d ELSE -d

\* adjust_currency_balance: if the exchange of the sale has too many coins, up to
\* half of the difference is sold there.
Reverse ==
  /\ pc = "books"
  /\ mode = "reverse"
  /\ \/ /\ Disbalance
        /\ maxCap' = Difference
        /\ \E bids \in Bids, asks \in Asks : Search(bids, asks, ReverseThreshold, maxCap')
     \/ /\ ~ Disbalance
        /\ Goto("next")
        /\ UNCHANGED <<maxCap, pair>>
  /\ UNCHANGED <<cache, writer, mode, minCap, have>>

\* init_deals_with_logging_speedy, which the process survives unless an answer is
\* of no use (OrderPlacement has the details).
Post ==
  /\ pc = "post"
  /\ Goto("next") \/ Goto("dead")
  /\ pair' = NoPair
  /\ UNCHANGED <<cache, writer, mode, minCap, maxCap, have>>

\* Mutant: the cap stays where the other mode has put it.
KeepCap ==
  /\ pc = "next"
  /\ mode' = IF mode = "arbitrage" THEN "reverse" ELSE "arbitrage"
  /\ Goto(IF mode = "arbitrage" THEN "balance" ELSE "round")
  /\ UNCHANGED <<cache, writer, minCap, maxCap, have, pair>>

\* The next mode, or the end of the loop, where the cap is lifted again.
NextMode ==
  /\ pc = "next"
  /\ IF mode = "arbitrage"
       THEN mode' = "reverse" /\ Goto("balance") /\ UNCHANGED maxCap
       ELSE mode' = "arbitrage" /\ Goto("round") /\ maxCap' = 0
  /\ UNCHANGED <<cache, writer, minCap, have, pair>>

BotStep ==
  \/ Round \/ CheckBalance \/ LoseBooks \/ SkipBooks
  \/ Arbitrage \/ Reverse \/ Post \/ NextMode

-----------------------------------------------------------------------------
Next ==
  \/ Tick
  \/ \E w \in Writers : Ask(w) \/ Answer(w) \/ Stop(w)
  \/ BotStep

Safe == Init /\ [][Next]_vars

\* Time passes, the bot runs `while True`, and every request has a timeout.
Spec ==
  /\ Safe
  /\ WF_vars(Tick)
  /\ WF_vars(BotStep)
  /\ \A w \in Writers : WF_vars(Answer(w))

-----------------------------------------------------------------------------
TypeOK ==
  /\ cache \in [Sides -> Balance \cup {Missing}]
  /\ writer \in [Writers -> [st : {"idle", "asked", "stopped"}, age : Ages]]
  /\ pc \in {"round", "balance", "books", "post", "next", "dead"}
  /\ mode \in {"arbitrage", "reverse"}
  /\ minCap \in Nat
  /\ maxCap \in Nat
  /\ have \in [Sides -> Balance]
  /\ pair \in PairType \cup {NoPair}
  /\ pc = "post" <=> pair # NoPair

\* Both orders of a pair can be filled at once by the best level of the book they
\* go to, unless the volume is so small that its text may be misread, and always
\* at their price or a better one and at a profit: depth is only looked for to be
\* sure of it (determine_minimum_volume, adjust_price_by_order_book).
BothFill ==
  pair # NoPair =>
    /\ pair.wanted >= Tiny => pair.vol <= pair.bid.vol /\ pair.vol <= pair.ask.vol
    /\ pair.sell <= pair.bid.price /\ pair.buy >= pair.ask.price
    /\ pair.sell > pair.buy

\* The bot sells no more coins than it thinks it has, and buys no more than it
\* could pay at the best price, after every cap and rounding of a volume that is
\* written without an exponent.
Covered ==
  pair # NoPair /\ pair.wanted >= Tiny =>
    /\ pair.vol <= have["sell"].coins
    /\ pair.vol * pair.ask.price <= have["buy"].base

\* Selling in order to balance the exchanges never leaves the exchange of the
\* sale with fewer coins than the other, whichever levels and caps were seen
\* before (adjust_currency_balance), under the same condition.
NeverOvershoots ==
  pair # NoPair /\ mode = "reverse" /\ pair.wanted >= Tiny =>
    have["sell"].coins - pair.vol >= have["buy"].coins + pair.vol

\* The condition is met as soon as tickers have given a minimum volume, unless
\* the exchanges differ by so little that balancing them is about dust: no volume
\* of arbitrage is misread then (adjust_minimum_volume_by_trading_cap comes
\* before the rounding, adjust_maximum_volume_by_trading_cap after the minimum).
MinimumKeepsOut ==
  pair # NoPair /\ minCap # 0 /\ (mode = "reverse" => maxCap >= 2 * Tiny) =>
    pair.wanted >= Tiny

\* The cap that balancing sets never limits the search for arbitrage, in this
\* round or a later one (the side effect in adjust_currency_balance).
CapLifted == mode = "arbitrage" => maxCap = 0

\* A bot whose balances nobody updates any more stops trading by itself ("if we
\* can't update balance for more than TIMEOUT seconds arbitrage process will exit").
StopsWithoutBalances ==
  \A s \in Sides :
    (\A w \in Writers : At(w) = s => writer[w].st = "stopped") ~> pc = "dead"
=============================================================================
