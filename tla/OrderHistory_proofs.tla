-------------------------- MODULE OrderHistory_proofs --------------------------
(***************************************************************************)
(* What is kept of orders and trades, for any orders, exchanges, numbers   *)
(* and times, and any number of kills.                                     *)
(***************************************************************************)
EXTENDS OrderHistory, TLAPS

-----------------------------------------------------------------------------
(* Sequences. *)

LEMMA HeadOrTail ==
  ASSUME NEW S, NEW s \in Seq(S), s # <<>>
  PROVE  /\ Head(s) \in S /\ Head(s) \in ToSet(s) /\ Head(s) = s[1]
         /\ Tail(s) \in Seq(S)
         /\ ToSet(s) = {Head(s)} \cup ToSet(Tail(s))
         /\ \A i \in DOMAIN Tail(s) : i + 1 \in DOMAIN s /\ i # 0 /\ Tail(s)[i] = s[i + 1]
<1>1. /\ Len(s) \in Nat \ {0} /\ DOMAIN s = 1 .. Len(s)
      /\ Head(s) = s[1] /\ Tail(s) \in Seq(S) /\ Len(Tail(s)) = Len(s) - 1
      /\ DOMAIN Tail(s) = 1 .. Len(s) - 1
      /\ \A i \in 1 .. Len(s) - 1 : Tail(s)[i] = s[i + 1]
  OBVIOUS
<1>2. \A i \in DOMAIN Tail(s) : i + 1 \in DOMAIN s /\ i # 0 /\ Tail(s)[i] = s[i + 1]
  BY <1>1
<1>3. 1 \in DOMAIN s
  BY <1>1
<1>4. ASSUME NEW x \in ToSet(s), x # Head(s) PROVE x \in ToSet(Tail(s))
  <2>1. PICK i \in DOMAIN s : x = s[i]
    BY DEF ToSet
  <2>2. i # 1
    BY <1>1, <1>4, <2>1
  <2>3. i - 1 \in 1 .. Len(s) - 1 /\ (i - 1) + 1 = i
    BY <1>1, <2>1, <2>2
  <2>4. Tail(s)[i - 1] = x
    BY <1>1, <2>1, <2>3
  <2> QED
    BY <1>1, <2>3, <2>4 DEF ToSet
<1>5. ToSet(Tail(s)) \subseteq ToSet(s)
  BY <1>2 DEF ToSet
<1>6. Head(s) \in ToSet(s) /\ Head(s) \in S
  BY <1>1, <1>3 DEF ToSet
<1> QED
  BY <1>1, <1>2, <1>4, <1>5, <1>6

LEMMA ToSetConcat ==
  ASSUME NEW S, NEW s \in Seq(S), NEW u \in Seq(S)
  PROVE  s \o u \in Seq(S) /\ ToSet(s \o u) = ToSet(s) \cup ToSet(u)
<1>1. /\ Len(s) \in Nat /\ Len(u) \in Nat /\ DOMAIN s = 1 .. Len(s) /\ DOMAIN u = 1 .. Len(u)
      /\ s \o u \in Seq(S) /\ DOMAIN (s \o u) = 1 .. Len(s) + Len(u)
      /\ \A i \in 1 .. Len(s) + Len(u) :
           (s \o u)[i] = IF i <= Len(s) THEN s[i] ELSE u[i - Len(s)]
  OBVIOUS
<1> DEFINE w == s \o u
<1> HIDE DEF w
<1>2. ASSUME NEW x \in ToSet(s) PROVE x \in ToSet(w)
  <2>1. PICK i \in 1 .. Len(s) : x = s[i]
    BY <1>1 DEF ToSet
  <2>2. i \in DOMAIN w /\ w[i] = x
    BY <1>1, <2>1 DEF w
  <2> QED
    BY <2>2 DEF ToSet
<1>3. ASSUME NEW x \in ToSet(u) PROVE x \in ToSet(w)
  <2>1. PICK i \in 1 .. Len(u) : x = u[i]
    BY <1>1 DEF ToSet
  <2>2. Len(s) + i \in 1 .. Len(s) + Len(u) /\ ~ (Len(s) + i <= Len(s)) /\ (Len(s) + i) - Len(s) = i
    BY <1>1
  <2>3. Len(s) + i \in DOMAIN w /\ w[Len(s) + i] = x
    BY <1>1, <2>1, <2>2 DEF w
  <2> QED
    BY <2>3 DEF ToSet
<1>4. ASSUME NEW x \in ToSet(w) PROVE x \in ToSet(s) \cup ToSet(u)
  <2>1. PICK i \in 1 .. Len(s) + Len(u) : x = w[i]
    BY <1>1 DEF ToSet, w
  <2>2. CASE i <= Len(s)
    <3>1. i \in DOMAIN s /\ x = s[i]
      BY <1>1, <2>1, <2>2 DEF w
    <3> QED
      BY <3>1 DEF ToSet
  <2>3. CASE ~ (i <= Len(s))
    <3>1. i - Len(s) \in DOMAIN u /\ x = u[i - Len(s)]
      BY <1>1, <2>1, <2>3 DEF w
    <3> QED
      BY <3>1 DEF ToSet
  <2> QED
    BY <2>2, <2>3
<1> QED
  BY <1>1, <1>2, <1>3, <1>4 DEF w

LEMMA AppendToSet ==
  ASSUME NEW S, NEW s \in Seq(S), NEW x \in S
  PROVE  /\ Append(s, x) \in Seq(S) /\ ToSet(Append(s, x)) = ToSet(s) \cup {x}
         /\ Len(s) \in Nat /\ DOMAIN s = 1 .. Len(s) /\ DOMAIN Append(s, x) = 1 .. Len(s) + 1
         /\ \A i \in 1 .. Len(s) + 1 : Append(s, x)[i] = IF i = Len(s) + 1 THEN x ELSE s[i]
<1>1. /\ Append(s, x) \in Seq(S)
      /\ Len(s) \in Nat /\ DOMAIN s = 1 .. Len(s) /\ DOMAIN Append(s, x) = 1 .. Len(s) + 1
      /\ \A i \in 1 .. Len(s) + 1 : Append(s, x)[i] = IF i = Len(s) + 1 THEN x ELSE s[i]
  OBVIOUS
<1>2. ASSUME NEW y \in ToSet(Append(s, x)) PROVE y \in ToSet(s) \cup {x}
  BY <1>1, <1>2 DEF ToSet
<1>3. ASSUME NEW y \in ToSet(s) PROVE y \in ToSet(Append(s, x))
  <2>1. PICK i \in 1 .. Len(s) : y = s[i]
    BY <1>1, <1>3 DEF ToSet
  <2>2. i \in 1 .. Len(s) + 1 /\ i # Len(s) + 1
    BY <1>1, <2>1
  <2> QED
    BY <1>1, <2>1, <2>2 DEF ToSet
<1>4. x \in ToSet(Append(s, x))
  <2>1. Len(s) + 1 \in DOMAIN Append(s, x) /\ Append(s, x)[Len(s) + 1] = x
    BY <1>1
  <2> QED
    BY <2>1 DEF ToSet
<1> QED
  BY <1>1, <1>2, <1>3, <1>4

-----------------------------------------------------------------------------
(* What is saved of orders. *)

\* An order is sent once, and is in the queue once or in the table.
SavingInv ==
  /\ sent \subseteq Orders
  /\ queue \in Seq(Orders)
  /\ orders \cup ToSet(queue) \subseteq sent
  /\ orders \cap ToSet(queue) = {}
  /\ \A i, j \in DOMAIN queue : queue[i] = queue[j] => i = j
  /\ saver \in {"up", "failed", "dead"}

LEMMA AddOrderSaves == ASSUME SavingInv, NEW o \in Orders, AddOrder(o) PROVE SavingInv'
<1>1. <<o>> \in Seq(Orders) /\ ToSet(<<o>>) = {o}
  BY DEF ToSet
<1>2. queue' \in Seq(Orders) /\ ToSet(queue') = {o} \cup ToSet(queue)
  <2>1. queue \in Seq(Orders)
    BY DEF SavingInv
  <2>2. <<o>> \o queue \in Seq(Orders) /\ ToSet(<<o>> \o queue) = ToSet(<<o>>) \cup ToSet(queue)
    <3> DEFINE s == <<o>>
    <3>1. s \in Seq(Orders)
      BY <1>1
    <3> HIDE DEF s
    <3>2. s \o queue \in Seq(Orders) /\ ToSet(s \o queue) = ToSet(s) \cup ToSet(queue)
      BY <3>1, <2>1, ToSetConcat
    <3> QED
      BY <3>2 DEF s
  <2>3. queue' = <<o>> \o queue
    BY DEF AddOrder
  <2> QED
    BY <1>1, <2>2, <2>3
<1>3. o \notin ToSet(queue) /\ o \notin orders
  BY DEF AddOrder, SavingInv
<1>4. /\ Len(queue) \in Nat /\ DOMAIN queue = 1 .. Len(queue)
      /\ DOMAIN queue' = 1 .. Len(queue) + 1
      /\ \A i \in 1 .. Len(queue) + 1 : queue'[i] = IF i = 1 THEN o ELSE queue[i - 1]
  BY DEF AddOrder, SavingInv
<1>5. ASSUME NEW i \in DOMAIN queue', NEW j \in DOMAIN queue', queue'[i] = queue'[j]
      PROVE  i = j
  <2>1. ASSUME NEW k \in DOMAIN queue', k # 1
        PROVE  k - 1 \in DOMAIN queue /\ queue'[k] = queue[k - 1] /\ queue'[k] # o /\ k \in Int
    <3>1. k - 1 \in DOMAIN queue /\ queue'[k] = queue[k - 1] /\ k \in Int
      BY <1>4, <2>1
    <3> QED
      BY <1>3, <3>1 DEF ToSet
  <2>2. i = 1 \/ j = 1 => i = 1 /\ j = 1
    BY <1>4, <1>5, <2>1
  <2>3. CASE i # 1 /\ j # 1
    BY <1>5, <2>1, <2>3 DEF SavingInv
  <2> QED
    BY <2>2, <2>3
<1> QED
  BY <1>2, <1>3, <1>5 DEF AddOrder, SavingInv

\* The next order is popped, and saved or not.
LEMMA PoppedSaves ==
  ASSUME SavingInv, queue # <<>>, Popped, UNCHANGED sent,
         orders' \in {orders, orders \cup {Head(queue)}}, saver' \in {"up", "failed", "dead"}
  PROVE  SavingInv'
<1>1. /\ Head(queue) \in ToSet(queue) /\ Tail(queue) \in Seq(Orders) /\ Head(queue) = queue[1]
      /\ ToSet(queue) = {Head(queue)} \cup ToSet(Tail(queue))
      /\ \A i \in DOMAIN Tail(queue) :
           i + 1 \in DOMAIN queue /\ i # 0 /\ Tail(queue)[i] = queue[i + 1]
  BY HeadOrTail DEF SavingInv
<1>2. queue \in Seq(Orders) /\ 1 \in DOMAIN queue /\ DOMAIN Tail(queue) \subseteq Int
  BY DEF SavingInv
<1>3. Head(queue) \notin ToSet(Tail(queue))
  <2> SUFFICES ASSUME NEW i \in DOMAIN Tail(queue), Tail(queue)[i] = Head(queue) PROVE FALSE
    BY DEF ToSet
  <2>1. i + 1 = 1 /\ i # 0 /\ i \in Int
    BY <1>1, <1>2 DEF SavingInv
  <2> QED
    BY <2>1
<1>4. \A i, j \in DOMAIN Tail(queue) : Tail(queue)[i] = Tail(queue)[j] => i = j
  <2> SUFFICES ASSUME NEW i \in DOMAIN Tail(queue), NEW j \in DOMAIN Tail(queue),
                      Tail(queue)[i] = Tail(queue)[j]
               PROVE  i = j
    OBVIOUS
  <2>1. i + 1 = j + 1 /\ i \in Int /\ j \in Int
    BY <1>1, <1>2 DEF SavingInv
  <2> QED
    BY <2>1
<1>5. queue' = Tail(queue)
  BY DEF Popped
<1> QED
  BY <1>1, <1>3, <1>4, <1>5 DEF SavingInv

LEMMA SavingKept ==
  ASSUME SavingInv, (\E o \in Orders : AddOrder(o)) \/ SaveOrder \/ KillSaver \/ RestartSaver
  PROVE  SavingInv'
<1>1. CASE \E o \in Orders : AddOrder(o)
  BY <1>1, AddOrderSaves
<1>2. CASE SaveOrder
  BY <1>2, PoppedSaves DEF SaveOrder
<1>3. CASE KillSaver
  <2>1. CASE UNCHANGED queue
    BY <1>3, <2>1 DEF KillSaver, SavingInv
  <2>2. CASE queue # <<>> /\ Popped
    BY <1>3, <2>2, PoppedSaves DEF KillSaver
  <2> QED
    BY <1>3, <2>1, <2>2 DEF KillSaver
<1>4. CASE RestartSaver
  BY <1>4 DEF RestartSaver, SavingInv
<1> QED
  BY <1>1, <1>2, <1>3, <1>4

-----------------------------------------------------------------------------
(* Copying trades. *)

TimesInv ==
  /\ markets \in Settings
  /\ clock \in 0 .. MaxClock /\ kills \in 0 .. MaxKills
  /\ imported \in 0 .. clock
  /\ \A t \in executed : t.time \in Nat

\* Where the retrieval is, and what it has in hand.
PlaceInv ==
  /\ pc \in {"down", "idle", "ask", "save", "insert"}
  /\ at \in DOMAIN markets
  /\ window \in Int \X Int
  /\ aborted \in BOOLEAN
  /\ trades \in Seq(executed)
  /\ seen \subseteq executed
  /\ \A t \in fetched \cup hand : t \in AtExchange(Market) /\ InWindow(t)
  /\ fetched # {} => pc \in {"save", "insert"}
  /\ IF pc = "insert" THEN \E t \in hand : hand = {t} ELSE hand = {}
  /\ pc \in {"down", "idle"} => seen = {}

\* The exceptions of Complete.
Excused(t) ==
  \/ t.exchange \in {"POLONIEX", "HUOBI"} /\ t.time > imported
  \/ t.exchange = "KRAKEN"

\* What was seen of the window is in the table, about to be, or excused.
SeenInv ==
  ~aborted => \A t \in seen : InWindow(t) =>
                Known(t) \/ t \in fetched \cup hand \/ Excused(t)

\* Rows have numbers of their own, and what is to be inserted has none of theirs.
RowsInv == OneRow /\ \A t \in hand : ~Known(t)

HistoryInv == SavingInv /\ TimesInv /\ PlaceInv /\ SeenInv /\ RowsInv

LEMMA HistoryInit == ASSUME Init PROVE HistoryInv
<1>1. ToSet(<<>>) = {} /\ DOMAIN <<>> = {} /\ <<>> \in Seq(Orders) /\ <<>> \in Seq(executed)
  BY DEF ToSet
<1>2. SavingInv
  BY <1>1 DEF Init, SavingInv
<1>3. 1 \in DOMAIN markets
  BY HistoryAssumption DEF Init
<1>4. TimesInv
  BY HistoryAssumption DEF Init, TimesInv
<1>5. PlaceInv
  <2>1. window \in Int \X Int /\ trades \in Seq(executed) /\ at \in DOMAIN markets
    BY <1>1, <1>3 DEF Init
  <2>2. \A t \in fetched \cup hand : t \in AtExchange(Market) /\ InWindow(t)
    BY DEF Init
  <2> QED
    BY <2>1, <2>2 DEF Init, PlaceInv
<1> QED
  BY <1>1, <1>2, <1>4, <1>5 DEF Init, HistoryInv, SeenInv, RowsInv, OneRow

\* What the time, the exchanges and the other half do leaves the invariant alone.
LEMMA OthersKeep ==
  ASSUME HistoryInv, TimesInv', UNCHANGED <<markets, trades, fetching>>, executed \subseteq executed'
  PROVE  PlaceInv' /\ SeenInv' /\ RowsInv'
<1>1. Market' = Market /\ Rows' = Rows /\ \A e : AtExchange(e) \subseteq AtExchange(e)'
  BY DEF Market, Rows, AtExchange, fetching
<1>2. \A t : /\ InWindow(t) <=> InWindow(t)'
             /\ Known(t) <=> Known(t)'
             /\ Excused(t) <=> Excused(t)'
  BY <1>1 DEF InWindow, Known, Excused, fetching
<1>3. PlaceInv'
  <2>1. trades' \in Seq(executed')
    BY DEF HistoryInv, PlaceInv
  <2> QED
    BY <1>1, <1>2, <2>1 DEF HistoryInv, PlaceInv, fetching
<1>4. SeenInv'
  BY <1>2 DEF HistoryInv, SeenInv, fetching
<1>5. RowsInv'
  BY <1>2 DEF HistoryInv, RowsInv, OneRow, fetching
<1> QED
  BY <1>3, <1>4, <1>5

LEMMA TickKeeps == ASSUME HistoryInv, Tick PROVE HistoryInv'
<1>1. SavingInv'
  BY DEF Tick, saving, HistoryInv, SavingInv
<1>2. TimesInv'
  BY HistoryAssumption DEF Tick, fetching, HistoryInv, TimesInv
<1>3. UNCHANGED <<markets, trades, fetching>> /\ executed \subseteq executed'
  BY DEF Tick
<1> QED
  BY <1>1, <1>2, <1>3, OthersKeep DEF HistoryInv

LEMMA ExecuteKeeps == ASSUME HistoryInv, Execute PROVE HistoryInv'
<1>1. SavingInv'
  BY DEF Execute, saving, HistoryInv, SavingInv
<1>2. TimesInv'
  <2>1. PICK e \in MarketSet, n \in Numbers, time \in 0 .. clock :
          executed' = executed \cup {[exchange |-> e, id |-> n, time |-> time]}
    BY DEF Execute
  <2>2. time \in Nat
    BY DEF HistoryInv, TimesInv
  <2> QED
    BY <2>1, <2>2 DEF Execute, fetching, HistoryInv, TimesInv
<1>3. UNCHANGED <<markets, trades, fetching>> /\ executed \subseteq executed'
  BY DEF Execute
<1> QED
  BY <1>1, <1>2, <1>3, OthersKeep DEF HistoryInv

LEMMA OrdersKeep ==
  ASSUME HistoryInv, (\E o \in Orders : AddOrder(o)) \/ SaveOrder \/ KillSaver \/ RestartSaver
  PROVE  HistoryInv'
<1>1. SavingInv'
  BY SavingKept DEF HistoryInv
<1>2. /\ UNCHANGED <<clock, executed, markets, trades, fetching>>
      /\ kills' = kills \/ (kills < MaxKills /\ kills' = kills + 1)
  BY DEF AddOrder, SaveOrder, KillSaver, RestartSaver
<1>3. TimesInv'
  BY <1>2, HistoryAssumption DEF fetching, HistoryInv, TimesInv
<1> QED
  BY <1>1, <1>2, <1>3, OthersKeep DEF HistoryInv

-----------------------------------------------------------------------------
(* The steps of the retrieval. *)

LEMMA FirstMarket == ASSUME TimesInv PROVE 1 \in DOMAIN markets /\ Len(markets) \in Nat
BY HistoryAssumption DEF TimesInv

\* A process that ends begins anew with nothing.
LEMMA EndKeeps ==
  ASSUME HistoryInv, End, UNCHANGED <<clock, markets, executed, saving, trades>>,
         kills' \in 0 .. MaxKills
  PROVE  HistoryInv'
<1>1. SavingInv'
  BY DEF saving, HistoryInv, SavingInv
<1>2. TimesInv'
  BY DEF End, HistoryInv, TimesInv
<1>3. PlaceInv'
  <2>1. window' \in Int \X Int /\ trades' \in Seq(executed') /\ at' \in DOMAIN markets'
    BY FirstMarket DEF End, HistoryInv, PlaceInv
  <2>2. \A t \in fetched' \cup hand' : t \in AtExchange(Market)' /\ InWindow(t)'
    BY DEF End
  <2> QED
    BY <2>1, <2>2 DEF End, HistoryInv, PlaceInv
<1>4. SeenInv' /\ RowsInv'
  BY DEF End, HistoryInv, SeenInv, RowsInv, OneRow
<1> QED
  BY <1>1, <1>2, <1>3, <1>4 DEF HistoryInv

\* The other steps change neither the table of orders nor time.
LEMMA StepFrame ==
  ASSUME HistoryInv, UNCHANGED <<clock, kills, markets, executed, saving>>, imported' \in 0 .. clock
  PROVE  SavingInv' /\ TimesInv'
BY DEF saving, HistoryInv, SavingInv, TimesInv

LEMMA StartKeeps == ASSUME HistoryInv, Start PROVE HistoryInv'
<1>1. SavingInv' /\ TimesInv'
  BY StepFrame DEF Start, HistoryInv, TimesInv
<1>2. seen = {} /\ hand = {} /\ fetched = {}
  BY DEF Start, HistoryInv, PlaceInv
<1>3. PlaceInv'
  BY <1>2 DEF Start, HistoryInv, PlaceInv
<1>4. SeenInv' /\ RowsInv'
  BY <1>2 DEF Start, HistoryInv, SeenInv, RowsInv, OneRow
<1> QED
  BY <1>1, <1>3, <1>4 DEF HistoryInv

LEMMA BeginPassKeeps == ASSUME HistoryInv, BeginPass PROVE HistoryInv'
<1>1. SavingInv' /\ TimesInv'
  BY StepFrame DEF BeginPass, HistoryInv, TimesInv
<1>2. seen = {} /\ hand = {} /\ fetched = {}
  BY DEF BeginPass, HistoryInv, PlaceInv
<1>3. PlaceInv'
  <2>1. clock \in Int /\ clock - Day \in Int
    BY HistoryAssumption DEF HistoryInv, TimesInv
  <2> QED
    BY <1>2, <2>1 DEF BeginPass, HistoryInv, PlaceInv
<1>4. SeenInv' /\ RowsInv'
  BY <1>2 DEF BeginPass, HistoryInv, SeenInv, RowsInv, OneRow
<1> QED
  BY <1>1, <1>3, <1>4 DEF HistoryInv

LEMMA DayEnds == \A time \in Nat : EndOfDay(time) >= time
<1> TAKE time \in Nat
<1>1. time % Day \in 0 .. Day - 1
  BY HistoryAssumption
<1> QED
  BY <1>1, HistoryAssumption DEF EndOfDay

\* An answer leaves out only what is excused.
LEMMA AnswerHolds ==
  ASSUME HistoryInv, Market # "BINANCE", NEW t \in AtExchange(Market), InWindow(t),
         NEW kept \in Answer({u \in AtExchange(Market) : InWindow(u)})
  PROVE  t \in kept \/ Excused(t)
<1>1. Market \in Exchanges /\ t.exchange = Market
  BY HistoryAssumption DEF HistoryInv, TimesInv, PlaceInv, Market, AtExchange
<1>2. /\ t.time \in Nat /\ imported \in Nat /\ EndOfDay(imported) >= imported
      /\ window[1] \in Int
  BY DayEnds DEF HistoryInv, TimesInv, PlaceInv, AtExchange
<1>3. EndOfDay(imported) \in Int
  BY <1>2, HistoryAssumption DEF EndOfDay
<1>4. CASE Market = "BITTREX"
  BY <1>4 DEF Answer
<1>5. CASE Market = "POLONIEX"
  BY <1>1, <1>2, <1>5 DEF Answer, Excused
<1>6. CASE Market = "HUOBI"
  <2>1. t.time <= imported => window[1] <= imported /\ t.time <= EndOfDay(imported)
    BY <1>2, <1>3 DEF InWindow
  <2> QED
    BY <1>1, <1>2, <1>6, <2>1 DEF Answer, Excused
<1>7. CASE Market = "KRAKEN"
  BY <1>1, <1>7 DEF Excused
<1> QED
  BY <1>1, <1>4, <1>5, <1>6, <1>7 DEF Exchanges

LEMMA AskKeeps == ASSUME HistoryInv, Ask PROVE HistoryInv'
<1>1. SavingInv' /\ TimesInv'
  BY StepFrame DEF Ask, HistoryInv, TimesInv
<1>2. hand = {} /\ fetched = {} /\ hand' = {}
  BY DEF Ask, HistoryInv, PlaceInv
<1>3. /\ Market' = Market /\ Rows' = Rows /\ AtExchange(Market)' = AtExchange(Market)
      /\ \A t : /\ InWindow(t)' <=> InWindow(t)
                /\ Known(t)' <=> Known(t)
                /\ Excused(t)' <=> Excused(t)
  BY DEF Ask, Market, Rows, AtExchange, InWindow, Known, Excused
<1>4. fetched' \subseteq {t \in AtExchange(Market) : InWindow(t)}
  BY DEF Ask, Answer
<1>5. PlaceInv'
  <2>1. seen' \subseteq executed'
    BY DEF Ask, AtExchange, HistoryInv, PlaceInv
  <2>2. \A t \in fetched' \cup hand' : t \in AtExchange(Market)' /\ InWindow(t)'
    BY <1>2, <1>3, <1>4
  <2> QED
    BY <1>2, <2>1, <2>2 DEF Ask, HistoryInv, PlaceInv
<1>6. SeenInv'
  <2> SUFFICES ASSUME ~aborted, NEW t \in seen', InWindow(t)
               PROVE  Known(t) \/ t \in fetched' \/ Excused(t)
    BY <1>2, <1>3 DEF SeenInv, Ask
  <2>1. CASE t \in seen
    BY <1>2, <2>1 DEF HistoryInv, SeenInv
  <2>2. CASE t \in AtExchange(Market)
    BY <2>2, AnswerHolds DEF Ask
  <2> QED
    BY <2>1, <2>2 DEF Ask
<1>7. RowsInv'
  BY <1>2 DEF Ask, HistoryInv, RowsInv, OneRow
<1> QED
  BY <1>1, <1>5, <1>6, <1>7 DEF HistoryInv

LEMMA CheckKeeps == ASSUME HistoryInv, Check PROVE HistoryInv'
<1>1. SavingInv' /\ TimesInv'
  BY StepFrame DEF Check, HistoryInv, TimesInv
<1>2. hand = {} /\ trades' = trades /\ seen' = seen /\ pc = "save"
  BY DEF Check, HistoryInv, PlaceInv
<1>3. /\ Market' = Market /\ Rows' = Rows /\ AtExchange(Market)' = AtExchange(Market)
      /\ \A t : /\ InWindow(t)' <=> InWindow(t)
                /\ Known(t)' <=> Known(t)
                /\ Excused(t)' <=> Excused(t)
  BY DEF Check, Market, Rows, AtExchange, InWindow, Known, Excused
<1>4. PICK t \in fetched :
        /\ fetched' = fetched \ {t}
        /\ IF Known(t) THEN UNCHANGED <<pc, hand>> ELSE pc' = "insert" /\ hand' = {t}
  BY DEF Check
<1>5. PlaceInv'
  <2>1. \A u \in fetched' \cup hand' : u \in AtExchange(Market)' /\ InWindow(u)'
    BY <1>2, <1>3, <1>4 DEF HistoryInv, PlaceInv
  <2>2. /\ fetched' # {} => pc' \in {"save", "insert"}
        /\ IF pc' = "insert" THEN \E u \in hand' : hand' = {u} ELSE hand' = {}
    BY <1>2, <1>4
  <2> QED
    BY <1>2, <1>4, <2>1, <2>2 DEF Check, HistoryInv, PlaceInv
<1>6. SeenInv'
  BY <1>2, <1>3, <1>4 DEF Check, HistoryInv, SeenInv
<1>7. RowsInv'
  BY <1>2, <1>3, <1>4 DEF HistoryInv, RowsInv, OneRow
<1> QED
  BY <1>1, <1>5, <1>6, <1>7 DEF HistoryInv

LEMMA InsertKeeps == ASSUME HistoryInv, Insert PROVE HistoryInv'
<1>1. SavingInv' /\ TimesInv'
  BY StepFrame DEF Insert, HistoryInv, TimesInv
<1>2. PICK t \in hand : hand = {t}
  BY DEF Insert, HistoryInv, PlaceInv
<1>3. /\ Market' = Market /\ AtExchange(Market)' = AtExchange(Market)
      /\ \A u : /\ InWindow(u)' <=> InWindow(u)
                /\ Excused(u)' <=> Excused(u)
  BY DEF Insert, Market, AtExchange, InWindow, Excused
<1>4. t \in executed
  BY <1>2 DEF HistoryInv, PlaceInv, AtExchange
<1>5. CASE aborted' = TRUE /\ UNCHANGED trades
  <2>1. PlaceInv'
    BY <1>3, <1>5 DEF Insert, HistoryInv, PlaceInv
  <2>2. SeenInv' /\ RowsInv'
    BY <1>5 DEF Insert, HistoryInv, SeenInv, RowsInv, OneRow
  <2> QED
    BY <1>1, <2>1, <2>2 DEF HistoryInv
<1>6. CASE trades' = Append(trades, t) /\ UNCHANGED aborted
  <2>1. /\ trades' \in Seq(executed) /\ Rows' = Rows \cup {t}
        /\ Len(trades) \in Nat /\ DOMAIN trades = 1 .. Len(trades)
        /\ DOMAIN trades' = 1 .. Len(trades) + 1
        /\ \A i \in 1 .. Len(trades) + 1 : trades'[i] = IF i = Len(trades) + 1 THEN t ELSE trades[i]
    BY <1>4, <1>6, AppendToSet DEF HistoryInv, PlaceInv, Rows
  <2>2. \A u : /\ Known(u) => Known(u)'
               /\ u = t => Known(u)'
    BY <2>1 DEF Known
  <2>3. PlaceInv'
    BY <1>3, <2>1 DEF Insert, HistoryInv, PlaceInv
  <2>4. SeenInv'
    BY <1>2, <1>3, <1>6, <2>2 DEF Insert, HistoryInv, SeenInv
  <2>5. ASSUME NEW i \in DOMAIN trades', NEW j \in DOMAIN trades', trades'[i].id = trades'[j].id
        PROVE  i = j
    <3>1. \A k \in DOMAIN trades : trades'[k] = trades[k] /\ trades[k].id # t.id
      <4> TAKE k \in DOMAIN trades
      <4>1. trades[k] \in Rows /\ ~Known(t)
        BY <1>2 DEF Rows, ToSet, HistoryInv, RowsInv
      <4>2. k \in 1 .. Len(trades) + 1 /\ k # Len(trades) + 1
        BY <2>1
      <4> QED
        BY <2>1, <4>1, <4>2 DEF Known
    <3>2. /\ i \in DOMAIN trades \/ (i = Len(trades) + 1 /\ trades'[i] = t)
          /\ j \in DOMAIN trades \/ (j = Len(trades) + 1 /\ trades'[j] = t)
      BY <2>1
    <3> QED
      BY <2>5, <3>1, <3>2 DEF HistoryInv, RowsInv, OneRow
  <2>6. RowsInv'
    BY <2>5 DEF Insert, RowsInv, OneRow
  <2> QED
    BY <1>1, <2>3, <2>4, <2>6 DEF HistoryInv
<1> QED
  BY <1>2, <1>5, <1>6 DEF Insert

LEMMA NextMarketKeeps == ASSUME HistoryInv, NextMarket PROVE HistoryInv'
<1>1. SavingInv' /\ TimesInv'
  BY StepFrame DEF NextMarket, HistoryInv, TimesInv
<1>2. hand = {} /\ fetched = {} /\ hand' = {} /\ fetched' = {} /\ trades' = trades
  BY DEF NextMarket, Saved, HistoryInv, PlaceInv
<1>3. at' \in DOMAIN markets' /\ window' \in Int \X Int
  <2>1. at \in DOMAIN markets /\ DOMAIN markets = 1 .. Len(markets)
    BY HistoryAssumption DEF HistoryInv, PlaceInv, TimesInv
  <2> QED
    BY <2>1, FirstMarket DEF NextMarket, HistoryInv, PlaceInv
<1>4. PlaceInv'
  BY <1>2, <1>3 DEF NextMarket, HistoryInv, PlaceInv
<1>5. SeenInv'
  <2>1. CASE at < Len(markets)
    <3>1. \A t : /\ InWindow(t)' <=> InWindow(t)
                 /\ Known(t)' <=> Known(t)
                 /\ Excused(t)' <=> Excused(t)
      BY <2>1 DEF NextMarket, Rows, InWindow, Known, Excused
    <3> QED
      BY <1>2, <2>1, <3>1 DEF NextMarket, HistoryInv, SeenInv
  <2>2. CASE ~ (at < Len(markets))
    BY <2>2 DEF NextMarket, SeenInv
  <2> QED
    BY <2>1, <2>2
<1>6. RowsInv'
  BY <1>2 DEF HistoryInv, RowsInv, OneRow
<1> QED
  BY <1>1, <1>4, <1>5, <1>6 DEF HistoryInv

LEMMA RetrieveKeeps == ASSUME HistoryInv, Retrieve PROVE HistoryInv'
<1>1. CASE Start
  BY <1>1, StartKeeps
<1>2. CASE BeginPass
  BY <1>2, BeginPassKeeps
<1>3. CASE Ask
  BY <1>3, AskKeeps
<1>4. CASE AskBinance \/ CheckFails
  BY <1>4, EndKeeps DEF AskBinance, CheckFails, HistoryInv, TimesInv
<1>5. CASE Check
  BY <1>5, CheckKeeps
<1>6. CASE Insert
  BY <1>6, InsertKeeps
<1>7. CASE NextMarket
  BY <1>7, NextMarketKeeps
<1>8. CASE KillRetrieval
  <2>1. kills' \in 0 .. MaxKills
    BY <1>8, HistoryAssumption DEF KillRetrieval, HistoryInv, TimesInv
  <2> QED
    BY <1>8, <2>1, EndKeeps DEF KillRetrieval
<1> QED
  BY <1>1, <1>2, <1>3, <1>4, <1>5, <1>6, <1>7, <1>8 DEF Retrieve

LEMMA HistoryKept == ASSUME HistoryInv, [Next]_vars PROVE HistoryInv'
<1>1. CASE UNCHANGED vars
  <2>1. UNCHANGED <<markets, trades, fetching>> /\ executed \subseteq executed'
    BY <1>1 DEF vars
  <2>2. SavingInv' /\ TimesInv'
    BY <1>1 DEF vars, saving, fetching, HistoryInv, SavingInv, TimesInv
  <2> QED
    BY <2>1, <2>2, OthersKeep DEF HistoryInv
<1>2. CASE Next
  BY <1>2, TickKeeps, ExecuteKeeps, OrdersKeep, RetrieveKeeps DEF Next
<1> QED
  BY <1>1, <1>2

-----------------------------------------------------------------------------
\* The variables of both halves have their types: an order is in the queue or in the
\* table and never in both, what the retrieval has in hand is of its exchange and
\* window, and no row is of a trade that was not executed.
THEOREM HistoryTypes == Spec => []TypeOK
<1>1. Init => HistoryInv
  BY HistoryInit
<1>2. HistoryInv /\ [Next]_vars => HistoryInv'
  BY HistoryKept
<1>3. HistoryInv => TypeOK
  <2> SUFFICES ASSUME HistoryInv PROVE TypeOK
    OBVIOUS
  <2>1. Rows \subseteq executed
    BY DEF HistoryInv, PlaceInv, Rows, ToSet
  <2> QED
    BY <2>1 DEF HistoryInv, SavingInv, TimesInv, PlaceInv, TypeOK
<1> QED
  BY <1>1, <1>2, <1>3, PTL DEF Spec

\* load_trade_history, get_recent_*_trades and save_to_pg_adapter, for any exchanges,
\* any length of the day and of the service's life: while no insert has failed, the
\* table has each trade of the window that the exchanges of the pass had executed
\* when they were asked, but for those that Poloniex and Huobi executed after the
\* import, and those of Kraken.
THEOREM CopiedUpToTheImport == Spec => []Complete
<1>1. Init => HistoryInv
  BY HistoryInit
<1>2. HistoryInv /\ [Next]_vars => HistoryInv'
  BY HistoryKept
<1>3. HistoryInv => Complete
  <2> SUFFICES ASSUME HistoryInv, Saved, ~aborted, NEW t \in seen,
                      window[1] <= t.time, t.time <= window[2]
               PROVE  \/ \E r \in Rows : r.id = t.id
                      \/ t.exchange \in {"POLONIEX", "HUOBI"} /\ t.time > imported
                      \/ t.exchange = "KRAKEN"
    BY DEF Complete
  <2>1. fetched = {} /\ hand = {}
    BY DEF Saved, HistoryInv, PlaceInv
  <2> QED
    BY <2>1 DEF HistoryInv, SeenInv, InWindow, Known, Excused
<1> QED
  BY <1>1, <1>2, <1>3, PTL DEF Spec

\* is_trade_present_in_trade_history and save_order_into_pg: one retrieval never gives
\* a trade a second row, however often its windows overlap and whenever it is killed.
THEOREM NoSecondRow == Spec => []OneRow
<1>1. Init => HistoryInv
  BY HistoryInit
<1>2. HistoryInv /\ [Next]_vars => HistoryInv'
  BY HistoryKept
<1>3. HistoryInv => OneRow
  BY DEF HistoryInv, RowsInv
<1> QED
  BY <1>1, <1>2, <1>3, PTL DEF Spec
=============================================================================
