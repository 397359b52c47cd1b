# A TLA+ verification of crypto_crawler

crypto_crawler trades the difference in price of one currency pair between two
exchanges. It is a set of independent processes that share redis queues, a
redis cache and a postgres database. This directory holds TLA+ specifications of
the parts whose correctness depends on the order in which those processes,
their threads and the exchanges do things, TLC configurations that check them,
and TLAPS proofs of what matters most about them. `PROJECT.json` lists the
components, the runs, the source lines of every definition (`map`), a mutant of
the code for every property, the disagreements found, and the hazards.

Paths below are relative to `src/`.

## 1. The system

| Component | State it keeps | Operations | Talks to |
| --- | --- | --- | --- |
| Order placement by the bots (`dao/deal_utils.py`, `core/arbitrage_core.py`) | the two legs of a deal | send both legs at once, sort the answers, hand over refused legs, save placed ones | exchanges, `FAILED_ORDERS_MSG`, `ORDERS_MSG` |
| Expired order service (`services/expired_order_processing.py`, `core/expired_order.py`) | one `Trade` in hand | take the oldest watched order, look it up, cancel it, place what is left of it at the market rate, or put it back | watch list, exchanges, balance cache |
| Failed order service (`services/failed_order_processing.py`, `core/failed_order.py`) | one `Trade` in hand | pop, search in open orders, search in history, place at the market rate, or put it back | failed orders, watch list, exchanges, database |
| Redis queues (`data_access/classes/priority_queue.py`, `message_queue.py`) | a sorted set and lists | zadd, zrevrange + zrem, lpush, rpush, lpop | every process |
| Order book synchronisation (`services/arbitrage_between_pair_subscription.py`, `*/socket_api.py`) | two books, two queues of updates, `SYNC_STAGE`, `should_run` and `synced` flags | reset, subscribe, fetch, drain, receive, shut down | exchanges, arbitrage decision |
| Price levels (`data/order_book.py`, `analysis/binary_search.py`) | two sorted lists of levels | copy a full book, sort, insert, change or remove a level | the two above |
| Arbitrage decision (`core/arbitrage_core.py`, `data/market_cap.py`, `data/balance_state.py`) | caps, balances | compare two books, bound the volume, decide | placement |
| REST polling bot (`services/arbitrage_between_pair.py`) | caps, balances | loop: balance, books, decision | cache, exchanges |
| Balance cache and monitoring (`services/balance_monitoring.py`, `dao/balance_utils.py`) | last balance of each exchange with its time | poll, write, read, age check | every trading process |
| Order saving and order table (`services/order_saving.py`, `dao/db.py`) | rows, an open transaction | pop, insert, commit | `ORDERS_MSG`, postgres |
| Trade history and profit report (`services/bot_trade_retrieval.py`, `analysis/*profit*`) | rows, an open transaction | ask for a day, look up, insert; match trades with orders | postgres, exchanges |
| Market data retrieval (`services/data_retrieval.py`, `order_book_retrieval.py`, `arbitrage_monitoring.py`, `data_access/classes/connection_pool.py`) | the answers of a pass, an open transaction | ask in batches, parse, compare, tell, store | exchanges, postgres, message topics |
| Telegram notifier (`services/telegram_notifier.py`, `data_access/telegram_notifications.py`) | one message in hand | pop, send as HTML, send as text, push back | message topics, Telegram |
| Currency and precision tables (`utils/currency_utils.py`, `enums/`, `*/currency_utils.py`, `*/precision_by_currency.py`) | none | names and numbers, in both directions | everything |
| Exchange adapters (`binance/`, `bittrex/`, `huobi/`, `kraken/`, `poloniex/`, `data_access/internet.py`) | Kraken's shared list | send a request, again if it may be, read the answer | exchanges |
| Deployment and node commands | none of their own | start and stop screens | files, ssh |

How they interact: a bot gets books either by polling (REST bot) or from its own
synchronised copies (subscription bot), decides, and sends two legs. A leg whose
answer is an error goes to `FAILED_ORDERS_MSG`. The failed order service finds
out whether the exchange has it after all, and puts it on the watch list or
places it again. The expired order service works the watch list: it replaces
what is not filled in time. Both place with `place_order_by_market_rate`, which
ends with the new order on the watch list and in `ORDERS_MSG` to be saved.

What is hard, and what makes it correct:

* *Order recovery.* Several processes pick from the same queues; every exchange
  call may fail before or after it took effect; a process may die with a Trade
  in its hands; the same loop is run again after any failure. Correct means: no
  order is worked on by two processes; a leg never has two orders open; nothing
  that is open is forgotten; the volume that is replaced is what was left;
  every queued order gets its turn.
* *Book synchronisation.* Five threads share flags without locks, events arrive
  while the snapshot is on its way, a subscription can stop at any time and old
  threads can outlive a reset. Correct means: a book is what the exchange had
  at its sequence id; books are compared only when both are synchronised; a
  subscription that stops leads to a reset.
* *Price levels.* Binary search into a list that only stays sorted if every
  insertion so far was right. Correct means: best price first, one level for a
  price, and the volumes are those last heard.
* *Decision.* Two books, two balances, two caps, a rounding that works on text and a
  depth search decide on one pair of orders. Correct means: both legs can be filled at
  once and at a profit; neither takes more than the balances the decision was
  made on; balancing the exchanges never turns the imbalance round, and its cap
  does not leak into the search for arbitrage, which shares it.
* *Balances.* Monitors and recovery services write one redis key for each
  exchange; an answer may come late, be overwritten, or never come. Correct means:
  a bot does not trade for ever on balances that nobody updates.
* *Adapters.* Five exchanges refuse in five ways, some of them with HTTP 200, and
  answers get lost after the request took effect. Correct means: what is told was
  true during the call; a placement is never repeated; one order has one id,
  whichever call reads it; a confirmed cancellation is one.
* *Market data.* Requests of a batch fail one by one, their answers become lists,
  objects or strings; tables of names kept by hand must agree; an insert can fail in
  the middle of a pass. Correct means: a row is filed where it was asked for; a pass
  is stored as a whole; no gap that two answers show goes untold; a bot whose
  arguments were accepted finds its pair in every table.
* *Notifications.* Sending fails, or works without saying so; messages are put back;
  the notifier dies with one in hand. Correct means: nothing overtakes, and what does
  not die with the notifier arrives.
* *Trades.* A service copies overlapping windows to a table without unique index,
  with a lookup before each insert, and may die or fail in between. What it asks for is
  less than its window: the end of what Poloniex and Huobi are asked for is the start of the
  process, and Binance cannot be asked at all. Correct means: of what was asked for nothing
  is left out; no trade has two rows, as a report would add both.

`PROJECT.json` `hazards` lists these at their lines.

## 2. Plan

Done, in this order:

1. `OrderLifecycle` (with `OrderState`, `OrderPlacement`, `ExpiredOrders`,
   `FailedOrders`): bots, both recovery services, redis and the exchange.
2. `OrderLifecycle_proofs`: its types and `OneCustodian`.
3. `OrderBookSync`: the subscription bot's threads.
4. `PriceMap` and `PriceLevels`: one side of a book, and what it promises.
5. `ArbitrageDecision`: which pair of orders two books, the balances and the caps
   call for, as operators; `ArbitrageBot`: the REST bot's loop around it, with the
   balance cache and those who write it.
6. `ArbitrageBot_proofs`: its types and every safety property of the decision.
7. `ExchangeAnswers` and `ExchangeAdapter`: what the five adapters make of answers,
   error documents and lost answers, and `OrderInquiry`: what they promise.
8. `CurrencyTables`, `PublicAnswers`, `MarketData`: the tables of names, the answers
   about markets, the three services that read them and the start of a bot;
   `Notifications`: the notifier; `MarketMonitoring`: both together.
9. `OrderHistory`: the saver of orders, and the copying of trades.
10. `MarketMonitoring_proofs`: `WholeOrNothing` and `InOrder`.
11. `OrderRecovery_proofs`, `OrderBookSync_proofs`, `ExchangeAdapter_proofs`,
    `OrderHistory_proofs`, `PriceLevels_proofs`: every safety property and refinement that
    the runs of these components check; `LegsFit`, the types, `OwnMarket`, `NoGapMissed` and
    `BotsKnowTheirPair` in `MarketMonitoring_proofs`, which has every safety property of its run.
12. `OrderRecovery`: what recovery promises of the legs, with the proof that `OrderLifecycle`
    implements it (in `OrderRecovery_proofs`).
13. `OrderBookMirror`: what the synchronisation promises of a book, with the proof that
    `OrderBookSync` implements it.

Next:

14. The pair of legs placed by one bot, so that one leg's unusable answer takes the
    other with it: `Post` of `ArbitrageBot` in the detail of `OrderPlacement`.
15. The decision of the subscription bot: `ArbitrageDecision` over two
    `PriceLevels` books, read while the other thread is between
    `_copy_order_book` and `sort_by_price`.
16. The choices of `OrderPlacement`, `ExpiredOrders` and `FailedOrders` derived from
    `ExchangeAdapter`, and their `recorded` composed with `OrderHistory`.
17. The report: which trades it adds to which sum, over a table with the numbers of several
    exchanges.
18. Proofs: the safety properties of what 14 to 17 add.

Abstract specifications worth stating: the price map, the inquiry, the recovery and the mirror
(done). Runs for the new modules take the place of the runs that only
exhibit a disagreement, whose findings stay listed.

## 3. Modules

### OrderState, OrderPlacement, ExpiredOrders, FailedOrders, OrderLifecycle

| TLA+ | Code |
| --- | --- |
| `exch` | the exchange's orders: state, owner, volume, executed volume (external) |
| `watch` | sorted set `ORDERS_EXPIRE_MSG`; a sequence in the order of the scores, as every zadd uses the current time |
| `failed`, `recorded` | the lists `FAILED_ORDERS_MSG` and `ORDERS_MSG` |
| `bot[o]` | what the bot has done with leg `o` |
| `pc[p]`, `hand[p]` | position of a service process in its handler, its local `Trade` |
| `forgotten`, `lost` | history: ids dropped as filled, orders whose Trade died with a process |
| `BotPost`, `BotHandOver`, `BotRecord` | `init_deals_with_logging_speedy` |
| `First`, `Claim` | `get_oldest_order`: zrevrange, and then zrem |
| `Query`, `Cancel`, `Market`, `Post`, `Save`, `Watch` | `process_expired_order`, one action for each call that another process could observe |
| `Pop`, `SearchOpen`, `SearchHistory`, then `Market` ... `Watch` | `process_failed_order` |
| `Crash`, `Restart` | a service process is killed, and is started again |
| `Fill`, `Arrive` | the exchange trades, or gets a request late |

Every early return of the two handlers is a disjunct of the action it is in; a
call that raises (`add_order` with three arguments) is the process' end. `Query`
contains `executed_volume_updated`, with the two ways in which exchanges report
volume.

Abstractions. All orders are of one pair at one exchange, whose adapter reports
what the exchange said or a failure. The answer about closed orders (`SearchHistory`) may
lack any of them, as it does at every exchange: its window ends with the start of the
service, or the price that is compared is that of the execution. Prices, times and types are compared in one
place only, `try_to_set_order_id`; `Lookalike` says for which orders they agree
and `timely` whether the exchange's time is near enough. Sleeping until an order
is old enough is the time a process may stay at `query`. Each leg is placed by a
bot process of its own (the pair is item 14 of the plan). Volumes are small
numbers; one that was reduced too often is -1. A ticker, a book or a balance that
is missing or old is a free choice in `Market`. The database is left to `OrderHistory`.
The guards that keep this checkout from trading (`YES_I_KNOW_WHAT_AM_I_DOING` in
`constants.py`, the `die_hard` in `dao/deal_utils.py`) are taken as lifted.

Where the adapters differ from this (`ExchangeAdapter` below): `kraken/order_utils.py:91` passes the wrong
value to `is_error`, so Kraken never shows an open order, and
`binance/order_utils.py` calls its result processor with exchanged arguments, so
Binance's open orders are not those of the answer. Nothing that is said here of
open orders (`ForgottenNeverLive`, `OneLiveOrder`) holds of these two exchanges.
An exception in an adapter is a `Crash`.

### OrderRecovery

What the two services promise together, without processes' positions, volumes or ids: where
each leg is (with its bot, among the failed orders, on the watch list, held, dropped, lost),
which leg each process works on, and which orders of which legs are on the books. `Recovers` is
the refinement: `PlaceOf` reads the place of a leg off the queues, the hands and what its bot
has done. The promise has the rules that no single invariant says: a leg goes from the failed
orders to the watch list and never back; a service takes legs only from its own queue; one that
dies takes its leg with it, and at most one order; what was dropped or lost never comes back.
With `Honest` it adds when a leg may be dropped and when it may get an order: only while
none of its orders is on the books, and it gets one from its bot or from who holds it, never
while it waits in a queue. Without `Honest` orders may appear at any time, which is all
that late requests and error documents leave of it.

### OrderBookSync

Threads: the main thread (`main`: `start`, `reset_arbitrage_state`), a
subscription thread for each side (`thread`, with a second slot for one that
outlives a reset), and a synchronising thread for each side (`sync`). An
exchange's book is the number of updates made to it; a local copy is the pair of
`sequence_id` and of the number whose levels it really has, or `Corrupt` when a
delta was put on the wrong base. `on_order_book_update` is five actions: `Receive`
(the stage is read, the flags are tested), `Branch`, `Put`, `Update`, `Decide`,
because other threads run between them. The four kinds differ in whether a
snapshot is fetched, whether a full book or a delta is sent, and how far a delta
reaches.

Abstractions. `Update` checks and applies in one step (only one live thread of a
side gets there, unless `Slow`); the levels are left to `PriceLevels`; the two
sides are treated alike. With `Slow = FALSE` the pause of a second that the main thread makes
before it clears the queues is long enough for a thread that was created to have begun, and
for one that was stopped to have ended (`Clear`). Nothing else is assumed: a subscription
may begin at any time after it was created, before, during or after the synchronisation, as
nothing waits for it. The loop of Bittrex' thread (`Asleep`) is excepted, as it looks at its
flag once a second: it may outlive the pause, meet the next subscription, and close its
connection in the end (`End`). `Slow = TRUE` drops the assumption.

### OrderBookMirror

What the synchronisation promises of each book, with no threads, queues, stages or connections:
a copy is got (`Load`), shows the exchange's book as it was at one moment, and that moment goes
forward (`Follow`) until all copies are thrown away (`Reset`). `Mirrors` is the refinement; a
local book is seen as the update it names if it has the levels of that update, and as nothing
the mirror could show if it has not. `BookExact` says only that a book is one of the
exchange's; `Mirrors` says besides that it is not an older one than before, though what
changes it comes from three places (the snapshot, the queue, the connection), and whole books
are applied without a look at `sequence_id`.

### PriceMap, PriceLevels

One side of a book as a sequence of levels, with the binary search as a recursive
function that halves the sequence as `binary_search` does, and
`insert_new_ask_preserve_order`/`..._bid_...` as `Inserted`. `Sort` is any order of the
levels in which none is before a better one, which is what Python's sort promises.
`PriceMap` is the promise: a map from prices to volumes. `KeepsMap` is the refinement, with the map
read off the levels. The branch `overwrite_volume=False` is not modelled: the
parsers that feed it never report the trades it is for. Nor are the parsers.

### ArbitrageDecision, ArbitrageBot

| TLA+ | Code |
| --- | --- |
| `DetermineMinimumVolume`, `AdjustM..VolumeByTradingCap`, `RoundVolumeByExchangeRules` | the functions of these names in `core/arbitrage_core.py`; `Volume` is the order `search_for_arbitrage` calls them in |
| `StopsAt` | `adjust_price_by_order_book`: the level whose price is used |
| `Pairs` | `search_for_arbitrage`: the pair of orders it goes for, or none |
| `cache` | redis: the last balance of each exchange and its age |
| `writer[w]` | a process inside `update_balance_by_exchange` |
| `have` | `balance_state`, as read by `get_updated_balance_arbitrage` |
| `mode`, `minCap`, `maxCap` | the two halves of the loop, and `deal_cap` |
| `Round`, `CheckBalance`, `LoseBooks`, `SkipBooks`, `Arbitrage`, `Reverse`, `Post`, `NextMode` | the loop of `services/arbitrage_between_pair.py`, one action for each call another process could interleave with |
| `Tick`, `Ask`, `Answer`, `Stop` | time, and the life of a writer of the cache |

Abstractions. Prices, volumes and coins are natural numbers of their smallest
units, and `Lot` is the exchange's step of volume. `truncate_float` cuts the text of the
volume: with decimals only, that rounds down to the step. Below a millionth (`Tiny`) Python
writes an exponent, which the cut may take off: what comes out is the volume, one of
`Misread`, or an exception. `Misread` may be any set of volumes. Percentages
are thousandths, truncated as `get_change` truncates them. `maxCap` holds twice
the cap, which is half of a difference. The code knows no commissions: a
profit is one of prices. Ages above `Fresh` are one. What the account holds is a free choice of
`Holdings` at every answer: deals, deposits and the other bots all change it. A
failed book request and a repetition (`LoseBooks`, `SkipBooks`) may happen at any
time. `Post` succeeds or ends the process.

Each property is about the balances and books the decision was made on. That the
account still has them, or that the order at the price of a deeper level is covered
too, is guaranteed by nothing in the code.

### OrderInquiry, ExchangeAnswers, ExchangeAdapter

| TLA+ | Code |
| --- | --- |
| `BinanceError` ... `PoloniexError` | `is_error` of each `error_handling.py` |
| `Open..`, `Orders..`, `History..`, `Balance..` | the processors of each exchange's documents, with what they return or raise |
| `From..`, `Id..` | the id that `Trade.from_..` and `parse_order_id_..` read: a number, a text or a list |
| `list` | `EMPTY_LIST` of `kraken/constants.py`, to which every history call appends |
| `call`, `wire` | the call in progress, and its request or answer |
| `Ask`, `Deal` | the dispatching functions of `dao/` |
| `SendAgain`, `Status` | the loops of `data_access/internet.py`, and the status of HTTP alone |
| `Tell`, `Confirm` | the call returns, and its caller parses the id |
| `market`, `Close`, `Appear`, `Answer`, `Execute`, `Reject` | the exchange and other processes (external) |

`OrderInquiry` is what recovery takes an adapter for: it tells what was true at one
moment of the call, or fails, or raises. `Promise` is the refinement. The questions
that cannot be answered completely (Binance' orders, which always raise; the
histories whose window ends with the start of the process; everything of Kraken)
promise only that no order is told that was not there.

Abstractions. Documents are their top-level fields, their success flag and what they
hold; every order locks one coin and sells it; prices, times and pairs are left out.
An answer has its error documents in HTTP 200 for the exchanges in `SoftErrors`,
which are those whose tests (`tests/private_rest_api/`) expect a failing request to
return `STATUS.SUCCESS`. A request whose answer is lost was carried out before that,
or never is. A process that an exception ends goes on in the model, with the shared
list, which allows more than the code does.

### CurrencyTables, PublicAnswers, MarketData, Notifications, MarketMonitoring

| TLA+ | Code |
| --- | --- |
| `BinancePairs` ... `KrakenPairs`, `..Currencies` | which pairs and currencies the tables of each exchange have |
| `PairNameAt`, `PairFrom` | `get_currency_pair_name_by_exchange_id`, and the way back |
| `Splits`, `NamedPairs`, `ValuePairs` | which pairs `split_currency_pairs`, `get_pair_name_by_id` and `CURRENCY_PAIR.values` have |
| `BinanceDecimals`, `HuobiDecimals`, `DecimalsOfLegs`, `DecimalsAt` | the decimals of a volume: of one exchange, and of a pair of legs |
| `Candles..`, `History..`, `Ticker..`, `Book..` | the processors of each exchange's documents, with what they return or raise |
| `Candle`, `TradeHistory`, `Ticker`, `OrderBook` | the constructors `from_<exchange>` |
| `Processed` | `_process_futures` for one request: an object, several, or a string |
| `AskBatch` | `async_get_to_list`: one batch of the pool |
| `BeginPass`, `Answered`, `AskPoloniex`, `AskBinance` | the `get_.._speedup` functions |
| `Copy`, `Copied` | `bulk_insert_to_postgres`, and the next kind of data |
| `Insert`, `Commit` | `insert_data`, and the commit of `load_to_postgres` |
| `Compare`, `Tell`, `SaveAlarm`, `AlarmsEnd` | `analyse_tickers` |
| `CheckNames`, `UpdateMinCap`, `Decide` | a bot from its arguments to its first decision |
| `ServiceCrash`, `ServiceRestart` | a service is killed, and is started again |
| `queue[t]`, `AddMessage`, `Look`, `PutBack` | a topic of `MessageQueue`: rpush, lpop, lpush |
| `Send`, `SendFails` | `send_single_message` and `send_single_message_no_parsing` |
| `NotifierCrash`, `NotifierRestart` | the notifier is killed, and is started again |

A document is known by its sign of an error, by whether what is read from it is there,
null or absent, and by the records it holds. A pair is a pair of names of currencies,
so that the tables of names are mostly one rule with exceptions. The exceptions are
spelled out, and the sets of pairs are the tables' keys.

Abstractions. An answer holds one record. Times, addresses and amounts other than an
ask and a bid are left out. `CURRENCY_PAIR.values()` is cut down to the pairs of
`Lists`, except for a bot, which may have any pair at any two exchanges. The reader
processes share nothing, so a behaviour has one of them. What a pass stored is
forgotten when the next begins, as nothing touches it again. The sequential variants
of the retrieval functions, which no service calls, are left out.

### OrderHistory

| TLA+ | Code |
| --- | --- |
| `AddOrder`, `SaveOrder`, `KillSaver`, `RestartSaver` | `ORDERS_MSG` and `services/order_saving.py` |
| `saver = "failed"`, `aborted` | a connection whose transaction is aborted |
| `markets` | `settings.exchanges`, in their order |
| `Start`, `imported` | the retrieval service starts; the default of `time_end` in `poloniex/order_history.py` and `huobi/order_history.py` |
| `BeginPass`, `NextMarket` | the loops of `load_trade_history` |
| `Ask`, `Answer` | `get_recent_<exchange>_trades` of every exchange but Binance: what the request really asks for, and what is kept of the answer |
| `AskBinance` | `get_trades_history_binance`, which raises a TypeError at every call |
| `Check`, `Known`, `Insert` | `save_to_pg_adapter`, `is_trade_present_in_trade_history`, `save_order_into_pg` |
| `CheckFails` | the lookup in an aborted transaction, which ends the process |
| `trades` | `arbitrage_trades`, row after row, as no index forbids a second row |
| `Execute`, `Tick` | exchanges and time (external) |

Bittrex is asked for everything. The windows of Poloniex and Huobi end with the import, Huobi's
with that day; when the window begins after it, Huobi is asked without dates, and answers
what it likes. Kraken is asked for the window, but an error document passes for an answer.

Abstractions. There is one pair at each exchange, and its answer has all of what it was asked
for. Exchanges give numbers independently, so that two may give the same. What the report does
with the tables is left out; its own copying of trades raises in its first request, to
Binance, and copies none. Orders and trades only meet in the report, so that a behaviour is
about one half.

## 4. Runs

| Run | Question | Bounds |
| --- | --- | --- |
| `HonestExchange` | Does recovery implement `OrderRecovery`, keep one open order per leg and Poloniex' volume, and lose no open order? | 2 legs, 3 ids, 2 + 1 processes, volume 2 |
| `HostileExchange` | What is left when errors come in HTTP 200, requests arrive late, orders look alike and a process restarts? | 2 legs, 3 ids, 2 + 1 processes, 1 restart, volume 1 |
| `WatchTurn` | Does every watched order get its turn? | 2 legs, 2 ids, 2 + 1 processes |
| `BookSync` | Are synchronised books exact, do they follow the exchange's, are they compared only when ready, reset when a subscription stops? | 2 updates, 2 resets, Binance with Poloniex and Bittrex with Huobi |
| `PriceLevels` | Do levels stay sorted and keep the map? | 5 prices, volumes 0 to 3, dust 1 |
| `Decisions` | Can every pair of orders be filled at a profit, is it covered, does balancing converge, and does a minimum volume keep volumes out that the rounding misreads? | books of 0 to 2 levels a side, prices 2 to 4, volumes 1, 3, 4; coins 0, 1, 3, 5 and base 0, 5, 7, 12 at each exchange; step 2; volumes below 2 are misread as 4; minimum caps 2, 3 or none |
| `BalanceCache` | Does a bot stop when one of its balances is no longer updated? | 2 + 1 writers, ages 0, 1 and older, one holding |
| `Adapters` | Is what an adapter answers true, is a placement sent once, do ids agree, is a confirmed cancellation one? | 5 exchanges, 2 orders, 2 coins, up to 5 tries |
| `MarketMonitoring` | Is what is read filed where it belongs, stored as a whole, and told of; do messages arrive in order; does a bot find its pair in the tables? | 3 lists of up to 2 pairs, 2 quotes, batches of 2, 1 pass that tells, 2 topics, 1 kill; a bot with every named pair at every two exchanges |
| `OrderHistory` | Does a pass leave nothing out of what it asked for, and has no trade two rows? | the exchanges of each kind of window, and those of `deploy_sample.cfg`; 3 orders, 2 trades with 2 numbers, days of 2, times 0 to 4, 2 kills |
| `UncancelledOrder`, `VolumeTakenTwice` | Disagreements, each with one property that a comment or docstring states | as above |

Why the bounds are enough. Two legs are what it takes for one order to be behind
another in a queue and for orders to be mistaken for each other; two expired
order workers are what it takes to race for one member; three ids let a leg be
placed, be replaced and have a lookalike. Volume 2 lets an order be partly
filled. Two resets let a thread of the first meet the second; two updates give an
outdated delta, a fitting one, a gap and a Binance range. Five levels exercise
both halves of the search at every depth up to three. Two levels let the price come
from behind the best one; the volumes lie on both sides of the step, of the caps
and of each other, and the holdings on both sides of every cut: not enough coins,
not enough base currency, equal and unequal in either direction. Two orders let one
change while an answer about both is on its way. `Decisions` has no
writers, as any balances are initial ones, fresh or expired; `BalanceCache` has two
for one exchange, so that a late answer can overwrite a newer one. The lists of
`MarketMonitoring` have a pair that three exchanges trade, one that is listed twice, and
two of which Poloniex' bulk answer has one; batches of 2 let a neighbour fail; the quotes
are a gap and an empty side. Two trades can have one number at two exchanges, and one can
be of the time before the start and one of after it; a day of 2 is shorter than the time, so that
trades fall out of the window and the window leaves the import behind; two kills break a pass off
and then the one that resumes it. Volumes of 1 are dust that is misread as more than any book's
best level.

`CHECK_DEADLOCK FALSE`: order recovery really stops when every bot is done, every
order filled and every process dead; `OrderBookSync` stops when it died, or at its
bounds. A bot of `MarketMonitoring` ends with its first decision and the passes that tell
are bounded; `OrderHistory` stops when all orders are saved. In `ArbitrageBot` time never stops. `PriceLevels` and
`ExchangeAdapter` never stop and are checked for deadlock.

`HostileExchange` leaves types to `HonestExchange` and to the proof, and `OneLiveOrder`, `LiveOrdersTracked` and the volume out:
they do not hold of such an exchange, and the findings say why.

Findings (details in `PROJECT.json`). With a run: a replacement is placed over an
order that was not cancelled (`UncancelledOrder`); executed volume is taken off once
per retry (`VolumeTakenTwice`).

Met while modelling, without a run: an order that was executed at once is placed again; the
loop of a Bittrex subscription that was stopped meets the next one; a volume below a millionth
loses its exponent and exceeds the balance; the retrieval service asks Poloniex and Huobi for
nothing that was executed after its start; a cancelled order is dropped as filled; orders
placed by bots never reach the watch list; a Binance event that straddles the
snapshot is dropped, where its protocol applies it; Poloniex' open orders report
the volume they were placed with; a monitor's health check fails on its own return
value; a book that could not be fetched ends the bot; an order may be priced deeper
than what its affordability was checked at; the minimum cap is compared before the
maximum cap and the rounding; failed orders are a stack, so one that keeps coming
back starves the rest; Kraken's open orders are never seen; Binance' open orders and
history always raise a TypeError; so does an error document of Huobi; an error of
Poloniex with HTTP 200 is a balance of nothing; Huobi's trades are stored as Binance',
and Kraken is not asked; alarms are stored with the wrong prices; the pool never tells of
a failure; a trade with the number of another exchange's is taken for known; a failed
insert takes all later ones of the process with it; the order id that recovery found is
never committed; the retrieval of trades ends at Binance; a leg
and its replacement count as a pair; an assertion of a ticker's name is the wrong way round; an
error document ends the services that read Binance' tickers.

Where a property has an exception, the exception is one of these: `OwnMarket` for Huobi's
trades; `Complete` for Poloniex' and Huobi's trades after the import, for Kraken, and for equal
numbers; `BothFill`, `Covered` and `NeverOvershoots` for volumes below `Tiny`. `LegsFit` names the six
pairs for which a volume that Binance' rules rounded has more decimals than Huobi takes
(`round_volume_by_exchange_rules` applies only the first exchange's rules that fit).

## 5. Fairness

`OrderLifecycle`: weak fairness of each service's step, as the services run `while
True` and sleep for bounded times. For the failed orders' two searches, which the
code repeats until they succeed, it says that the exchange answers at last. None
for bots, fills, late arrivals, crashes and restarts.

`OrderBookSync`: weak fairness of the main thread, of each synchronising thread and
of each subscription thread. A broken connection is never fair, except that
Binance's `recv` times out when nothing comes. The others' keep-alive messages,
which never reach `on_order_book_update`, keep `recv` returning: a subscription of
a silent market may stay, and with it the reset that waits for it.
`StopLeadsToReset` names that case: it goes on for ever (`[]Silent`), as one event is enough to end it.

`MarketMonitoring`: weak fairness of the notifier, which runs `while True` and is started
again when it died, and strong fairness of each topic's successful sending: Telegram does not
refuse a chat for ever. None for the readers.

`OrderHistory`: none.

`ExchangeAdapter`: none, as nothing is said of what must happen.

`ArbitrageBot`: weak fairness of time, of each answer (every request has a timeout)
and of the bot, which runs `while True` with bounded sleeps. None for asking, as a
monitor may sleep as long as it likes, nor for stopping.

## 6. Proofs

| Theorem | States |
| --- | --- |
| `TypeCorrect` | `Safe => []TypeOK` |
| `Custody` | `Safe => []OneCustodian` |
| `BotTypes` | `ArbitrageBot`: `Safe => []TypeOK` |
| `BothLegsFill` | `Safe => []BothFill` |
| `BalancesCover` | `Safe => []Covered` |
| `BalancingConverges` | `Safe => []NeverOvershoots` |
| `NoDust` | `Safe => []MinimumKeepsOut` |
| `CapIsLifted` | `Safe => []CapLifted` |
| `StoredAsAWhole` | `MarketMonitoring`: `Spec => []WholeOrNothing` |
| `ShownInOrder` | `Spec => []InOrder` |
| `VolumesFit`, `NoKeyErrors` | `Spec => []LegsFit`, `Spec => []NeverAKeyError` |
| `MonitoringTypes`, `FiledUnderTheirMarket` | `Spec => []TypeOK`, `Spec => []OwnMarket` |
| `EveryGapIsTold` | `Spec => []NoGapMissed` |
| `BotsTradeTheirPair` | `Spec => []BotsKnowTheirPair` |
| `DroppedStaysGone`, `PoloniexKeepsVolume` | `OrderLifecycle`: `Safe => []ForgottenNeverLive`, `Safe => []PoloniexVolumeKept` |
| `OneOrderAtATime`, `NothingOpenIsDropped` | `Honest /\ Safe => []OneLiveOrder`, `Honest /\ Safe => []LiveOrdersTracked` |
| `RecoveryKept` | `Safe => Recovers`, the refinement of `OrderRecovery` |
| `SyncTypesHold`, `BooksAreExact` | `OrderBookSync`: `Safe => []TypeOK`, `Safe => []BookExact` |
| `BooksFollow` | `~ Slow /\ Safe => Mirrors`, the refinement of `OrderBookMirror` |
| `DecidesOnSyncedBooks` | `~ Slow /\ Safe => []DecisionsOnSyncedBooks` |
| `LevelTypes`, `StaysSorted` | `PriceLevels`: `Spec => []TypeOK`, `Spec => []BestFirst` |
| `LevelsAreAMap` | `Spec => KeepsMap`, the refinement of `PriceMap` |
| `AdapterTypes`, `SameIds` | `ExchangeAdapter`: `Spec => []TypeOK`, `Spec => []IdsAgree` |
| `OneCopy`, `ConfirmedCancellation` | `Spec => []PlacedOnce`, `Spec => []ConfirmedIsCancelled` |
| `AnswersAreTrue` | `"poloniex" \notin SoftErrors /\ Spec => Promise`, the refinement of `OrderInquiry` |
| `HistoryTypes`, `CopiedUpToTheImport`, `NoSecondRow` | `OrderHistory`: `Spec => []TypeOK`, `Spec => []Complete`, `Spec => []OneRow` |

`TypeCorrect` and `Custody` are proved for any number of orders, ids, processes and restarts, any
volume and any exchange (`ErrorBodies`, `LateEffects`, `Lookalike` free), from
`OrderAssumption` alone. Those of `ArbitrageBot` are proved for any books whose best levels come
first, any holdings, caps, step of volume, misread volumes and thresholds (that of the imbalance
positive) and any writers, from `BotAssumption` and `LotAssumption`.

`TypeOK` is not inductive: a fill needs to know that what was executed stays within
the order's volume. `FillsBounded` (`done <= vol`, and `done < vol` while an order
is open or on its way) is what it lacks; `TypeInv` is both. `OneCustodian` is
inductive relative to `TypeInv`. Its six parts lean on each other: that two
processes do not hold one order is kept by `Claim` and `Pop` because what is queued
is not held, and that is kept by `Requeue` because a held order is in no other
process' hands. The proof does not go through the actions one by one for this, but
through the four things that can happen to custody, each a lemma: nothing moves
(`StayMove`), a process takes a Trade from a queue (`TakeMove`), gives it back
(`GiveMove`), a bot hands it over (`HandOverMove`). Each action is one of them.
The first section of the module has what they need of sequences: which orders are left after
`RemoveAt`, `Append`, a push and `Tail`, and that no order is doubled.

`OrderRecovery_proofs` goes on from there to what recovery may believe about the exchange.
`Onward` is the fact about the exchange that everything rests on: an order that was placed
stays its owner's, keeps its volume, is executed further only, and never comes back to the
books. For any exchange, `SoundInv` then says that the id of a Trade is that of a placed order, and
at Poloniex that the Trade asks for what that order still has at least. The other three need
`Honest`: errors have their own HTTP status (`~ ErrorBodies`), a request that timed out is
dropped (`~ LateEffects`), and the orders of two legs differ in price, time or type
(`Lookalike` has no two). These are the conditions of the run `HonestExchange`; without
them the properties do not hold, as the findings show. `HonestInv` says for each Trade
where an open order of its leg can be: at the id of the Trade while it is watched or in hand
(`WatchKnows`, `HandKnows`), and nowhere once its cancellation was confirmed or the search
among the open orders found none (`OnBooks`). Nothing is proved of orders that were executed at
once: the code may place them again, as a finding says.

`RecoveryKept` needs no condition: what depends on the exchange is inside the promise.
`RecoveryInv` is `TypeInv`, `OneCustodian`, `Honest => HonestInv`, and two facts of its own: what
was lost is nowhere else (`LostGone`), and every order at the exchange is of some leg (`Owned`).
A step leaves all legs where they are (`GoesOn`), or moves one (`LegGoes`): its process takes it
(`Takes`), gives it to a queue (`Gives`), lets it go out of sight (`Drops`) or dies with it
(`Loses`). `Places` says that `PlaceOf` is right where `OneCustodian` holds, and `PlaceStays` that
one leg's move leaves the others alone. What comes to the books is `CalmBooks` or `NewBooks`. That a
leg is dropped or placed only while it is off the books of an honest exchange is `HonestInv`
again (`FreeToPlace`). `StaysLost` reads `LostGone` off the promise itself: none of its moves
starts where a lost leg is.

For `ArbitrageBot` the inductive invariant `BotInv` is `TypeOK`, `CapLifted` and
`PairSound`, which says of the pair in hand all that `BothFill`, `Covered` and
`NeverOvershoots` say, and that its volume is none that may be misread once a minimum is known. A pair appears only in `Arbitrage` and `Reverse`, so that
everything rests on lemmas about the operators of `ArbitrageDecision`: `Quotient` and
`BuyableBounds` bound what base currency buys, `Gain` says that prices which differ by more
than `NotEnough` sell above what they buy, and `PairBounds` puts these together through
the caps and the rounding of a volume without an exponent. `NoDust` rests on the minimum being
compared before the rounding, and on what `BotAssumption` says of tickers: a minimum volume, worth
0.004 bitcoin or the like, is above a millionth of any coin. Convergence needs in addition that a cap is in force in
`reverse` mode and is not 0, which is why `BalanceThreshold` must be positive:
balances that agree would give a cap of 0, and 0 means none.

For `StoredAsAWhole` and `ShownInOrder` there are two, for any tables' contents, quotes, lists, topics and
bounds. `StoreInv` says that a pass stores nothing before its last answer, and that the open
transaction has rows of its answers only. `InOrder` needs to know where every message
is: `Settled(t)` counts those of a topic that are done with, and `InTurn` says that these are
shown or lost, that the one in hand is the next, that the queue has the rest in order, and that
nothing behind the next was ever shown. Popping and putting back leave `Settled` alone,
only a sending that is acknowledged and a crash move it on (`SettleInTurn`). `Topics` may
name a topic twice; nothing but `TopicsAssumption` and `MonitoringAssumption` is used.

`NoKeyErrors` and `VolumesFit` are about the tables. `BotInv` says that a bot past the check
of its arguments has a pair of both exchanges. From there it is a matter of the tables only:
that every pair two exchanges share has its base and currency in the tables (`SharedPairs`,
`BalancesHaveNames`), that Binance' rules leave no more decimals than Huobi's, but for six pairs
(`BinanceIsCoarser`), and that the lot of two legs therefore suits both (`LotsSuit`).
`NeverAKeyError` is one of the two parts of `BotsKnowTheirPair`; the other, `BooksOfItsPair`,
comes from `BooksInv` below.

The contents of answers are sequences of any length, put together by `FlattenSeq`, which is
recursive. As with the binary search of `PriceLevels` below, its induction goes through
well-founded sets of pairs: `JoinsExist` and `FlattenUnfolds` say that it does as its definition
says, `FlattenHas` what it has, `FlattenShort` how long it is, and `AmongHas` what a filter leaves.
Then a document can be followed from the exchange to the table:

- `NamesLeadBack`: the name by which a pair was asked for leads back to that pair;
- one lemma for each kind of processor (`CandlesBecome`, `HistoriesBecome`, `TickersBecome`,
  `BooksBecome`), together `ProcessedBecomes`: what it returns for a unit of work is a string, or
  rows of that unit's exchange and pair;
- `MarketInv`: what is asked, under way, answered, compared and told of is of the listed
  pairs; `OwnMarket` and the readers' types follow from it;
- `AnsweredInv` (every ticker that an exchange sent has its row) and `GapInv` (what was told and
  what is still to be told have every gap between rows) give `NoGapMissed`. `GapsHave` and
  `ComparedAll` are the loops over the rows of two exchanges. `GapIsReal` is the
  arithmetic: `get_change` cuts to hundredths of a percent, and with a threshold that is a
  number of these no gap is lost by it;
- `BooksInv`: the two books come in the order of the legs, though both are asked for together
  or one by one.

`ToldInv` and `TellInv` have the notifier's types. That every message of a topic has a number
below those to come is part of `TellInv`, not of the types alone.

`OrderBookSync`, for any pairs of exchanges, updates and resets. `BookExact` is inductive with
the types (`TypeInv`), and nothing is assumed of how slow threads are, as every change to a book
checks the book it is put on. For the others the pauses must be long enough
(`~ Slow`, the condition of the run `BookSync`; slow threads are a finding). `OneThread`
says that a reset goes on when every thread has ended or is a sleeping loop of Bittrex, and that
only one thread of each side receives events after that. The sleeping ones may still close the
connection of the next, which is one more way for a subscription to stop (`StaysIdle`).
`DecideInv` adds that the stage is `after` only if both sides were synchronised since the reset
(`InStage`), that what is synchronised has a book (`SyncedHasBook`), and that a thread which read
`after` before other threads ran has not outlived it (`ReadStage`): this is the stage that
`on_order_book_update` reads first and acts upon last.

`BooksFollow` needs all of these and `FollowInv`, which is about the events that are not applied
yet: they are of what has happened and are as their exchange sends them (`EventsPossible`); a
thread handles an event that was sent before all those on the connection (`EventsInOrder`); a book
is updated only once it was got, so that the snapshot never falls on a newer book (`GotFirst`); and
where whole books are sent, the local one is not ahead of any of them (`NotAhead`).
`UpdateForward` is what an event does to one book, `MirrorMoves` what that is to the mirror. With
slow threads it is false: one that outlives a reset may apply its old book over a newer one.

`PriceLevels`, for any finite set of prices, with books of any length and any number of
changes. The binary search is a recursive function over the sequence. Its correctness for
every length needs an induction, and the library's induction theorems have an operator as
parameter, which cannot be instantiated here. The proof takes the library's facts about
well-founded *sets of pairs* instead: `LeastNumber` (a set of numbers that is not empty has a
least one), `NumbersInduction` (a set of numbers with every number whose predecessors are in
it is all of `Nat`), then `SearchUnfolds` (the recursive function exists and does as its
definition says) and `SearchFinds` (in a sorted sequence it gives the one place at which all
before are better and none behind is). `InsertedChanges` is what an insertion does to the map
and to the order; `LevelsInv` is sortedness after the sort and one level for a price before.
`SortSorts` shows that any of the orders `Sort` may choose is strict.

`ExchangeAdapter`, for any finite set of orders and any set of exchanges with errors in HTTP
200. `Inv` relates the request or answer on its way to the call (`CallInv`, `DocInv`: an
answer without an error holds what was true at one moment of the call), and Kraken's shared
list to the orders that are closed for good (`ListInv`). `Promise` is shown step by step:
`StepInv` keeps `Inv`, `OrdersAreRight` and `CoinsAreRight` are what an answer is worth, and
each exchange's processors are one lemma (`BinanceTells` ... `KrakenTells`). An error
document of Poloniex passes its `is_error` for balances and is an empty balance; hence the
hypothesis, which the run's exchanges satisfy. It is needed by nothing but the balances.

`OrderHistory`, for any orders, exchanges, numbers, length of the window, clock and kills.
`HistoryInv` has five parts. `SavingInv` keeps the queue and the table of orders apart. `SeenInv`
is what `Complete` needs at every step: each trade of the window that an exchange of this pass had
when it was asked is in a row by its number, among what is still to be saved, or one of the
exceptions (`Excused`). `AnswerHolds` shows that an answer leaves out nothing else, with `DayEnds` for
Huobi's days. `RowsInv` has besides `OneRow` that what was looked up and not found has no
row yet, for which a second process of this kind would be fatal. `EndKeeps` is what all ways
of ending a process share.

What the proofs assume of constants is in the ASSUME of each module, and is no more than
that sets of orders, prices or processes are finite, the ids of orders are unique, and
bounds are numbers, but for two. `NamesAssumption` says that no exchange calls two pairs of its
table by one name, nor Kraken by another pair's second name. It is about the tables, which
are definitions and have no constants; the provers do not know that different texts put
together make different names, so TLC decides it, on the whole tables. `MarketAssumption` has the threshold
of an alarm above a tenth of a percent and a number of hundredths of a percent:
`TRIGGER_THRESHOLD` is 1.5 percent.

Only model-checked: the liveness properties (`WatchTurn`, `StopLeadsToReset`,
`StopsWithoutBalances`, `Delivered`), as fairness and ENABLED are out of the prover's
reach. Every other property of the passing runs is a theorem, under the conditions that the table
shows.

## 7. Not modelled

See the components marked `not_modelled` in `PROJECT.json`, and the notes of those that are
`partly`. The deployment scripts, the node commands, the schema, the enumerations of names
without a rule, the logging and the examples have no behaviour of their own to check. Of
`dao/db.py`, `update_order_details`, which never commits and so leaves no trace, and the queries
of the examples are left out; of the report, its sums and the spreadsheet. The rest is in the
plan.

## 8. Running it

    tlc -workers 2 -config HonestExchange.cfg MCOrderLifecycle
    tlc -workers 2 -config BookSync.cfg MCOrderBookSync
    tlc -workers 2 -config PriceLevels.cfg MCPriceLevels
    tlc -workers 2 -config Decisions.cfg MCArbitrageBot
    tlc -workers 2 -config Adapters.cfg MCExchangeAdapter
    tlc -workers 2 -config MarketMonitoring.cfg MCMarketMonitoring
    tlc -workers 2 -config OrderHistory.cfg MCOrderHistory
    tlapm OrderLifecycle_proofs.tla
    tlapm OrderRecovery_proofs.tla
    tlapm OrderBookSync_proofs.tla
    tlapm PriceLevels_proofs.tla
    tlapm ArbitrageBot_proofs.tla
    tlapm ExchangeAdapter_proofs.tla
    tlapm MarketMonitoring_proofs.tla
    tlapm OrderHistory_proofs.tla

The longest run takes two or three minutes on two cores.
