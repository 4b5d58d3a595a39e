# Verification of the trading pipeline

TLA+ specifications of the services in this repository, TLC configurations that
model-check them on small instances, and proofs, checked by TLAPS, of theorems
about them for every value of the constants.

Paths below are relative to the repository; `risk:175` is line 175 of
`risk/src/main.rs`, and likewise `oms:`, `execution:`, `paper_trading:`,
`monitoring:`, `backtest:`, `market:` (`market_data/src/main.rs`), `adapter:`
(`market_data/src/websocket_adapter.rs`), `mdh:`, `lib:` and `strategies:`.

## 1. The system

Seven processes talk over ZeroMQ publishers and subscribers and share a Redis
and a PostgreSQL:

    market_data --5555 ticks, 5556 books--> strategies --5557 signals--> risk
      --5558 orders--> oms --5559 orders--> execution --5560 reports--> oms
    monitoring subscribes to every stream and writes the Redis keys that the
    operators control (kill switch, limits), which risk reads.

A publisher does not know whether anyone received a message; a subscriber that
is down loses what is sent meanwhile.

| Component | State | Operations | What is hard | What makes it correct |
|---|---|---|---|---|
| **risk** (`risk/src/main.rs`) | `RiskManager`: positions, three limits, message window, local kill switch, price bands; Redis keys `risk:*`, `position:*` | main loop: signal to order, `check_order`, publish; a task that once a second copies the switch and the limits; start | two tasks and one lock held across Redis calls; calls that fail; restarts; a wall clock that steps | exposure and rate stay capped; a switch that is on stops orders; the checks see one consistent set of limits; the copies follow Redis; every signal is decided |
| **oms** (`oms/src/main.rs`) | `pending_orders`, `retry_queue`; Redis idempotency, cache and audit keys; tables `orders`, `executions` | a task for each order (`process_order`, `send_to_execution`) and for each report (`process_execution`) | tasks take the lock in any order; nine fallible calls in a row; duplicates; expiry; sends that fail but arrive, retries; crashes | an order is sent once, but for what the code cannot know; what the market knows has a row; a settled order is not pending; every task ends |
| **execution** (`execution/src/main.rs`, `paper_trading.rs`) | engine: positions, books; a task for each order | acknowledge, execute, report; update the book | tasks interleave; books change between the two sends; sends fail; positions change sign | positions are what the reports say; fills respect limit and book; only what was acknowledged trades |
| **market_data** (`market_data/src/*.rs`) | two order books of one stream, the channel, publication times | a task that streams and parses an exchange's messages; a loop that updates the books and publishes them | two parsers with their own gaps; a book that exists before the service does; two books cut off differently; clock steps; a stream that ends | no level it is told of is lost; the two books agree; published books are an interval apart; the service ends with its stream |
| **strategies** (`strategies/src/main.rs`) | last signal time, price history, average | a loop: book to bid and ask | units of time, spread, skew and rounding; two sends for one quote | quotes surround the middle, never cross and are made once an interval |
| **monitoring** (`monitoring/src/main.rs`) | recent orders, trades and candles, orders by id, rate tracker, metrics | a task for each stream; HTTP handlers, among them `set_kill_switch`, `update_risk_limits` | a report may be handled before its order; lossy streams; bounded collections; two queues that must stay aligned; publishers that are down | every outcome that arrives is shown and never taken back; profit and loss is that of the fills; rates count recent ticks; the service starts and catches up |
| **backtest** (`monitoring/src/backtest.rs`) | a position with its stop | candles one by one: trail, exit, enter; close at the end | three decisions from one candle; an average aligned with it; the start date | an entry risks something, and no exit loses more than that |
| **security** (`security/src/main.rs`) | none | issue a token | - | not modelled: stateless |

The hazards of each component, with their lines and the properties that cover
them, are listed in `PROJECT.json`.

## 2. Plan

Most important behaviour first. All but the last are done.

1. `RiskManager`: the pre-trade gate, together with the handlers that write the
   keys it reads; proofs in `RiskManagerProofs`.
2. `OMS`: order life cycle under duplicates, failures and reordering; an
   abstract `OrderLedger` that it implements; proofs in `OMSProofs`.
3. `Execution`: order tasks and the paper trading engine; proofs in
   `ExecutionProofs`.
4. `MarketData`, `MarketMaker` and their composition `Feed`; proofs in
   `FeedProofs`.
5. `Monitoring`: orders and reports, profit and loss. `Telemetry`: connections
   and rates. Proofs in `MonitoringProofs` and `TelemetryProofs`.
6. `Backtest`; proofs in `BacktestProofs`.
7. `Induction`: the facts about naturals, finite sets, sums, sorting and folds that
   the proofs about data need.
8. `Pipeline`: risk, oms and execution over lossy channels, with the exposure
   booked by the first against the exposure executed by the last.

As runs are few and properties many, safety properties of a component share a
run and so do its liveness properties.

## 3. The modules

### RiskManager

Models `risk/src/main.rs` entirely and two handlers of `monitoring/src/main.rs`.

`main` is where the main loop is: waiting for a signal (`recv`) or for the lock
(`lock`), or about to make the Redis call named `kill`, `maxloss`, `loss` or
`set`, or about to publish. `monitor` is the same for the spawned task: asleep,
or about to GET the switch or one of the limits. Both hold `rm.write()` across
their awaits (`lock`), so between two calls of one nothing of the manager is
changed by the other, while Redis is changed by the operators at any time.
Every action is what the code does from the return of one call to the next:
`CheckKillSwitch` is the GET of the switch followed by the throttle and the
checks of size, band and position (risk:173-227); `Book` the GET of the daily
loss with the insertion into `positions` (risk:234-242); `StorePosition` the SET
and its `?` (risk:245).

* Every Redis call may fail (`ok`), and a failed SET may have been stored.
* `Boot` is `RiskManager::new`, whose failed reads fall back to defaults; a
  positions map starts empty. `Crash` may happen anywhere: every `?` of `main()`
  and every kill.
* Clocks: `ClockChange` moves `now_secs()` forward or back; `WrappingSub` is the
  `u64` subtraction of a release build (a debug build would panic, which is a
  `Crash`).
* Price bands are an arbitrary map read at the start, since nothing in the
  repository writes `symbols` or `price:*`; `risk:daily_loss` is constant, for
  the same reason.
* History variables: `exposure` (what was published), `before` (its value at the
  last start), `phantom` (bookings of orders rejected after them), `watch`
  (whether the switch has been on since the current check began, and whether the
  check failed to read it), `sentSecond` and `allowance`. No action reads them.

### OMS

Models `oms/src/main.rs`. `tasks` are the spawned tasks that wait for the lock,
which any of them may get (`Acquire`): the runtime may poll them in any order.
`active` is the holder, and `step` the call it is about to make. The calls are those
of `process_order` (EXISTS, SETEX of the key, INSERT, SETEX of the cache, LPUSH,
LTRIM, send, and then the insertion into `pending_orders`), and of
`process_execution` (INSERT, UPDATE, then the cache, LPUSH and LTRIM). A call fails
or succeeds, and a failed write or send may have taken effect (`applied`): a sending
that left in spite of its error is counted in `doubtful`, and the loop repeats it.
`attempt` counts the sends of `send_to_execution`; after the last the order goes to
`retryQueue`, from which nothing takes it.

The execution service is the environment: a sending is acknowledged and then
concluded by a report with one of the statuses of `Final`, among those
`paper_trading.rs` gives, or never answered: nothing obliges the environment, so
that a lost message needs no action. The first report may come between the send and
the insertion; its task then waits for the lock.
`Deliver` may deliver an order several times. `Expire` ends the life of a Redis
key. `Crash` forgets tasks and collections, `Restart` recovers nothing.
`misses`, `sent`, `doubtful`, `said`, `settled` and `failed` are history.

The cache refresh of `process_execution` (oms:208-219) re-stores the value it
read and ignores errors: it only renews an expiry and is part of `UpdateStatus`.
Orders with an empty id, which share one key (oms:105, 119), are not modelled:
`risk` gives every order an id.

`OrderLedger` is what the service promises of an order whatever its tasks, caches
and failures: `Store` gives it a row, `Send` needs the row and an allowance, which
a sending in doubt does not use up, `Say` is a report of the market on an order that
was sent, `Learn` writes into the row a status that the market has said, `Forget`
raises the allowance when the key of an order could not be found. `OMS` maps
`row` to the orders table and `allowed` to one more than `misses`; everything
else it does (locks, caches, audit, retries, crashes) is a stutter of the ledger.
The property is `KeepsLedger`.

### Execution

Models `execution/src/main.rs` and `execution/src/paper_trading.rs`. `phase` is
where the task of an order is: before the send of its acknowledgement, before
its execution, before the send of its report. A failed send ends the task
(`failed`). The engine's lock is never held across an await, so `ExecuteOrder`
is one action with the three outcomes of the code: `Reject`, `LeavePending` and
`Fill`. `Bought` and `Sold` are `update_position`; `avg_price` is an exact
fraction. Quantities filled are in tenths, so that 0.9 of a level is exact. The
random slippage and the market impact are an arbitrary positive `Cost`: the
code's range, 1.25 to 4.75 basis points, is always adverse. `unrealized_pnl` and
the two getters marked as dead code are left out. The books that arrive have
both sides, as `market_data/src/main.rs:127` publishes no other.

`acked`, `reported`, `filled`, `lot` and `shorted` are history.

### MarketData, MarketMaker and Feed

`MarketData` models the streaming task (`adapter`) and the main loop (`market`)
with its two books: `builder`, the simple one of `lib.rs`, and `levels`, the
enhanced one of `mdh.rs`. The exchange is the environment. It has a book (`market`)
when the service connects, any that is not crossed, and the service starts with
none: Coinbase's snapshot is a message that `parse_coinbase_pro` does not read
(adapter:133), and Binance has none. `DepthMessage` changes some levels, and what
`parse_message` makes of the message is put into the channel. On Binance the
message lists the best `Sent` levels of either side (`depth20`, adapter:41), changed
or not, and a tick is made of each that has a quantity; on Coinbase it has the
changes, and a tick is made of one. An iteration of the loop is two steps, as it
waits in between for the send of the tick: `ProcessTick` updates both books and
the time of the enhanced one, `Publish` reads the clock again and publishes the
snapshot, with that time, when its interval is over, and looks after the candle's
clock. `at`, the clock at a publication, and `heard`, the prices of which a
tick told since they last changed, are history. Prices of the enhanced book
are fixed-point (`Fixed`, strictly increasing: `PriceLevel::from_f64` cuts off).
A clock that is stepped back is found by the next iteration, which panics.
`SortedBy` (`sort_by`) is the sequence of a set's elements that is in order, and
`Retained` (`Vec::retain`) the entries that are kept, in their order. Prices and
quantities are finitely many, as floats are.

`MarketMaker` models `strategies/src/main.rs`; it shares `wire`, the books on
their way. `Quotes` is computed exactly, with the spread any of a set: the
average only moves it within a range. `Feed` composes the two: a step is one of
either, and the other's variables stay.

### Monitoring and Telemetry

`Monitoring` models the order task and the report task of `monitoring`. A task holds
one collection's lock at a time, so the actions are the stretches under one lock:
`StoreOrder` and `ShowOrder`; `LookUpOrder`, `UpdateStatus` and `AddTrade`. The
services that publish are the environment, and an order or a report may be missed,
be it once or, for a stream that was not connected at the start, all of them.
`orders_by_id` loses any of its keys when it is full, as a `HashMap` has no order.
`MetricsData` is the FIFO matching of `get_metrics_data` as a fold over the trades
shown, with lots per symbol; `ByTime` is their stable sort, as the only sequence of
them that is in order of time and, at one time, of arrival: both orders of a quote
have its timestamp, and so have their trades (monitoring:896). What it is compared
with knows no lots: `UnitPrice` is the price of the n-th unit bought or sold, `Cost`
that of the unit a unit sold was bought as, and `After` sums the differences over
the units sold. `lost`, `filled`, `early` and `evicted` are history.

`Telemetry` models the connections and the `RateTracker`. The main task is at the
first stream that waits (`Trying`), makes `Retries` attempts and goes on; the
background tasks of the streams that have one start after the last stream was
tried, as `main()` spawns them there. `RecordTick` is `record_tick`.

### Backtest

`TakeCandle` is an iteration of the loop of `EmaStrategy::backtest` with the
candles that warm the average up before it, `Finish` what follows the loop. The
average used for a candle is the one before it (backtest:119). `buffer` is any of
`Buffers`, negative ones included: it is a query parameter that nobody checks
(monitoring:1240). `entry` and `stop`
are in fractions of a price unit, so that the buffer is exact. `closed`,
`opened`, `exits` and `premature` are history.

## 4. The runs

Small sets of model values; the names of bounds begin with `Max` and are named
in the modules' `CONSTANTS`. Deadlock is not checked (`CHECK_DEADLOCK FALSE`): a
behaviour really stops when its bounded inputs are used up.

| Run | Checks | Bounds, and why they are enough |
|---|---|---|
| `RiskOrders` | `TypeOK`, `ExposureCapped`, `RedisShowsExposure`, `RateCapped` | two symbols, quantities 1 and 2 with a limit of 2, so that two orders reach the limit and a third passes it on either side; one message per second and a clock that goes forward and back, so that every comparison of the window is taken; one failing call, two starts |
| `RiskControl` | `KillSwitchHonored`, `StableDuringCheck`, `KillSwitchFollows`, `LimitsFollow`, `SignalsDecided` | one signal, two changes of the switch, one request with any subset of the limits, one failing call, two starts: a check and a refresh each meet every prefix of the writes; two requests at once are out of reach beside the rest |
| `OMSOrders` | `TypeOK`, `SentOnce`, `KnownIsPersisted`, `SettledNotPending`, `AuditBounded`, `KeepsLedger` | one order (orders share only the lock and the audit list) delivered twice, two failing calls with one resend, so that a send in doubt is repeated and the retries are exhausted; one expiry and one crash; a list that is trimmed to two; fills as the only outcome, as nothing tells the terminal ones apart and an acknowledgement comes anyway |
| `OMSProgress` | `TasksEnd`, `DeliveredIsSent`, `TerminalClears` | two orders with the reports on their sendings, so that six tasks and more compete for the lock; one failing call with one resend: an EXISTS or a send may fail and the order still is sent, and a failing handler exempts only the order it is about |
| `OMSStatus` | `TerminalIsFinal`: violated | |
| `Execution` | `TypeOK`, `UnacknowledgedNeverTrades`, `PositionIsFills`, `AvgBetweenPaid`, `FillsAtTouch` | three orders, interchangeable: a position is opened, partly closed and turned; two prices on either side of every limit, so that books change under an order; each fill takes 0.9 of a level, so that an order is filled in part, and a third purchase weighs one to the two before it (the theorems are about any quantities); one failing send, one crash |
| `ExecutionPending` | `PendingIsExecuted`: violated | one order, two prices, no fault |
| `Feed` | `BooksAgree`, `LevelsKept`, `BooksSpaced`, `QuotesAroundMiddle`, `StreamEndStops` | any book of the exchange at the start; three messages of up to two changes at two prices, with one level listed by Binance and one kept by the simple book, so that levels are not told of, cut off and come back; a clock of three values with one step back, also between the two steps of an iteration; a channel to the subscriber that overflows; one restart of the strategy; a cent of 21 units, in which no quote is round |
| `FeedInterval` | `QuotesEveryInterval`: violated | the same, where milliseconds are compared with twice, not a million times, the interval; with a factor of one the property holds |
| `Monitoring` | `TradesAreFills`, `ProfitIsFifo`, `StatusNeverBack`, `OutcomeShown` | four orders: a purchase of two, of which two sales of one time take one unit each, at a profit and at a loss and in either order of arrival, which changes the drawdown, and one of another symbol before it; three shown, three trades and three orders kept by id at a time, so that every collection evicts while reports are under way (the map loses all, as after 1000 entries it loses those still needed); one message of either stream lost; at most two orders without their outcome (`MaxOpen`) and two messages to be received (`MaxWaiting`) at a time |
| `Telemetry` | `RateOfWindow`, `StartsAnyway`, `RetriedConnects` | three streams, the middle one without a retry, two attempts each, so that each of success, retry and giving up meets each position; two endpoint changes and one timeout; four ticks over four seconds with a step back, so that a tick drops several |
| `Backtest` | `RiskPositive`, `ExitWithinRisk`, `FlatAtEnd`, `TradesDated` | all sequences of seven candles, four of them after the average is there, over four prices: an entry, a trailing stop and an exit, and a second entry; a buffer of each sign; prices are multiples of what the averages divide by, so that these are exact |

Every property that holds is broken by a mutant of the code, listed in
`PROJECT.json`; the mutated operators stand next to the ones they replace, each
with a comment that begins with "Bug:".

### What the violated properties show

* **A terminal status is overwritten** (`OMSStatus`). Two reports are handled by
  two tasks, in either order, and the UPDATE is unconditional (oms:72, 345);
  README.md:290 has an order state machine that ends there.
* **The quote interval is a million times too long** (`FeedInterval`).
  `should_quote` compares milliseconds (mdh:146, 189) with
  `min_signal_interval_ms * 1_000_000` (strategies:101), where strategies:90 says
  "50ms minimum interval".
* **A pending limit order is dropped** (`ExecutionPending`). It is answered
  (paper_trading:153-162) and kept nowhere; README.md:305 lists an "Internal order
  book for pending orders". The counterexample is a market that comes to the limit
  and stays, with every task polled.

### Observations

What reading the code for the models also showed, without a run of its own. The
properties state what does hold, and name these as their exceptions.

* The kill switch fails open: a GET that fails falls through to the other checks
  (risk:175), and an order leaves under the switch that README.md:480 calls an
  "Emergency stop mechanism to halt all trading". `KillSwitchHonored` states what
  holds: a check under the switch stops unless its GET fails.
* A restart forgets the exposure: `RiskManager::new` begins with no positions
  (risk:136) although Redis has them, while README.md:482 has "Caps exposure per
  symbol". `ExposureCapped` is about one run of the process.
* A position booked for an order that is then rejected because its SET failed
  stays booked (risk:242-245), and no booking is ever released, since no report
  reaches the risk service. Price bands are read once, at the start (risk:126).
* A failed order is taken for a duplicate: the key is set before the row is
  inserted (oms:116, 126), so that a redelivery is dropped. A send that failed
  after it had arrived is repeated (oms:170-189) and executed twice; `SentOnce`
  counts it.
* LTRIM 0 10000 keeps one entry more than oms:148 says; `retry_queue` is never
  read (oms:184).
* From flat, sell 10 at 100 and buy 15 at 90: the average price becomes 270
  (paper_trading:240). `AvgBetweenPaid` leaves out positions that were short.
* Fills do not consume the stored book (paper_trading:118). The report of a fill
  that cannot be sent is lost, the position stays (execution:104).
* Dead levels stay in the book on Binance: levels without a quantity are dropped by
  the parser (adapter:161, 185) and unlisted ones never removed, so that the best
  levels of the book are not the exchange's; README.md:11 has "L2 with top 20
  levels". `LevelsKept` is about what the exchange has, not about what it had.
* The simple book falls short of its best levels on Coinbase: a level cut off at
  lib.rs:38, "Keep only top 10 levels", is not there when a better one is removed.
  `BooksAgree` states what holds of each exchange.
* Coinbase messages are read up to their first change (adapter:84), and its
  snapshot not at all (adapter:133). Nothing connects again after the stream ends
  (adapter:263-287).
* Books are published an interval apart, but their times may be nearer to each
  other: they are read before the send of the tick, the interval after it
  (mdh:119, market:112-119).
* A clock stepped back ends the market data service (market:120, 151). Its event
  channel is never read and grows for ever (market:73, mdh:235). Mid price and
  spread of the simple book go stale, unread (lib:61). Books are looked at only
  when a tick arrives.
* One failing send of the strategy service leaves a bid without an ask and ends
  the process (strategies:70). The average is fed only by the books that pass the
  interval.
* monitoring: a report handled before its order was shown leaves it PENDING; only
  `Filled`, not `PartiallyFilled`, becomes a trade (527); the map loses arbitrary
  keys although 437 says "oldest"; four of the six streams are not retried in the
  background; the rate is of up to two seconds and does not decay without ticks;
  `win_rate` divides zero by zero when nothing was won or lost (950);
  `get_pnl_data` subtracts the whole cost of a purchase although 1210-1211 say
  "just return realized P&L"; the risk status shows the switch as off when Redis
  is down; `control_strategy` writes keys that no strategy reads.
* backtest: a stop is filled at the stop's price even if the candle opened beyond
  it (150); a downward cross also closes a short position (146); `ema_period` 0
  underflows (118); when no candle is at or after the start date all of them are
  traded (86), which is the exception `TradesDated` names.

### Fairness

* `RiskManager`: weak fairness of the steps of a task that holds the lock (Tokio
  polls a task whose call has returned) and strong fairness of the two grants:
  Tokio's `RwLock` serves its waiters in order, so neither loop is passed over
  for ever, although the lock may be taken whenever one looks. Requests that are
  under way go on. Signals, operators, the clock, faults, crashes and restarts
  owe nothing, so `KillSwitchFollows` and `LimitsFollow` are about behaviours in
  which the process is finally up.
* `OMS`: weak fairness of the holder of the lock and of the grant to some waiter.
  Orders and the execution service's answers owe nothing.
* `Execution`: weak fairness of each order's task.
* `Feed`: weak fairness of the market data loop, both steps of an iteration, which
  Tokio polls. The exchange,
  the clock and the strategy owe nothing.
* `Monitoring`: weak fairness of each of the two tasks; the services owe nothing.
* `Telemetry`: weak fairness of the attempts at each stream: an attempt is bounded
  by its timeouts and the sleeps between attempts end. Publishers owe nothing, so
  `RetriedConnects` is about those that finally stay.

## 5. The proofs

`RiskManagerProofs` proves, for every value of the constants that satisfies
`ConstantsAssumption` (limits and quantities are naturals, `MaxLimit` bounds the
limits, a word is larger than the clock), the type invariant and four state
invariants of `RiskManager` and one action property. Each is proved by an
invariant that every action preserves: one step per action, and under it the
conjuncts the action can disturb.

* `TypeCorrect`: `TypeOK` is inductive as it stands.
* `Control` (a lemma) is what the rest uses: the lock is held exactly when the
  task that holds it is at one of its calls; `order` is empty unless an order is
  in hand, and then holds one; a process that is down holds nothing.
* `DecisionsStable`: from `Control`, the monitor task is asleep whenever a check
  is past its grant, and no step of a check writes the switch without leaving it.
* `KillSwitchSafe`: `watch` is armed only at the step `kill` with the switch set,
  because the step that leaves it either rejects or failed to read.
* `ExposureSafe`: `ExposureCapped` is not inductive. The strengthening is a
  balance: for every symbol, the manager's position is what was published since
  the start, plus the phantom bookings, plus the order in hand if it is booked
  already; and the booked position is within `MaxLimit`, as is the one an order
  in hand would lead to. With it, every published exposure differs by its phantom
  from a bounded position.
* `RateSafe`: the orders sent in this second and the one in hand past the count
  are within the second's allowance. What makes it inductive: while the manager's
  window is the current second's, all it still concedes fits too; while it is an
  older one, a whole `MaxMessages` is to spare, for the window yet to open.
* `RedisExact`: in a first run without faults, a position key is the manager's
  position, but for the order between its booking and its SET.

`OMSProofs` proves the types, the state invariants and the refinement of `OMS`, for
any orders and bounds.

* `TypeCorrect`: `TypeOK` is inductive, with lemmas for the calls of a handler.
* `Inv` adds what the others need: `Locked` (one task at most holds the lock, and
  without one no call is under way), `RowsFirst` (what is cached or was sent has a
  row, as has the order in hand past its INSERT), `AnswersSent` (reports waiting or
  handled, executions and the market's answers are about orders that were sent, and
  say what the market has said), `Allowance` (what the key of an order allows: while
  it is there one sending more than `misses` and `doubtful`, while it is not, or
  while the order is between its check and its send, none) and `Unsettled` (an order
  whose key was never missed has the key from its handler's first SETEX on, and so
  no second handler gets past EXISTS; and its handler past EXISTS means that no
  report on it was handled yet). `SentOnce` alone is not inductive: a state with the
  key gone and the allowance used up satisfies it.
* `SentOnceHolds`, `KnownIsPersistedHolds`: from `Allowance` and `RowsFirst`.
* `SettledNotPendingHolds`: inductive on top of `Inv`. The insertion is a step of its
  own after the send, so a report may be waiting by then; that it is not handled is
  `Unsettled`, which needs the one holder of the lock (`Locked`).
* `AuditBoundedHolds`: inductive on top of `Inv`, counting the trim still to come.
* `Refinement`: under `Inv`, every action of `OMS` is a step of `OrderLedger` or a
  stutter of it.

`ExecutionProofs` proves the types, three invariants and an action property of
`Execution`, for any orders, symbols and prices.

* `TypeCorrect`, `NeverUnacknowledged`, `FillsWithinLimits`: the invariant adds
  that an order past its receipt carries a request, and that an order at its
  execution or beyond was acknowledged first.
* `PositionsAreFills`: `Balanced`, that a position is the sum of the fills of its
  symbol, with `FilledOnce`, that a fill belongs to one order that was executed.
  A fill adds one term to the sum (`SumRemove` of `Induction`) and the same amount
  to the position.
* `AveragesArePaid`: `Paid` adds to `AvgBetweenPaid` what makes it inductive: a flat
  position has no buyers, and one that was never short is not negative. The new
  average is a mean, weighted by natural numbers, of the old one and of a price
  paid.

`BacktestProofs` proves, for any prices, period and buffer, the four properties of
the run, the types, and that a stop moves one way only (`StopsTrail`). The buffer is
any integer, as the query parameter is; what needs one that is not negative
(`RiskPositive`, and `ExitWithinRisk` of the close at the end) has that as its
hypothesis. The invariant is `TypeOK`, `RiskPositive`, `ExitWithinRisk` and
`Guarded`: the stop of an open position is at least as good as the one it was opened
with, and the last close, for a buffer that is not negative, has not reached it.
Without the latter `Finish`, which closes at the last close, could close below the
stop.

`FeedProofs` proves the four state invariants of `Feed`, for any prices,
depths, intervals and clocks.

* `BooksStaySpaced`, that books are published an interval apart: `BooksSpaced`
  compares only the books the subscriber has yet to read, so it is strengthened by
  `Published`: none of them was published after `lastBook`, against which the next
  publication is measured. That a book's time is not before an earlier publication
  as long as the clock was not stepped back needs `Timely`: the time of the last
  update is not before `lastBook` while its tick is in hand. A ticker message of
  Binance brings no such update, and no book either (`EmptyNotReady`).
* `LevelsStayKept`: `LevelsKept` speaks of the moments when no tick waits.
  `Followed` says of every moment and every price in `heard` that the last tick
  waiting for it, or the book if none waits, shows what the exchange has; a tick
  added last decides alone, and the one processed first is either not the last or is
  written into the book. `ListedHeard` says that on Binance, once a message came,
  every level that is among the best is in `heard`, as each message lists them all.
* `BooksStayAgreed`: `SideInv` says of each side of the simple book that it is in
  order, has at most `Top` levels, all of them levels of the enhanced book, and
  that what it lacks, if it may lack anything, comes after all it holds. The step
  (`BuilderStep`) is about `retain`, the insertion, `sort_by` and `truncate` one
  after the other. That the cut of a longer sequence is a longer cut comes from
  `OrderedBest`: a sequence in order is the sort of its elements.
* `QuotesStayAround` has the hypothesis `SpreadsSpanCents`: half a spread around
  every price is at least half a cent. Both quotes are rounded to whole cents, "for
  BTC-USDT" (strategies:192), and the code checks that they do not cross but not
  that the rounding leaves the middle between them; with its least spread, 2 basis
  points on either side (strategies:178), the hypothesis holds of prices of 25 and
  more. The invariant is that every book on the wire has levels on both sides and
  the mean of two prices of the exchange in its middle.

`MonitoringProofs` proves, for any number of orders and any capacities:

* `TradesStayFills`: the trades shown are the newest of the fills taken, in their
  order. `TradesInv` adds that what is under way was reported (`Reports`), that a
  fill is under way or was taken, once (`FilledOnce`), and that the trades are the
  last of the fills taken but for the one in hand (`TradesTaken`).
* `StatusStays`: the status shown of an order whose outcome is shown is not changed.
  It needs that the order's event is its only one, hence `InLine` (orders are
  pushed in the order of their numbers), and `LastWord`: a report that is still to be
  handled after the outcome would have to come from before it, and the channel and
  the task keep the order.
* `ProfitStaysFifo`: profit and drawdown are those of first in, first out. The
  invariant here is one of the computation, along the trades: the lots left of each
  symbol are the units of it bought and not yet sold, in their order (`Covers`), and
  profit, peak and drawdown are those of the units sold (`Tracks`). Inside a sale a
  second one, along the lots, adds what is left to sell and which lots are still to
  come (`InSale`). The code looks for peaks and troughs once a lot, the property
  once a unit: all units of one lot and one sale earn the same, so the profit runs
  on a straight line between, whose extremes are its ends (`TracksOn`). The trades
  have a sort as time and place of arrival together are a strict order, whatever
  their times.

`TelemetryProofs` proves `RateIsOfWindow`, for any clock, window and latencies. The
invariant says that the samples held are those of the ticks last recorded
(`Newest`), that for each tick that is gone one recorded after it was newer by more
than the window (`GoneOld`), which a clock stepped back leaves true, and, while the
clock was never stepped back, that ticks are in order and those held in the window
of the last (`InOrder`).

`Induction` holds what these proofs share. The library states induction for an
operator `P(_)`, which the provers cannot instantiate; the module says it of sets:
a set of naturals that holds 0 and all successors is `Nat`, from the least element
of its complement, and likewise for the finite subsets of a set. From these: that a
sum over a finite set is well defined, and what adding or removing one element does
to it; that every strict order on a finite set has a sorted sequence, that it is
unique, and what a sequence in order is the sort of; and that a fold over a sequence
is the last value of a run, which starts with the first value and takes the
operator's step at each position, so that an invariant of the steps holds of it.

Nothing else is assumed beyond the constants' assumptions.

Only model-checked, not proved: the liveness properties, as fairness is out of the
prover's reach. Every safety property of the runs that holds is proved.

## 6. Not modelled, and why

* The candle and book tasks of `monitoring`, which only replace what is shown, and
  the handlers that only read; the dashboards, which are presentation.
* Sizes, slippage, fees and curves of the backtest, which decide nothing in it.
* Latency samples and the trade tape of `mdh.rs`, which nothing reads or calls.
* `src/*.rs`, `src/strategies/*.rs` (the strategy runtime and its Python bridge)
  and `strategies/*.rs` beside the package's own `src/main.rs`: they belong to no
  package of the workspace (Cargo.toml:3-11), so they are neither built nor run.
* The token service has no state.
* The `shared` crate, which defines the messages, is not in the repository; its
  types are taken from their uses. Floating-point rounding is abstracted, except
  for the rounding to cents and the fixed-point prices: quantities, prices and
  averages are exact.
