# A TLA+ verification development of the trading platform

This directory models the trading core of the repository: order management,
positions and risk, strategies and backtest, the async tick feed, and the small
stateful services around them. TLC checks the models on small instances; TLAPS
proves the central properties for every value of the constants. Paths below are
relative to `src/src/` unless they start with `tests/` or `README.md`.

Contents: 1 the system, 2 the modules, 3 the runs, 4 fairness, 5 what is proved,
6 where the code and its documentation part, 7 what is not modelled, 8 plan.

## 1. The system: inventory

**Order manager** (`execution/order_manager.py`). State: `_orders`, a dict from
`client_order_id` to a record (order, status, fill), in memory only. Operations:
`submit_order` (id check, retry loop with backoff, four answers),
`reconcile_order`, `mark_rejected`, and the two lists. It calls
`broker.submit_order`, which executes, rejects, disconnects or times out, and
after a timeout nobody knows whether the order was executed. Hard: retries of an
order that was executed, answers of abandoned attempts, restarts that lose the
records, reconciliation that overwrites them. Correct means: one execution for an
id, the same fill for everybody who asks, and calls that end.

**Broker** (`broker/base.py`, `broker/mock_broker.py`). State: executed ids,
fills, positions. A known id gets its original fill and has no further effect.

**Async feed** (`market_data/async_feed.py`). A producer task, a bounded
`asyncio.Queue`, a consumer task with a handler, and three stop methods. State:
the queue with its count of unfinished items, where each task waits, two
`_stopped` flags. Hard: cancellation at any await, a `None` that marks the end of
the stream and can be sent by two parties or by none, a join that waits for every
item. Correct means: every tick accepted is handled once, in order; stops end.

**Position** (`core/position.py`) and the **reconciliation of the dashboard**
(`dashboard/pipeline.py`, `_reconcile`): average cost arithmetic, written twice.
Correct means that they agree and that no money appears or vanishes.

**Risk manager** (`risk/risk_manager.py`): a pure function from held quantity,
desired target and two switches to a decision. **Grid strategy**
(`strategy/grid_strategy.py`): remembers a grid (entry price, direction), adds a
level at each favourable spacing, stops out. **Stop-and-reverse strategy**
(`strategy/stop_and_reverse.py`): holds or reverses. Hard: the strategy updates its
grid before risk and broker have agreed, and may be restarted with a position open.

**Pipeline and engine** (`dashboard/pipeline.py`, `backtest/engine.py`). A first
pass plans targets on a shadow position, the engine executes them a bar later under
its own risk manager. Correct means that the two do not drift apart.

**Costs and slippage** (`backtest/costs.py`, `backtest/slippage.py`): formulas the
engine applies to each fill. Correct means that the equity curve is the money that
changed hands.

**Rate limiters** (`broker/rate_limit.py`): time of the last request, and a sleep
at which async callers interleave. **Retry helpers** (`broker/retry.py`): a loop with
a classification of errors and a growing delay. **Kite client and tokens**
(`broker/kite_client.py`, `broker/auth.py`): an order book without idempotency, and a
token that is used up, refreshed or made to expire. Hard: callers that share limiter
and token come to them in any order, and an answer lost after the order was placed
is retried.

**Replay** (`market_data/replay_market_data.py`): a CSV file, loaded whole or not at
all, and a stream for each instrument.

**Trade blotter** (`observability/blotter.py`): recorded ids and unwritten records in
memory, a CSV file on disk; writes may fail and processes die at any byte. **Macro regime engine** (`macro/engine.py`): the
previous regime and breaker, against which transitions are logged. **Contracts and
rollover** (`contracts/*.py`): registered expiries and a verdict for a date.

Interaction: a strategy's target passes through the risk manager to an order; the
order manager drives the broker; fills move the position and are recorded in the
blotter; the pipeline recomputes the position from the blotter. The macro engine
supplies the circuit breaker the risk manager reads. The replay's ticks are the
source of a feed. The feed, the broker helpers and the contract master are called
from outside and share no state with the rest; `README.md:403` calls authentication
and rate limiting utility components, so how they are combined is the caller's.

`PROJECT.json` lists every component, those not modelled too, and every hazard at
the line where it bites.

## 2. The modules

| Module | Models | Composes |
|---|---|---|
| `ExactlyOnce` | abstract: a ledger with one execution for each id, told to callers | |
| `OrderManager` | order manager, broker, connection, process restart | refines `ExactlyOnce` |
| `Reconciliation` | comparison of two maps of positions (`observability/reconciliation.py`) | used by `OrderManager` |
| `TickStream` | abstract: accepted ticks are handled once, in order, drained by a stop | |
| `AsyncFeed` | producer, queue, consumer, stop methods | refines `TickStream` |
| `Quantities`, `Position` | signed quantities; `apply_fill`, `unrealized_pnl` | |
| `ReplayFeed` | loading of a file, and its ticks as the source of a feed | `AsyncFeed` |
| `Bookkeepers` | position and reconciliation over the same fills | `Position` |
| `Backtest` | the engine's fills, slippage, charges and equity marks | `Bookkeepers` |
| `RiskManager`, `GridStrategy`, `StopAndReverse` | the decision and target functions | `Quantities` |
| `GridTrading` | bars through grid strategy, risk, an order that may fail, position | the four above |
| `Session` | first pass and engine of one dashboard session | strategies, risk |
| `RateLimiter` | both limiters, n tasks and a clock | |
| `BrokerCalls` | orders under retry, limiter and token, Kite client | `RateLimiter` |
| `TradeBlotter` | memory, file, writes cut anywhere, deaths and restarts | |
| `MacroRegime` | `evaluate` with its memory and event log | |
| `Rollover` | registry, verdict, and a caller that follows it | |

`MC*` modules give constants their values; `*_proofs` modules hold the proofs.
Operators whose name has a suffix (`Take_NoDedup`) are plausible bugs, written next
to the definition they would replace; no specification uses them. Each property is
violated when the mutant named for it in `PROJECT.json` takes the definition's place.

### OrderManager

`submit_order` is one call of several steps, so that a crash or a late request can
fall between any two. `Submit` is the code up to the retry loop (an existing id is
compared with the order and must not be settled), `SubmitKnown` the return of a
recorded fill, `StartAttempt` a turn of the loop up to the broker call, the four
`Broker...` actions what the broker answers, the four `Handle...` actions the
`except` clauses and the success path. Calls that raise without changing anything
(unknown id, conflicting reuse, previously rejected) are guards. `ReconcileOrder`
and `MarkRejected` take whatever they are given, as the code does. Who gives it is
`AskBroker`, the caller, outside the repository: it passes on the broker's own
answer, a fill or the absence of one, as the tests do. A caller who does otherwise can
replace or undo a fill, and nothing is claimed about it.

A fill is the index of the execution at the broker, so "the same fill" means the
same execution. `inflight` holds requests of abandoned attempts that may still reach
the broker (`ArriveLate`); with `Unreliable = FALSE` they never do and the broker is
exactly the mock. `Restart` drops the records and the call; the broker lives on.
`answers` is a history variable. Left out: attempt counters and times, reasons,
events, the delay between attempts, generated ids (they are never reused).

### AsyncFeed

An action is what a task does from one await to the next, as asyncio switches only
there. `ppc`, `cpc` and `spc` say where producer, consumer and stopper wait.
`Finally` is the producer's `finally` clause with its three outcomes, and it runs
after the source ends as well as after a cancellation, which is how a producer that
is being cancelled can come to wait for room again. `wait_for` is two steps: it
cancels, then waits for the task to be over. `Timeouts` allows a wait of 1.0 s to
expire before what it waits for happens. One caller at a time is inside a stop
method; `ConsumerStop` is one step as its task ends at once. A stop may come before
`Start`, and `MaxQueue = 0` is an unbounded queue. A source that raises ends like one
that is exhausted: the code logs the error and goes on to the same `finally`.

`ReplayFeed` puts a file in front: `LoadTicks` folds `LoadRow` over its rows (parsing
and range checks are the row's `valid`), the constructor raises for the whole file
or takes all of it, and the ticks of one instrument are the list given to the feed,
as `examples/async_feed_example.py` does. `ReplaySource` is then the source of the
feed, which ends after exactly those ticks.

### Position, Bookkeepers, Backtest

`ApplyFill` and `Recompute` are translated one from each source, with the branch
conditions of each. Prices and averages are integers; the instances scale prices so
that every reachable average is exact, and the proofs hold for the rounded quotient.

`Backtest` is the engine's loop over these books. `EngineBar` is one iteration: the
pending order fills at the open (`FillPending`, with `FillPrice` and
`CalculateCosts`), the close marks the equity, a target makes the next order. Any
target may come, a refused one being the position held; which ones do come is
`Session`. Rates are parts of `Scale`. `bought`, `sold` and `at_open` are history, so
that the equity can be compared with a ledger that knows no averages.

### RiskManager, GridStrategy, StopAndReverse, GridTrading, Session

The three functions follow the code branch by branch. `pyramid_count` is left out of
the grid: each bar derives it from the position before using it. In `GridTrading` a
bar's order fills or comes to nothing, the breaker opens and closes, and a restart
forgets the grid but not the position. `Session` follows `_generate_targets` and
`run_simple`: `Generate` plans a bar (`WarmUp` when indicators are missing),
`EngineBar` fills the previous bar's order and decides the next. The first pass is
finished before the engine starts, as in the code. `opened` and `breached` are history.
`Settle`, `Regime` and `Restart` of `GridTrading` are surroundings: the repository has no live
loop, only a strategy, a risk manager and a position made for one. Orders fill at the
close there; the bar between decision and fill is in `Session`.

### RateLimiter, BrokerCalls

`Acquire`, `Sleep` and `Wake` are `acquire` up to, and after, its sleep; a blocked
thread is a single caller. The time of the last grant itself is kept next to the
shortest gap seen.

In `BrokerCalls` each caller makes one call of `retry_async` around an attempt that
takes a token, passes the limiter and places an order. `SendNow`, `SendLater` and
`SendAfterSleep` are an attempt without and with the limiter's sleep, `Refused` a
non-blocking one too early, `RefreshFails` one without a token; `Fail` and `Return`
are the loop. An exception is its type and what its text mentions, as
`is_retryable_error` looks at both. `PlaceOrder` is the mock client with each of its
outcomes, and one more: an order whose answer is lost, which the mock cannot do and
the protocol's `BrokerTimeout` stands for. That, and the combination itself, is
external. `retry_sync` is the same loop.

### TradeBlotter, MacroRegime, Rollover

`RecordFill`, `Flush`, `Clear` and `Restart` are the blotter's methods. A flush may be
cut at any byte (`CutShort`), by an error (`FlushFails`) or a death (`DieInFlush`). A
line is what a reader makes of it: the id in its second column, whether all columns
are there, and where it was cut. A later flush appends behind a cut line, and the two
are read as one (`Glued`). `Evaluate` computes the
score with integer weights (tenths) and indicators (quarters), multiplied by the
common denominators, so that thresholds are compared exactly. The code's floats can
differ where a score meets a threshold: trend 0.75, volatility from 2.5 and sentiment -1
score -0.29999999999999993 and are NEUTRAL, in the model -0.3 and RISK_OFF. No property
depends on it: rounding is monotone, and the log follows whatever was decided. `Rollover` takes a contract for its expiry; the caller, who is not in the
repository, checks at least every `RolloverDays + 1` days and holds what the verdict
says; expiries lie further apart than the window.

## 3. The runs

Each is a question; each finishes within two minutes. A bound is named in the module.

- **orders**: two ids, one of them submitted for two different orders, two
  instruments, two attempts, one restart, unreliable connection. Two attempts give
  a retry; two ids a history in which fills of different orders follow each other;
  one restart a process with and one without the records. `AtMostOneFill`,
  `SameFillReturned`, `FilledIsExecuted`, `FilledForGood` and the refinement
  `ImplementsExactlyOnce` say that an order is executed once and everybody is told
  so. `BookMatchesBroker`: once everything executed is FILLED in the records,
  `reconcile_positions` of what they add up to and the broker's positions finds no
  mismatch. `FillIsForTheOrder`: no caller gets another
  order's fill, until the first restart, which loses the parameters to compare with.
  `CallEnds`: calls end.
- **feed**: files of up to four rows, of two symbols and two times, good and bad, a
  queue of two, every stop method at any moment. Four ticks fill queue and hand, and
  one waits for room. `LoadsExactlyValid` (a file is taken exactly if it is
  well-formed, and then whole and in order), `UnfinishedCounts` (the count `join`
  waits for is exact), `StreamInOrder` (ticks handled and queued are the stream
  without gaps; all stops together drop at most one tick), `FeedStopsInTime`,
  `ProducerStops`, `FileDelivered` (left alone, a feed handles every tick of the
  file), `ImplementsTickStream`.
- **feed_live_stop** (violation): a source that does not end, and an unbounded queue:
  no bound is to blame.
- **backtest**: every backtest of six bars over three quotes, net at most three.
  Contains adds, partial closes, closes and flips in both directions. `Reconciled`,
  `EquityIsMoney` (at every close the equity is capital, sales, purchases, the
  position's value and the charges on the turnover), `SlippageIsTheDifference` (P&L
  and slippage add up to trading at the opens).
- **grid_trading**: six prices one spacing apart, two ATRs, three levels. The path
  from entry to the third level and through the stop fits in the range. `SizeLimited`,
  `GridOnPositionSide`, `LevelsEarned`, `StopHonoured`, `NoNewExposure`. The cap lies above
  the three levels, or `SizeLimited` would show the cap and not the pyramid; levels cut by
  it are in the session run and in the theorems. The grid never asks for a flip, which
  the theorem `NothingAdded` covers.
- **session**: six bars, both strategies, both switches, a cap that is not a
  multiple of the size. `EngineFollowsPlan`; `StopCarriedOut` (a bar after a close beyond
  the stop, counted from the close at which the first pass opened, the engine is flat);
  `AlwaysInTheMarket` (the switches are constant in a session, so it is the cap that could
  leave it flat). Six bars hold an entry, an add cut by the cap, a stop, its execution
  and a new entry.
- **kite**: two callers, four attempts, an interval of three and time up to five, a
  token good for two calls. The delays 0, 1 and 2 add up to the interval, a call begun
  by time 2 can use all its attempts, and sleeps and delays of the callers overlap. `EachCallerLimited`;
  `OrdersAccountedFor` (one order for each answer lost, and one more if the call
  returned); `TokenLifetime` (a token is replaced exactly when it was used up or made
  to expire); `BackoffOutlastsInterval` (when the delays add up to an interval, a
  non-blocking call gives up on the limiter only if someone was let through since it
  began).
- **rate_burst** (violation): two tasks, the rate of all. One sleeps; the other is let
  through directly at the moment it wakes, and both pass.
- **blotter**: three fills, up to six lines and two writes cut anywhere. Two cuts give a torn
  line behind which a second write is torn. `FileReadable` and `CountIsExact` are
  about flushes that were not cut short, or did not raise; `FlushedIsKept` and
  `RefusedIsSafe` say what a cut may cost at most: one flushed row, two refused fills.
- **blotter_retry** (violation): no row is written twice, when writes can fail.
- **macro**: all sequences of three snapshots over 75 combinations of indicators at,
  within and beyond the ends of their ranges, with the default weights. Three
  snapshots give a spell that starts, lasts or ends, and a change on either side.
- **rollover**: five expiries, a window of three days, days 0 to 25.

Deadlock is not checked where bounds or a finished program end the behaviour: no
ticks left and everything stopped, no bars, fills or days left.

## 4. Fairness

`OrderManager`: weak fairness of `StartAttempt`, of the broker's answers and of
their handling. `submit_order` is a running thread and the broker interface promises
a result or an exception. Callers, late requests and restarts owe nothing.
`AsyncFeed`: weak fairness of the producer's puts, of the consumer and of a stop in
progress: the event loop runs what can run, timers expire, handlers return. The
source is fair only if it is finite (`Finite`): a live one may be silent for ever.
`ReplaySpec` has the same, and its source, a list, never keeps the loop waiting.

## 5. What is proved

For every value of the constants, from the assumptions named in the modules:

- `OrderManager_proofs`: `TypeCorrect`, `ExecutedOnce`, `SameFill`, `FilledIsReal`,
  `FilledIsFinal`, `Refinement`. None of the properties is inductive alone. The
  invariant `IInv` conjoins `TypeOK` with `SeenIsFilled` (an id is in the duplicate
  set exactly if it has a fill), `AtMostOneFill`, `CallOK` (the call in progress has
  a record that is not FILLED, and a fill answered is one of its id), `RecordsOK` (a
  FILLED record carries a fill of its id) and `AnswersOK` (answers given are fills
  of their id). Each action has a lemma that it keeps `IInv`; the refinement
  maps an execution at the broker to `Execute`, a returned fill to `Tell`, all else
  to stuttering. Reconciliation is covered for the caller `AskBroker`, who passes on the
  broker's answer.
  `FillOfTheOrderAsked` adds `Recorded`: until the process restarts, whatever carries
  an id (a record, a fill, a request under way, the call) carries the order recorded
  for it. `BooksAgree` is from `PositionsAddUp`: each position at the broker is the sum
  of the quantities executed in its instrument. The sum is the library's, which adds
  in an order it leaves open; `SumsFacts` shows that any order gives the same
  (a smallest set for which it does not cannot exist), `SumOfOneMore` that an execution
  adds its quantity, and a duplicate adds nothing.
- `Backtest_proofs`: `TypeCorrect`, `AlwaysReconciled`, and `BacktestsReconcile` for
  whole backtests with slippage and charges. Key lemma: from one position and one
  non-zero fill both computations yield the same result. `SlippageCountedOnce` and
  `EquityAddsUp` are about money and have a hypothesis each: averages (and charges)
  are integers, no division leaves a remainder (`[]AveragesExact`, `[]ChargesExact`).
  The prices of the run are scaled so that all its states satisfy both, as TLC
  confirmed; with remainders the integer model, unlike the code's fractions, rounds.
  Quotes, targets, rates and the number of bars are arbitrary. Key lemma `FillIsCash`:
  quantity times average less realized P&L grows by what the fill costs, whichever of
  the branches it takes. The invariants keep the books against trading at the opens
  (`BooksAtOpens`), against the money paid (`MoneyPaid`) and the charges against the
  turnover (`ChargesLevied`).
- `GridTrading_proofs`: decisions are within the cap, nothing is added with a switch on,
  flattening is always allowed; and of the bars, `TypeCorrect`, `PyramidLimited`,
  `GridOfThePosition`, `EveryLevelEarned`, `StopAlwaysHonoured`, `SwitchesHold`. `IInv`
  adds to the properties that a position has a whole number of levels or is cut by the
  cap (`Lots`) and where opening, average and best price lie relative to each other
  (`PricesAhead`): adds only come ahead of the entry, so that after a restart, when the
  average stands in for the entry price, the stop is reached earlier and not later.
  `NoGridAssumption` says that no grid is the value that stands for none.
- `Session_proofs`: a target held once is held unchanged by a second risk manager in the
  same position (`HeldAgain`); `IInv` follows the engine bar by bar, each bar's position
  and pending order being the targets of the two bars before. `EngineKeepsToThePlan`,
  `NeverLeftFlat`, and `StopsAreCarriedOut`, for which the grid is that of the opening
  (`GridOfOpening`) and a breached bar's target flat (`BreachedIsFlat`).
- `MacroRegime_proofs`: `TypeCorrect`, `NeverBolder`. Clipping is monotone, a
  product with a natural number is monotone, hence the score is monotone in every
  indicator for all weights, and the thresholds keep their order on its scale. The
  parameters of the regimes are the defaults of `config.py`. `AlarmsAreSpells` and
  `LogReplays`: each `Evaluate` appends at most an alarm and a change, and what was
  logged before still says of earlier snapshots what it said (`SpellsCounted`,
  `Replayable`).
- `Services_proofs`, rollover: `NeverExpired`, `NoneSkipped`, `Forward`, for every set of
  expiries further apart than the window. The invariant says that the caller holds
  the verdict of its last check and that this check is at most a window and a day
  old; `VerdictFacts` tells the four ways a verdict comes about, each from the first
  expiry of a set, which exists because the order of the naturals is well-founded.
- `Services_proofs`, calls: `EachCallerKeepsToTheRate`. Strengthening: the last request
  is the latest of all callers' and a sleeper wakes no earlier than one interval
  after its own last request. `CallersKeepToTheRate` (a step of the composition is a
  step of the limiter or leaves it alone), `EveryOrderAccountedFor`, and `TokensUsedUp`
  from `TokenCounts` (a token was handed out at most as often as it may be).
- `TradeBlotter_proofs`: `TypeCorrect`, and four invariants for any number of fills,
  cuts and lines. `Appended` says what a file is after a write, whole, cut short, or
  behind a torn line: every line is an old one, a new one, or the torn one with a new
  one in it. From it:
  - `FlushedStays` and `RefusedStays`. A bound on what is lost is not inductive, as a
    torn last line will swallow a row only later. `Accounted` counts it in advance: the
    fills without a firm row, plus one if the file ends torn, are at most the cuts
    (twice the cuts for those refused). A cut leaves a torn end and at most one row in
    doubt; a whole flush behind a torn end loses one row and the torn end with it.
  - `ReadableUncut`, from `WellFormed`: with no cut, a header and firm rows.
  - `CountStaysExact`, from `Exact`: rows are remembered, pending records too, and none
    stands twice among rows, among records or in both. `RowOrigin`: a row behind a write
    is an old one or the record as far behind the start of pending as the row behind
    some fixed line, so two rows cannot come from one record.
- `AsyncFeed_proofs`: `CountIsRight`, `HandledInOrder`, `Refinement`, `ReplayIsFeed`,
  `FileLoadedWhole`. The invariant adds to the two properties that ticks come before any `None` in the
  queue and are numbered on from those taken (`TicksFirst`), that a producer still
  running has put all it accepted (`Producing`), that at most one tick is dropped and
  then by a producer at its end (`Hands`), and who may wait where while whom stops
  (`Points`). One lemma for a tick put, one for a `None` put, one for an item taken;
  actions cite them. A feed over a replay file is a feed: each step of `ReplaySpec`
  is one of `Spec`, so the three theorems hold of it. `FileLoadedWhole` is about the
  two loops of the constructor, for a file of any length. `FoldExists` gives the values
  of a loop over all sets of indices; `LoadRowTakes` and `IndexTickAdds` are one turn
  of each loop, `FoldTakes` and `StreamTakes` the whole (no first turn goes wrong).

Only model-checked: liveness (`FeedStopsInTime`, `ProducerStops`, `FileDelivered`,
`CallEnds`), as it needs ENABLED, which the prover does not support; and
`BackoffOutlastsInterval`, about delays that are powers: no backend knows that
`2 ^ (n + 1)` is twice `2 ^ n`.
The prover has no induction over data: its theorems for that take an operator as a
parameter. Where it was needed (sums, loops over a file, the first expiry of a set) the
proofs take a smallest counterexample from a well-founded order instead.

## 6. Where the code and its documentation part

Shown by a run:

1. *feed_live_stop*: stopping a feed whose source is still running hangs. `wait_for`
   cancels the producer, whose `finally` queues a `None`; then `producer.stop()`
   queues a second. The consumer ends at the first and `queue.join()` waits for the
   second for ever (`async_feed.py:249`).
2. *rate_burst*: a task that slept in `AsyncRateLimiter.acquire` goes on without looking at
   whoever was let through meanwhile, so that two pass within one interval
   (`rate_limit.py:140-143`). Each task alone keeps to the rate.
3. *blotter_retry*: a flush that failed halfway writes its rows again
   (`blotter.py:148`).

Seen while modelling, in the models, without a run of their own:

- `order_manager.py:126`: an id reused after a restart returns the fill of the
  earlier, different order.
- `order_manager.py:203` and `README.md:356` take PENDING after a disconnect to mean
  "never sent"; on a retry, the first attempt was sent.
- `order_manager.py:195`: an order recorded as REJECTED on a retry may be executed
  when the timed-out attempt arrives.
- `async_feed.py:138`: `stop` says it waits for the current handler; line 142
  cancels it.
- `broker/retry.py:102`: the example of `retry_async` places orders, and a lost answer
  places one again. `README.md:378` has a rule against that for the order manager;
  the client's `tag` is stored and compared with nothing.
- `retry.py:42` says rate limit errors are retried "with backoff"; the first retry
  follows at once (`retry.py:28`, called with the attempt that failed).
- `retry.py:64`: a `BrokerRejected` whose text mentions a rate limit is retried, though
  line 67 says rejected orders are not.
- `auth.py:119` "automatically refreshes tokens on auth failures": it does when the
  token is fetched, not when `place_order` itself raises `AuthenticationError`.
- `async_feed.py:201`: the docstring's example passes `stream_ticks`, a sync generator;
  `async for` over it raises, the producer logs it, and no tick arrives. The example
  script makes it a list, as the model does.
- `replay_market_data.py:108`: a row with missing columns and a mix of naive and aware
  times raise `AttributeError` or `TypeError` rather than the documented `ValueError`,
  and a price of NaN passes `price <= 0`.
- `blotter.py:121`: a row flushed behind a torn line is swallowed by it, though its flush
  returns, and `read_trades` raises from then on.
- `blotter.py:119`: a process that dies between opening the file and writing the
  header leaves a file that never gets one.

## 7. What is not modelled

Indicators (vectorised arithmetic on floats, inputs of the strategies' models) and core
records (data). Events, logger and alerts: output. Mock data: the list it was given.
The dashboard page and the examples: presentation. Synthetic bars and frames of the
pipeline. Of the reconciliation report, the tolerance on money and the text. Of the
replay, the header check and how fields are parsed. Of the client, its queries.
Floating-point error is left out everywhere: amounts are integers.

## 8. Plan

Done, in this order: order manager with broker and refinement; positions and
reconciliation; risk and strategies; feed; session; limiter; blotter; macro engine;
rollover; first proofs; broker calls under retry; backtest money; replay in front of
the feed; stops before the start and unbounded queues; torn lines; the feed's proofs;
the proofs of grid, session, macro log, tokens, backtest money, blotter, books and
file loading.

Next, by importance:

1. A composition of risk manager, order manager and position over one stream of
   fills: position held and position at the broker after failures.
2. `BackoffOutlastsInterval` for any delays that add up to the interval, with the
   doubling as a recursive function and the method of `FoldExists`.
