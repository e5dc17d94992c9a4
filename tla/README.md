# Wave structure engine: a TLA+ model

The engine analyses candles of a few Binance futures symbols with Elliott wave
rules, turns the best scenario of each symbol and timeframe into a *signal*
(entry, stop, up to three targets), follows the signals against polled prices
and, if told to, trades them on Binance. One Python process
(`services/trading_orchestrator.py`) does all of this in one thread; its memory
is one SQLite file, and the exchange acts on its own in between. Around it stand
smaller processes with stores of their own: a dashboard that serves a pooled
fund and the members' accounts, a news digest, price alerts, paper trades on
15-minute markets, and backtests.

What can go wrong in the trading core is seldom in one function. It is in the
order in which one thread, a database that survives it and an exchange that does
not wait for it meet. In the services it is the gap between reading a store and
writing it. In the analysis it is the number of paths a level can take before it
becomes a stop. The specifications here are about that.

    cd tla
    tlasany LiveExecution.tla
    tlc -workers 2 -config MCTrading.cfg MCTrading.tla
    tlapm Orchestrator_proofs.tla

## 1. The system

### Components, state and operations

| Component | Code | State | Operations |
|---|---|---|---|
| Orchestrator | `services/trading_orchestrator.py` | runtimes in memory, `heartbeat.txt` | the cycle, every 5 s: drain the queue; every 300 s re-analyse and insert signals; poll prices; follow signals; reconcile with the exchange |
| Signals table | `storage/wave_repository.py` | `signals`, `signal_events`, `analysis_snapshots`, `system_events` | `sync_analysis` (with the re-entry gate), `track_price_update`, `mark_signal_entry_filled_from_exchange`, `update_signal_entry_to_exchange_average`, `close_open_signal` |
| Trade rules | `analysis/trade_management.py` | none | actionability of an entry, the stop after a target, what is crossed |
| Execution queue | `storage/execution_queue_store.py` | `execution_queue` | `enqueue`, `fetch_ready`, `mark_running`, `mark_done`, `mark_defer`, `mark_retry`, `mark_failed` |
| Position manager | `execution/position_manager.py` | the pending entry key of each signal | `open_from_signal`, `close_for_signal`, `ensure_protection` |
| Reconciler | `execution/reconciler.py` | none | `reconcile_symbol`: close, recover, protect |
| Position store | `storage/position_store.py` | `exchange_positions`, `exchange_position_orders`, events | rows of open legs, their orders, their log |
| Health keys | `execution/execution_health.py` | rows of `system_events` | breaker count and deadline, pending entries, diagnostics |
| Exchange | Binance behind `execution/binance_futures_client.py` | orders, net position, price | place, query, cancel; fills at any time |
| Sizing, rounding, limits | `execution/{execution_engine,signal_mapper,exchange_info,portfolio_manager,settings}.py` | none | quantity by risk, rounding, shares of the targets, limits on concurrent risk |
| Pooled fund | `storage/fund_store.py` | members, trades, participations | join, set a balance, leave, open a trade, close a trade, settle a month |
| Accounts | `storage/account_store.py`, `services/account_fanout.py`, `line_bot.py` | accounts | seed, register, pay, delete; fan a signal out |
| Alert states | `services/alert_state_store.py`, `scenario_alert_service.py`, `live_price_monitor.py`, `analysis/level_state_engine.py` | a JSON file, and a copy of it in each of two processes | `should_alert` with duplicates and cooldown |
| Notifications, daily jobs | `services/trading_orchestrator.py`, `scheduler/daily_scheduler.py`, `services/notifier.py` | `entry_notified_at`, keys of `system_events` | look for a mark, send, write the mark |
| News digest | `services/news_rss_monitor.py` | `news_items` | once a day: read feeds, send, record |
| Market data | `services/market_data_sync.py`, `data/` | a CSV file and `market_candles` per symbol and timeframe | recent sync, whole sync |
| Wave analysis | `analysis/`, `core/engine.py` | none | pivots, patterns, rules, counts, waves in progress, key levels, zones |
| Scenario engine | `scenarios/scenario_engine.py`, `analysis/future_projection.py` | none | scenarios, early entries, sanitising, pruning by past results |
| Backtests and KPIs | `analysis/{portfolio_backtest,trade_backtest,...}.py`, `storage/experience_store.py` | `experience_store.json` | simulate a trade, schedule and size many |
| Kalshi | `kalshi_engine/`, `services/kalshi_predictor.py` | `kalshi_predictions`, one locked scenario in memory | a copy of the analysis; lock, confirm, record, resolve |
| Price feeds, advisers, presentation, scripts | the rest of `services/`, `monitor/`, `output/`, `main.py`, `scripts/` | reports | input and output |

### How they interact

    candles -> analysis -> scenarios -> sync_analysis -> signals
    signals --(every open signal, each refresh)--> enqueue OPEN
    price poll -> track_price_update -> signals, events --(closing events)--> enqueue CLOSE
    queue worker -> open_from_signal / close_for_signal -> exchange, exchange_positions, pending key
    reconcile_symbol: exchange -> exchange_positions -> stop and target orders
    _reconcile_live_signal_state: exchange_positions -> signals -> entry notification
    exchange: fills resting entries, stops and targets at any moment
    dashboard threads -> fund and account tables
    orchestrator, level monitor -> the one alert file
    closed signals, simulated trades -> experience_store -> pruning of scenarios

All calls of the core are made by one thread, so steps of two handlers never
interleave. What does interleave is that thread with the exchange, and with its
own death: every commit and every call is a point between which orders fill,
prices move and the process may end. The tables are written in transactions of
their own; nothing ties a call to the exchange to the commit that records it.
The dashboard serves each request in a thread of its own, so there two handlers
do interleave, transaction by transaction.

### What is hard here

- *Ordering.* A fill between the check for a position and the placing of an
  order; a CLOSE handled before the OPEN of the same signal is done; a target
  filled before its hit is recorded, or after a reconciliation.
- *Crash and restart.* RUNNING rows, placed orders without a key, events that
  were only in memory; a message sent and not stamped; a closed trade not paid.
- *Lost answers and retries.* A placed order whose answer is lost is placed
  again under the same client id.
- *Stale state.* The batch of fetched rows, the row `track_price_update` read
  before it wrote, the pending key after a recovery, a stop on the book that
  belongs to an earlier trade, an alert file that another process overwrites.
- *Limits.* The attempt cap, the batch limit, the breaker and its cooldown.
- *Many paths to one number.* Entry, stop and targets of a scenario.

`PROJECT.json` lists each hazard at its line, with the properties that would
catch it, or the reason why none does.

### What makes each component correct

- Queue: a bounded number of attempts, no work while the breaker is open, every
  task is tried, a RUNNING row ends.
- Signals: one open plan per slot, no re-entry on the thesis that just lost,
  closed plans stay closed, stops only tighten, TP1 leaves the trade at
  breakeven, the table follows the documented lifecycle.
- Live execution: no signal is in the market twice, the books never forget a
  position, every position gets a stop or ends, an exit closes what it exits.
- Exits: a reconciliation restores the one stop and the open targets whatever it
  finds; targets sell their shares and no more.
- Limits: the rows that the handlers open stay within the limit on positions, and
  within that on risk but for what the newest was filled with and not looked at
  with; the rest of what is beyond them the reconciler has found.
- Fund: a closed trade pays everybody once, by what they held at its opening; the
  sum of what trades paid is the change of the balances.
- Notifications, digest, alerts: repeated only where a fault took a mark, none
  lost, spaced.
- Candles: what is stored of a closed candle is its final form, unless a sync that
  was overtaken writes an older one back.
- Accounts: a paid month is never lost, an address is used once.
- Paper trades: one prediction per window, settled after it.
- Analysis: every scenario can be traded, the two sides do not overlap, the
  summary agrees with the count, losers are not executed.
- Backtests: a trade is sized on the results that were in at its entry, which
  `run_portfolio_backtest` keeps to only with room for one position; a loss is at
  most the risk and only shrinks as targets are hit; two simulators agree.

## 2. The modules

### ExecutionQueue

Code: `storage/execution_queue_store.py` and `_process_execution_queue` with
`_record_execution_health` and the circuit breaker.

`queue` is the table, a row's index its id. `batch` holds what the worker
fetched and has not started, with the attempts it *saw*, because the exception
handler compares those with the cap while `mark_retry` increments the table's.
`task` is the row in work: `handling` after `mark_running`, `recording` after
`mark_done`, when the health markers can still raise and turn a DONE row into
RETRY. `phase` says whether the thread is in the worker, where nothing is
enqueued. Deadlines are flags: `due` and `circuitOpen`, and time passing is
`BackoffElapses` and `CooldownElapses`.

`Restart` is a death of the process or an error that leaves the worker;
`FailureHalfRecorded` is an error in the handler's own bookkeeping. Both are
bounded by `MaxRestarts`.

`WorkQueue` is the abstract specification: what those who enqueue may count on.
It knows the work of each key (`none`, `waiting`, `taken`, `done`, `failed`, and
the attempts used) and the key in hand, and has no rows, batches, snapshots,
backoff or breaker. `ExecutionQueue` implements it (`WorkQueueSpec`): `WorkOfKeys`
reads a key's work off its row, `KeyInHand` the key off `task`. So the attempts
the handler compares, which are those of the snapshot, and the attempts it
increments, which are the table's, may not drift apart: a task fails for good
after `MaxAttempts` failures, neither earlier nor later. A dead worker leaves its
key `taken`; that it stays so is the finding of `queue_stranded`.

### TradeManagement, SignalPlan, SignalLifecycle

Code: `analysis/trade_management.py` and the writes of
`storage/wave_repository.py` to `signals`.

`TradeManagement` has the rules without state: what a price crosses, when an
entry is still actionable, where the stop goes after a target. `SignalPlan` is
the abstract lifecycle of one plan: pending, active, partial, closed, each
status with those that may follow it. `SignalLifecycle` is the table: a sequence
of rows, one action per transaction (`SyncAnalysis`, `TrackPrice`,
`ExchangeFill`, `AlignClosedEntry`, `CloseOpen`), and `BarsElapse` for the time
stop. One transaction may take several rows several steps: one price can trigger
an entry and cross two targets. `LifecycleSpec` says that the table implements
the abstract plans all the same.

Analyses are taken from a set of scenarios with the geometry that
`_sanitize_scenarios` leaves. `Modes` are born live (`SIGNALS_ENTRY_ONLY`), or
pending and triggered by a polled price, or pending until the exchange fills;
`Gates` is `SIGNAL_GATE_TERMINAL_EXIT`.
Volatility exits depend on candles and are a choice of the environment.

### LiveExecution

Code: `execution/position_manager.py`, `execution/reconciler.py`, the cycle of
`services/trading_orchestrator.py`, and the exchange as `src/` uses it.

The composition: queue and signals reduced to what the callers see of them, and
between them every call and commit of a handler as an action of its own. `pc`
is where the thread is.

| Actions | Code |
|---|---|
| `StartOpen`, `QueryEntry`, `PlaceEntry`, `RecordEntry`, `FillEntry`, `ProtectEntry` | `open_from_signal`, from the checks for a row and a position to the stop |
| `StartClose`, `CancelPending`, `CancelExits`, `CloseMarket`, `CancelAll`, `CloseAll`, `CloseRow` | `close_for_signal` and `close_symbol_cleanup` |
| `StartTask`, `QueueEnds` | the worker |
| `Refresh` | `sync_runtime` and the enqueue of every open signal; also at startup |
| `Tick`, `EnqueueClose`, `EventsEnd` | `process_market_update` |
| `Reconcile`, `Ensure`, `ReconcileSignals` | `reconcile_symbol`, `ensure_protection`, `_reconcile_live_signal_state` |
| `CycleFails`, `Crash` | the loop's exception handler; a death of the process |
| `PriceMoves`, `OrderFills`, `ExitFills` | the exchange |

`Faulty` names the stages whose call may fail, before or after it took effect;
`MaxFaults` bounds the failures and `MaxCrashes` the deaths.

The exchange is external and is modelled as the code treats it: an order under a
client id that rests is not accepted twice; a reduce-only order is refused when
there is nothing on its side to reduce; the stops of a flat symbol may go or
stay; a stop entry fills at the market, a limit entry at its price.

Simplified: signal statuses are merged into open and closed ones; a stop is on
the book or not, the three targets are the last one plus partial exits of any
size (prices and sizes of the exits are `ExitLadder`'s); averages are rounded to
ticks; entries fill as a whole. One symbol, one-way mode, the queue on and
`entry_style = signal_price`, which are the defaults of the runbook.

### ExitLadder

Code: `ensure_protection` with its helpers, `reconcile_symbol`, the placing of
the exits in `open_from_signal`, and what `track_price_update` records of them.

What `LiveExecution` abstracts: the stop and the three targets of one long
position as orders with prices and sizes. `exits` is the book, which may begin
with orders of an earlier trade (`Strays`); `leg` is the OPEN row, `hits` what
the tick has recorded of the signal. `Split` is the division of a quantity over
targets with its rounding to lots, `OpenLevels` and `Expected` the levels that
still get an order, `Tidied` the clean-up, `Ensured` the whole repair with any
set of failing calls, `Recovered` the row made of a position found without one.
`EntryFillSeen` and `EntryFills` are the fill seen by its handler, or by the
reconciler first; the latter is the usual case, because
`_exchange_open_without_matching_db` turns the handler's next poll away. A
handler is one step here; its calls one by one are in `LiveExecution`.

### PortfolioLimits

Code: `execution/portfolio_manager.py`, as `open_from_signal` asks it, and
`reconcile_symbol`, which does not.

`holdings` is what the exchange has, `entryOrders` the entry of each symbol with
the risk it was sized for, `positions` the OPEN rows. `WithinLimits` is
`evaluate_new_position`: it counts rows, adds up their risk and compares with a
share of the *available* balance, which resting entries and positions lower; the
orders at rest it does not see.

| Actions | Code |
|---|---|
| `PlaceResting`, `OpenAtOnce` | `open_from_signal` places the entry: it rests, or fills within the call (at market, or at a limit the price has passed) |
| `OpenFilledEntry` | a later `open_from_signal` finds it FILLED, under its key or as a duplicate of a placing whose answer was lost, and opens the row |
| `OpenTurnedAway` | limits, a position without a row, an entry still waiting, a failing call |
| `ReconcileSymbol` | `reconcile_symbol` closes a row or recovers one; it asks for no limit |
| `CloseForSignal` | `close_for_signal` |
| `RestingFills`, `EntryDropped`, `PositionEnds`, `BalanceMoves` | the exchange |

`OpenFilledEntry` asks for the limits again, at the equity of that moment, but its
row is as large as the order was at the equity of the placing. `Fills` is how much
risk a fill carries, in percent of the plan's: the code looks at the mark before it
places an entry and not at the price of the fill, so that nothing bounds this, and
no property does. A handler is one step; its calls are in `LiveExecution`.

So `LimitsHoldButForRecovered` says what the limits amount to: as many rows of
handlers as the limit, and their risk, without the newest, below the cap at the
equity the newest was let in at, by the trade that was looked at. What the newest
row really risks, and what the reconciler recovers, is not limited.
`docs/PORTFOLIO_EXECUTION.md` calls the limit one on concurrent OPEN rows;
`OpenRowsCapped` says that, and fails.

### FundStore, Accounts

Code: `storage/fund_store.py`, `storage/account_store.py`, and the request
handlers of `services/web_dashboard.py` that write to them.

One action per SQLite transaction or lone read, and `request`/`serving` for what
each thread still has to do: `add_trade` commits the trade, reads the members,
inserts their shares; `close_trade` commits the result, then pays;
`mark_paid` reads, then writes; a registration looks for the address, then
inserts. The histories `orderly`, `rough` and `collided` say which promises a
behaviour has forgone: overlapping trades, a double close, two requests about
one account. They are recorded and not forbidden: the code lets them happen.

### Announcements, NewsDigest, AlertState

`Announcements` has the entry notifications of the orchestrator (at a tick, by
the sweep at startup, at a synchronisation, at an exchange fill) and the daily
job. All but the exchange fill look for a mark; then they send, then they write
the mark. `exchangeMode` is who opens the trades. `CycleFails` and
`OrchestratorDies` fall before the sending or between it and the mark; `unmarked`
counts the latter for each item, and `RepeatedOnlyUnmarked` allows a further copy
for nothing else, but for the fill of a market entry, which is announced without a
look at the mark. The code promises more, `EntryAnnouncedOnce`, which fails.
`NewsDigest` is the same pattern for a digest of many items. `AlertState` has
two processes that load one file, decide on their own copies and save them whole.

### CandleStore

The candles of one symbol and timeframe in the CSV file and in the table, and two
processes that write both without a lock: the orchestrator's `SyncRecent` fetches
the last few, `sync-market-data` (`SyncAll`) everything. Each merges what it fetched
with the file (`MergeCsv`), writes the file (`SaveCsv`) and then the table
(`UpsertCandles`); the other may do any of this in between, read a file that is
half written, or overtake it. Both store the forming candle as it is, and a
process may die between any two steps, or with its file half written.

### KalshiSlots, KalshiEngine

`KalshiSlots` is the predictor's loop: a window has a ticker of the market or,
when the market does not answer, one of the bot's own; a scenario is locked,
confirmed by a price, recorded, resolved after the window. A call of
`make_prediction` reads the clock, the market and the price one after the other,
while time passes. `KalshiEngine` is the analysis it runs. `kalshi_engine/` is a
copy of the analysis that differs from it in its imports only, so that the module
gives each of its steps the operator of the original; there are no past results
for 15 minutes, so nothing is pruned.

### WavePatterns, WaveScores, InProgressWaves, Confluence, WaveLevels, Scenarios, WaveAnalysis

The analysis as operators, from a list of pivots to scenarios, and `WaveAnalysis`
as the state machine over a growing chart. A bar that is both a high and a low of
its neighbourhood (an outside bar) gives two pivots, the high first, which need not
lie above the low before it (`Crosses`). Such pivots count threefold towards the
bound on a chart (`OddPivots`).

| Module | Code |
|---|---|
| `WavePatterns` | the detectors of twelve patterns and `rule_validator.py` |
| `WaveScores` | `multi_count_engine.py`, `wave_confidence.py`, `wave_probability.py`, `wave_decision_engine.py`, `indicator_filter.py`: ranking, ambiguity, the summary |
| `InProgressWaves` | `inprogress_detector.py`, `wave_timer.py`: waves being built and how they are chosen |
| `Confluence` | `fibonacci_confluence.py` and the refinement of an entry |
| `WaveLevels` | `key_levels.py`, `wave_position.py`, `future_projection.py`, the bracket of `core/engine.py` |
| `Scenarios` | `scenario_engine.py`: scenarios, early entries, sanitising, pruning and ranking by past results |
| `WaveAnalysis` | `build_dataframe_analysis`: a pivot is added (`NewPivot`), the chart is analysed (`Analyse`), results select what may be executed (`Prioritise`) |

Prices are integers of cents, so that ratios are compared by cross
multiplication. The definitions were compared with the Python functions on
random charts; they agree except where two floating point scores tie.

### TradeSimulation, PortfolioBacktest

`TradeSimulation` replays one setup over arbitrary bars with both simulators at
once, `life` for the portfolio's (three targets, trailing stop, time limit) and
`single` for the other. `PortfolioBacktest` schedules simulated trades: the
portfolio takes them window by window, the global backtest sorts candidates of
all datasets by entry and settles by exit. Both take any `max_concurrent`, as the
command line does. The portfolio adds the result of a trade to the equity when it
takes it: with room for one position that trade has ended before the next begins,
with room for more (`CreditsAhead`) the next is sized on results of trades that
are still open. `SizedOnKnownResults` says for each of the two what the size is
based on.

### Instances

`MCOrchestrator` (the queue, the table), `MCTrading` (the analysis, the simulators,
the backtests, live execution) and `MCServices` (nine services) hold modules that
share no state; `focus` says which one a behaviour is about, so that one run checks
them all and the instances add up instead of multiplying. `MCExecutionQueue`,
`MCSignalLifecycle`, `MCLiveExecution`, `MCWaveAnalysis` and `MCExitLadder` have the
values of one component each.

## 3. What is checked

| Run | Question | Instance |
|---|---|---|
| `orchestrator`, the queue | types, `SnapshotFresh`, `TaskOwnsItsRow`, `WorkQueueSpec`, `NoStartWhileOpen`, `EveryTaskTried`, `RunningEndsUnlessKilled` | 3 keys, a batch that holds them, 3 attempts, breaker at 2, 1 restart |
| `orchestrator`, the signals | types, `OnePlanPerSlot`, `NoSameThesisReentry`, `StatusMatchesHits`, `TerminalIsFinal`, `StopNeverLoosens`, `BreakevenAtTP1`, `LifecycleSpec` | gate on and off, three entry modes, 2 signals of one slot |
| `trading`, live | types, `NoDoubleEntry`, `RowOutlivesPosition` | a long of size 2 alone on 4 prices, or with a short of 1 on 2 of them; 2 attempts, 1 fault, 1 crash |
| `trading`, the rest | `ScenariosTradeable`, `EntriesApart`, `SummaryAgrees`, `NoLoserExecuted`; `LossOnlyShrinks`, `SimulatorsAgree`; `SizedOnKnownResults` | three parts, each by itself, see below |
| `services` | types; `LedgerBalances`, `PaidAsClosed`; `RepeatedOnlyUnmarked`, `EntriesAnnounced`; `MailedOncePerFault`; `AlertsSpaced`; `TableFinal`; `NothingLostByOneAtATime`; `OnePredictionPerWindow`; `ReconcileRestores`, `TargetsSellTheirShare`; `LimitsHoldButForRecovered` | nine parts, each by itself, see below |
| `live_liveness` | `EventuallyProtected`, `LinkedExposureClosed` | one long of size 1, 3 prices, a fault anywhere, 1 crash |
| `queue_stranded` | does a RUNNING row end after a restart? No | 2 keys, 1 restart |
| `live_activation` | does a fill activate its signal? Not at the planned price | no fault, no crash |
| `live_exit` | does a finished exit leave nothing? No | no fault, no crash |
| `live_opposed` | is a position protected when the net side flips? No | a long of 1 against a short of 2, no fault |
| `entry_repeated` | is an entry announced once? No | 1 entry, 1 fault |
| `limits_exceeded` | are there at most as many OPEN rows as the limit? No | 2 symbols, a limit of 1, no lost answer |
| `wave_direction` | does a wave being built lead away from its start? No | charts of up to 7 pivots |
| `ladder_emergency` | is the emergency stop only for positions without a plan? No | no fault, no stray order |

**Why the bounds are enough.** The queue needs a row that is fetched, one that
is handled and one left behind, an attempt in the middle of the budget, and a
breaker that trips with a row still in the batch: three, three and two. Two
signals of one slot are a plan and its successor, which is all that the gate and
the replacement relate; every level of a plan is at a price of its own with room
between. In live execution one signal is enough for every race between its own
handler, its order and the reconciler, and a second, opposed one brings an entry
that fills into another's exit; size 2 lets an exit be partial and a
second entry be seen; two attempts make a retry and an exhausted task; one fault
and one crash may fall at any stage, each before or after the other. More of
either only repeats what a cycle already recovers from, with one exception,
stated under *Limits* below.

The services: two requests and two trades of the fund overlap in every way two
can; two entries and a daily message compete for one cycle; three news items
overflow a digest of two; two alert keys in two processes; four candles outrun a
lookback of two, under two syncs at once; two accounts may want one address; three moments of windows
of two cross a window's end; five lots over shares of 5, 3 and 2 do not divide
evenly, a mark price lies on every level and beyond each, and the two strays are
a stop and a target at prices of no plan; three symbols meet a limit of two, and
of risk, while the balance is a fifth of what it was or rises again, an entry or a
position locks most of it, and every fill is at half as much risk again. Each has
one fault or death, two where
a second one can hit the recovery of the first.

The research: charts of seven pivots let patterns of up to
seven points appear, with legs whose ratios fall on both sides of the rules'
thresholds; past results are taken at the thresholds of pruning; bars of nine
prices gap over each level of a setup; two datasets with one and two windows
overlap in one account with room for one trade or two.

**Fairness.** The worker and the cycle are one loop that catches every
exception, so their steps are weakly fair, as are a handler's steps, whose calls
have timeouts. A task that is due again and again is strongly fair: a backoff of
seconds against a cycle of seconds means that it is ready in one cycle and not
in another, and that the ORDER BY id does not hide it for ever in a batch that
holds every row. Cooldowns end because time passes. `EntriesAnnounced` assumes
the orchestrator's steps weakly fair, its restart by systemd included. Nothing is
assumed of the exchange: prices may stay and orders rest for ever.
`EveryTaskTried` excuses a breaker that opens infinitely often, for the failure
count survives the cooldown; that is a hazard of the code and is listed as one.

**Excuses.** Several properties hold but for behaviours the code does not guard
against; each names them in a history variable, so that it says exactly where
the promise ends: `orderly` (trades of the fund that overlap or are closed
twice), `rough` (a failed close), `collided` (two requests about one account),
`forgot` (an alert file behind its process), `skipped`, `lagging` (candles no
sync reached in time), `unanswered` (windows without a market), `ahead` (a
reconciliation between the fill of a target and its record: its order is then
placed again, and the target sells more than its share, once per such
reconciliation), `unmarked` (a fault between a message and its mark).

**Disagreements** between the code and what its documents say, each with the run
that shows it:

- `queue_stranded`. `enqueue` answers "already queued" for a RUNNING row, but a
  process that dies in a handler leaves the row RUNNING, nothing fetches it, and
  the task is never done. `RunningEndsUnlessKilled` shows that a death is needed.
- `live_activation`. A filled entry is recognised in
  `_reconcile_live_signal_state` by a position price that *differs* from the
  plan; after a recovery by the reconciler at exactly the planned price the
  signal stays PENDING_ENTRY.
- `live_exit`. `open_from_signal` does not look at the status of the signal: an
  OPEN that is handled after the CLOSE places the entry again.
- `live_opposed`. When an opposite, larger entry flips the net position, the row
  keeps its side and the reconciler returns without a stop for the new one.
- `entry_repeated`. `_maybe_notify_new_signal_entry` promises that
  `entry_notified_at` makes a notification fire exactly once, even across
  restarts. It sends first and writes the mark after: a death, or a failing write,
  in between repeats it.
- `limits_exceeded`. `PORTFOLIO_MAX_OPEN_POSITIONS` is documented as the most
  concurrent OPEN rows. The entries at rest are not counted, and the reconciler
  opens a row for a position it finds: one entry rests, another fills at once and
  has its row, the first fills and gets a second.
- `ladder_emergency`. The emergency stop is documented for positions without a
  stop price in the database or on the exchange. The reconciler writes it into
  every row it recovers with an empty book, before the row is linked to its open
  signal, whose stop is then never placed.
- `wave_direction`. The direction of a wave being built is documented as leading
  away from its start; some counts are built towards it.

**Limits of the live runs.** `trading` lets every stage fail except
`place` and `record`. If the answer to a placement is lost and the order then
fills between the next attempt's check for a position and its placement, the
client id is free again and the entry is placed twice; the pending key, which
would prevent it, was never written. The code makes no promise about this
case, and it is recorded as a hazard and not as a disagreement.
`RowOutlivesPosition` has one exception: another signal's resting entry may fill
between an exit and the closing of its row; the next reconciliation makes a row
for it. `LinkedExposureClosed` asks for an unused attempt budget and excuses a task
stranded by a crash, which is the first disagreement again.

## 4. What is proved

TLAPS checks the theorems below for every value of the constants that the named
assumptions allow (`QueueAssumption`, `SignalAssumption`, `LiveAssumption` and so
on, one for each module with constants). They say what type a constant has,
which bound is not zero, which sets are finite and, of signals, that the targets
of an analysis lie beyond its entry, as `_sanitize_scenarios` leaves them. A
theorem that needs more says so in its statement; those hypotheses are:

| Hypothesis | Of | Why it is needed |
|---|---|---|
| placing and recording an entry do not fail | `BooksKeepPosition`, `EntersOnce` | the limits of the live runs in section 3 |
| `PricesApart`: targets, and the strays of an earlier trade, are at different prices | `ReconciliationRestores`, `TargetsKeepShares` | `ensure_protection` knows a target by its price and takes an earlier order at the very price for it |
| `TargetsAscend`: the second target lies beyond the first | `TargetsKeepShares` | a price that reaches the second target has then reached the first, and a recorded hit of the second is one of both |
| `SharesFit`: a remainder, split anew, gives the two nearest levels no more than their shares of the whole | `TargetsKeepShares` | a reconciliation splits what is left, not what was bought, and rounding may give a level what another was to have |
| `TargetsPastStop`: no target lies behind the stop | `LossShrinks`, `SimulatorsTellTheSame` | a target behind the stop would be hit at more than the loss risked; scenarios have their targets beyond the entry |
| `PricesHigh`: chart and price are at 17 units or more | `ReportsTradeable` | a stop on the wrong side is moved to three per cent of the entry, which rounds to nothing below |

The instances of TLC satisfy all of them.

**SumTheorems.** Balances, risk, capital and exposure are sums over sets, and
the library proves nothing about the fold behind `SumFunctionOnSet`. Its
recursive function exists (`SumsExist`, `SumSolves`), so a sum
is the value of one element and the sum of the rest (`SumWithout`); from this
follow what a change, a comparison, a factor, a subset and a union do to a sum.
Induction over finite sets would need a theorem with an operator for a
parameter. The proofs take a least counterexample instead: `LeastSubset` says
that a non-empty family of subsets of a finite set has a member with no smaller
one, and the family is a set, which SMT can instantiate.

**Orchestrator_proofs, the queue.** `QueueSafety`: the type invariant, `OneRowPerKey`,
`SnapshotFresh`, `TaskOwnsItsRow` and `RetryHasBudget` hold in every reachable
state; `QueueTypes`, `SnapshotsStayFresh` and `WorkerOwnsItsRow`
state the parts the run checks, `RetriesEnd` is `RetryHasBudget`. `BreakerStopsWork`: no step starts a handler while the circuit is open.
The five invariants together are not inductive. `QueueInv` adds three facts:
outside the worker no task or batch exists (else an enqueue could reset a row
the batch has seen), while the circuit is open nothing is fetched (else a
handler could start), and a task of stage `none` is the empty one. One lemma per
action; the actions that rewrite the task's row share one lemma that says what
a change of that single row leaves alone. `ImplementsWorkQueue` is the refinement
of `WorkQueue`. What is seen of the keys is a function of the table (`TableOf`),
and because the keys of its rows differ, a step that rewrites one row changes what
is seen of one key (`TableRewritten`, `TableAppended`); each action then maps to
one abstract step, or to none.

**Orchestrator_proofs, the signals.** `SignalSafety`: types, `OnePlanPerSlot`,
`NoSameThesisReentry` (`SignalTypes` and `NoReentryOnLostThesis` state its parts).
`ClosedPlansStayClosed` and `StopsOnlyTighten` are action
properties, `ImplementsLifecycle` the refinement of `SignalPlan`. The inductive
invariant `SignalInv` replaces `OnePlanPerSlot` by the stronger fact that only
the latest row of a slot may be open (else replacing or inserting could leave an
older one open) and that with the gate on no row is ever REPLACED (else the
gate, which skips such rows, would compare with an older plan). The three step
properties follow from one relation, `RowsProgress`: every transaction moves
every row forward in the lifecycle, never loosens its stop, and keeps a closed
one. It is proved bottom up: a target hit, an exit, their composition, an entry,
the whole of `track_price_update`, then the table.

`HitsFollowEntry` is `StatusMatchesHits`, which is inductive row by row: a live
row was entered, and only a target that is hit takes a status past ACTIVE.
`FirstTargetProtects` is `BreakevenAtTP1`. What could spoil it is an entry
triggered late by the very price that crosses the first target, since the stop
would then move to the planned entry and not to the fill. It needs an invariant
of its own, `PlansKept`: a first target is at least half the risk away from the
entry, which `build_signal_snapshot` asks for, and a waiting row has its
planned entry for a fill. An entry is tracked within 0.35 of the risk, so that no
price can do both.

**LiveExecution_proofs.** `BooksKeepPosition` is `RowOutlivesPosition`: any
signals, plans and prices, any number of faults and deaths, at any stage but the
placing and the recording of an entry. The argument goes by who can have bought
what is in the market, and needs no sums. `Books`: a position and a row come from
orders that filled, and where one order alone has filled, no more than its
signal's size is left, nor more than the row shows. So an exit of a row's size
leaves something only if another signal's order has filled. What could break that
is an order placed a second time while its first fill is in the market.
`RestsUnderKey` rules it out: an order that rests has its pending key, or its
task is one that a death left RUNNING, which nobody fetches again. (The first
disagreement above protects here.) `ReadyToPlace` says the same of the moment
before an entry is placed, during which other orders may fill.

`EntersOnce` is `NoDoubleEntry`. Here the sizes do have to be added: on each side
the market holds at most the sizes of the entries that have filled and were not
placed again (`EntriesCover`), and while an entry is being placed those of the
*others* cover it alone (`OthersCover`), so that its second fill adds what the
first no longer accounts for. `MarketInv` is both, with `LiveInv` from before.
`LiveTypesHold` is the type invariant, under every fault.

**Dashboard_proofs.** The fund and the accounts, any number of request threads.
`ClosedIsPaid`: `FundInv` says that only one thread works on a trade
that is not `rough`, that what it is about to pay is the rate the trade shows,
that shares are written before the close, and that a closed trade is paid or has
a thread that is about to pay it.

`BalancesSettle` is `LedgerBalances`: a balance is the deposit and all that the
settlements of all months show. A close pays the share *recorded at the opening*,
so this needs `LedgerInv`: while trades are `orderly` at most the last one is
unfinished (`OneAtATime`), and what an unpaid trade recorded of a member is still
the member's balance (`SnapshotStands`), which joining, deletion and every other
handler leave alone. The close then adds the same to one side as to one month's
term of the other.

`PaymentsKept`: `AccountInv` says that an account outside `collided` is one
thread's, that the date this thread is about to write holds what was bought, and
that an address is one member's or one thread's that has looked for it.
`FundTypesHold` and `AccountTypesHold` are the type invariants; that of the fund
includes that nobody takes part in a trade twice.

**Services_proofs.** The small services and what they amount to together.
- `AlertsStaySpaced`: `AlertInv` adds that the process that serves a key
  remembers at least as long as the key has to be quiet; the file and the other
  process's copy may be older.
- `MailedOnce`: between the digest and its records an item is mailed once more
  than failed cycles account for, and only the items of that digest are.
- `PredictedOnce`: `SlotInv` adds that a ticker is recorded once, that what is
  pending is unrecorded, that tickers of the bot's own belong to windows without
  an answer, and that a result is later than its window. `SlotTypesHold` needs
  `SlotBounds`, that a decision is about a window that was running when the
  clock was read, however long the market took to answer.
- `SyncFinishesCandles` is `TableFinal`: any lookback, any number of candles and
  of deaths, two syncs at once. `CandleInv` says that what a sync has in hand ends
  with a candle the exchange has opened, that a recent sync keeps every row before
  its last one final (`OnlyLastForms`), and that no file, nor what is about to be
  written to it, is ahead of the exchange (`FileBehind`). A full sync may lose the
  second when it merges with the file, and either may write an older last row back
  when the other has overtaken it; that is what `lagging` records, and `skipped`
  what no sync fetched.
- `CopiesBounded` is `RepeatedOnlyUnmarked`, for any finite set of entries.
  `AnnInv`: the queue names nothing twice, and an item that is still queued, or that
  has neither a mark nor a message on its way to one, has a copy to spare
  (`CopiesAllowed`).
- `PartsRun`: every behaviour of the composition of nine parts is one of each
  part, its fairness included, since a step of another part leaves its variables
  alone. So what is proved of a part alone holds in the composition, and
  `ServicesTypes` gives the type invariant the run checks.

**Positions_proofs.** `ReconciliationRestores` is `ReconcileRestores`, whatever the
marks, the shares and the lots, the strays and the failures before. `LadderInv`
says that no two targets on the book are at one price and each is at a price of
its own level (`TargetsApart`), and the same of what the row knows (`RowKnown`).
Else a repair could take one level's order for another's and leave that one
without. `LimitsHold` is `LimitsHoldButForRecovered`: the rows that handlers
opened are no more than the limit (`RowCount`), whichever of the two actions opened
them. Their risk without the newest is below the cap at the equity that one was
let in at, by a trade's risk (`RowRisk`): it was so of all rows when the limits
were asked, recovered ones among them, and what happens later only takes rows
away. At market nothing rests, so that only a lost answer leaves something to the
reconciler (`MarketFound`). No wallet, no size of a fill and no number of lost
answers is assumed.
`LadderTypesHold` and `LimitTypesHold`: no order is for more lots than were
bought, however the shares of the levels are rounded.

`TargetsKeepShares` is `TargetsSellTheirShare`. That property is about what was sold; the
invariant `SellInv` is about what may yet be sold, and has three parts. What a
level has sold and what its order waits to sell are within its share, for the
second level within what the first left over too (`Kept`). A level without an
order may get one at the next repair, of a split of what is left by then: the
second level must be able to take it (`NextFits`), which is where the first
target being filled before its hit is recorded matters. And an order of the plan
belongs to a linked row that knows both levels (`PlanNeedsRow`, `RowComplete`),
else a closed trade's target would sell another's share. `SharesFit` is what the
argument needs of the rounding. `DefaultSharesFit` and `ExampleSharesFit` prove it
of 5:3:2, the default in the code, except for three lots, and of 4:3:3, the shares
of `.env.example`, except for two and three; `DeployedTargetsKeepShares` is the
theorem for these. The exceptions are no weakness of the proof: for those sizes TLC
finds the property violated. Three lots of 5:3:2 are
one, none and two, the last taking what the rounding left. The second level is
dropped and the lots are split over the other two, as two and one, so that the
nearest target sells two lots of a share of one.

**Research_proofs.** `LossShrinks` is `LossOnlyShrinks`, any bars and any time
limit. `LifeWell` follows one trade through a bar: open, its stop is no worse than
the first one and after a target no worse than the fill, and what its targets
have brought is at least their part of the risk, negative only if one was
behind the fill (an entry that gapped past it); done, the whole is bounded
accordingly. `SimulatorsTellTheSame` adds `Agreement`: up to the first target
both are open or ended alike. `SizedOnTheKnown` is `SizedOnKnownResults`, for any
`max_concurrent`. The account of `run_portfolio_backtest` holds everything taken;
with one position at a time every earlier trade has ended by the entry of the next
(`OneAtATime`), so that it holds what was in by then; with more it holds results
still to come, and the theorem says that it is sized on those too. The global
backtest's holds what was settled, and a candidate comes no earlier than any of
that ended (`SettledInTime`, from the order of the sorted candidates).

**Analysis_proofs.** The properties of the analysis are about chains of a dozen
operators, from the pivots through counts, position, levels, plan and zones to the
scenario that is executed; the proofs follow each chain once. The code sorts and
takes the first; the model chooses the n-th of an order, so that the first half of
the module shows that each CHOOSE is of something: a comparison is a strict total
order (`Orders`), and in a finite set such an order has its n-th member.
- `SummariesAgree` is `SummaryAgrees`: the summary names the direction of the first
  count, because it prefers the second only where that has less probability, and
  the two are then ambiguous, so that it names none (`SummaryIn`).
- `EntriesStayApart` is `EntriesApart`. Every zone has a strength of at least 300
  thousandths, enough to attract an entry within the same distance, hence
  moving an entry is monotone (`RefinedGrows`): a lower entry cannot be moved past
  a higher one; what is merged in later is named as such (`MergedIn`). The invariant
  is `Sound`, charts and reports.
- `LosersNotExecuted` is `NoLoserExecuted`: what is executed is a sorted choice of
  scenarios, and none of the chosen has lost (`PrioritizedIn`); the invariant
  `Unexecuted` adds that nothing is executed of a chart without a report.
- `ReportsTradeable` is `ScenariosTradeable`, from the detector to the merged list:
  the levels of a high chart are high (`KeyLevelsHigh`, `AroundHigh`), so are those
  of a plan, and an entry that a zone attracts is moved by one and a half per cent at
  most, so that it is high if it moves at all (`RefinedHigh`). A scenario then has
  its stop behind its entry or an entry high enough to be given one (`Stoppable`),
  and a target that is missing or behind is filled in from the risk, which is not
  nothing (`FilledAhead`, `AllTradeable`). The invariant is
  `ChartIn /\ TradeableIfHigh`.

**Model-checked only.**
- Liveness (`EveryTaskTried`, `RunningEndsUnlessKilled`, `EventuallyProtected`,
  `LinkedExposureClosed`, `EntriesAnnounced`), which is outside the prover.
- What the recursive definitions over pivots compute for every input: induction
  over data, which the installed provers do not do. The theorems about the
  analysis need no more of them than their types.

## 5. What is not modelled, and why

- *Rounding.* Prices are ticks, quantities lots. Tick and lot filters and the
  quantity by risk are functions of one call; a turned away entry is one of
  `StartOpen`'s outcomes.
- *Hedge mode, scale-in, partially filled entries.* Not the deployed
  configuration; market entries are in `PortfolioLimits`, not call by call. In
  hedge mode a scale-in ends with `row_sync.get` on a `sqlite3.Row`, which has
  no such method (`position_manager.py:1427`).
- *Managed accounts.* The two handled events return before the fan-out is
  reached, and `account_fanout.py:53` calls a method that does not exist.
- *The resizing of a stop.* It looks for stops with a quantity; the program's own
  are placed with `closePosition`.
- *Finding pivots and computing indicators.* Arithmetic over candles without
  decisions; pivots, ATR and indicator verdicts are inputs of the analysis. So
  are setup filter, higher timeframe context, KPIs and fees of the backtests.
- *The re-entry gate with a stop filled by the exchange.* The signal then ends as
  NO_EXCHANGE_POSITION, which the gate does not list; the two modules meet in no
  run.
- *Presentation, advisers, price feeds, scripts.* They read, and decide nothing.
- *Signing, clock offset, HTTP.* A call succeeds, fails, or fails after it took
  effect.

## 6. What is left

Everything planned at first is in place: the queue, the table and the live
execution; the limits; the fund, alerts, notifications and accounts; the exits
in detail; the simulated trade; the analysis. Next, in this order:

1. `ExitLadder` composed with the calls of `LiveExecution`, and both with hedge
   mode, scale-in and partially filled entries.
2. `PortfolioLimits` composed with them.
