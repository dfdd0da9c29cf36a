# StocksMomentum in TLA+

Models, model-checking runs and machine-checked proofs for StocksMomentum, a momentum
screener for Indian equities: a FastAPI process (with an in-process scheduler) that
ingests daily bars into Postgres, adjusts them for corporate actions, screens the
universe with each active strategy, and publishes every screening as an immutable run.
In the following, `P` stands for `src/backend/src/momentum25`.

## 1. Inventory

### 1.1 The parts that keep state

| Component | Sources (under `P`) | State | Operations |
|---|---|---|---|
| Screening run lifecycle | `application/use_cases/{screening,screening_orchestrator,runs}.py`, `app/services/screening_job.py`, `infrastructure/persistence/repositories/screening_run.py`, `interface/api/routers/runs.py` | `screening_runs` and the result rows that hang on them; one database session per request | trigger, execute in the background, execute directly, ingest, create or adopt the row, evaluate, save, commit, fail |
| Daily job | `main.py`, `infrastructure/scheduler/scheduler.py`, `infrastructure/redis/lock.py` | jobs in the memory of each process, a Redis key per date | fire, acquire, screen each strategy, release, expire, restart |
| Resilience | `infrastructure/resilience.py`, `infrastructure/providers/nse_client.py` | circuit breaker, semaphore, throttle lock, time of the last dispatch | enter and leave the breaker, retry, time out, throttle |
| Bars and corporate actions | `infrastructure/persistence/repositories/{ohlcv,corporate_actions}.py`, `application/use_cases/{screening,market_data,stocks}.py`, `application/services/corporate_actions.py`, `application/use_cases/research/refresh_corporate_actions.py` | `ohlcv_daily` (raw prices, `adj_factor`, `adj_close`, turnover), `corporate_actions` | three ways of ingesting bars, refresh of the factors |
| Live analysis and its gate | `application/use_cases/stocks.py`, `infrastructure/redis/refresh_gate.py` | a TTL key per symbol | check, fetch and store, mark |
| Rate limiter | `interface/api/middleware.py` | timestamps per client address | admit, reject, sweep |
| Walk-forward backtest | `application/use_cases/walk_forward.py`, `domain/backtest` | positions, cash, trade log of one backtest | rebalance, fill, settle, replay |
| Forward returns | `application/use_cases/research/forward_returns_backfill.py`, `domain/research/{forward_returns,swing_targets,stop_loss}.py` | append-only rows per run, security and horizon | backfill, simulate a trade |
| Archive backfills | `application/use_cases/research/*_backfill.py`, `scripts/rp012_phase3_backfill.py` | legacy bars, logs of inferred actions and gaps, a checkpoint file, last-seen state in memory | open a chunk, persist a day, pass a holiday, save the checkpoint, resume |
| Historical universe and screening | `application/use_cases/research/{historical_universe_reconstruction,historical_screening}.py`, `scripts/rp013_historical_correction_backfill.py` | dated memberships, replayed runs and their forward returns | reconstruct a security, replay a date in phases |
| Strategy synchronisation | `main.py`, `infrastructure/persistence/repositories/strategy.py` | `strategies` | upsert, delete orphans, at each start |
| Watchlist, caches | `application/use_cases/watchlist.py`, `infrastructure/redis/*cache.py` | `watchlist`, TTL keys | add, remove, get, set |

### 1.2 The parts that compute

| Component | Sources (under `P`) | From what to what |
|---|---|---|
| Indicators and ratings | `infrastructure/pipelines`, `application/services/rs_ratings.py` | bars to moving averages, RSI, ATR, ADX, swings, support and resistance; a universe to percentile ratings |
| Engines and scores | `domain/engines`, `domain/scoring`, `domain/strategy`, `domain/patterns` | an evaluation context to rule results, scores, gates, ranks and an explanation |
| Wave counts and chart patterns | `domain/analytics` | bars to swings, to labelled counts that compete; to trendline shapes, reversals, flags |
| Validation and research statistics | `domain/research/{services,validation_services}.py`, `application/use_cases/validation.py` | stored runs to windows, scorecards, alpha, effectiveness, comparisons, experiments |
| Data checks | `domain/research/{data_quality,overlap_reconciliation,cross_listing,liquidity_floor,period_correct_resolution,survivorship,trading_calendar,universe_calibration}.py` | bars of two sources to reconciled bars, issues, memberships, merged listings |

Neither state nor decisions: the queries and DTOs, configuration, observability, the
Next.js client (`src/web`), the parsing in the providers (`infrastructure/providers`).
`MarketSyncService` has no caller in the repository.

### 1.3 How they interact

- `POST /runs` inserts a PENDING row. `POST /runs/execute` inserts one too and runs the
  pipeline in a background task of the same process, or runs it directly and inserts
  none. The daily job runs the pipeline directly for every strategy.
- The pipeline (`run_screening_pipeline` -> `ExecuteScreening` ->
  `ScreeningOrchestrator`) works in one session. It commits the bars it ingested, then
  keeps everything about the run in one transaction until it commits the COMPLETED row
  with its results. Two except handlers, one in the orchestrator and one in the job,
  each try to commit FAILED in the session that raised.
- The newest date of `ohlcv_daily` is the hinge between the components: it decides where
  the next incremental ingestion starts, which date is screened, what `data_version`
  says and whether the health endpoint calls the data fresh. Every writer of bars moves
  it, a live lookup of one symbol too.
- Requests share the process: one circuit breaker and one semaphore for all live
  fetches, and the death of the process ends all of them.
- Processes share Postgres and Redis: unique keys decide between concurrent triggers,
  the lock key of a date between concurrent daily jobs.
- The research side reads what the running side wrote: forward returns are computed from
  bars a later refresh of the factors rescales, the universe of a past date from an
  archive a backfill may still be filling, a scorecard from runs whose returns have or
  have not matured.

### 1.4 What is hard, and what makes each component correct

| Component | Hard behaviour | Correct means |
|---|---|---|
| Runs | errors at every await, aborted transactions that swallow the handler's own statements, lost commits, crashes, INSERTs that wait for one another's key, dates read three times while others ingest | readers only see whole and final snapshots; requests end; the dates of a run bracket what it screened |
| Daily job | lock expiry under a running job, lost Redis replies, crash with or without release, jobs that run past midnight | jobs of a date overlap only after an expiry; nobody frees another's lock; a due date is screened |
| Fetches | calls begun in one state of the breaker end in another, timeouts that leave threads behind, retries beside new fetches | bounded probes, nothing starts while open, every fetch returns |
| Bars | overlapping refreshes with different actions, ingestion between a refresh's read and its update, one security failing in a loop | the adjustment columns agree, contain only stored later actions, and catch up |
| Backtest | fills on a later day than the decision, prices that are missing or unreadable, a replayed log that must agree with the loop | the log accounts for the value; no decision reads a later price; the buffer and the slots are honoured |
| Archive | a day that fails, a crash between chunks, memory that a restart loses, readers beside the writer | a resumed backfill stores what an undisturbed one does; readers see no growing range |
| Calculations | missing values, ties, splits, duplicates of a date, returns that have not matured, windows longer than the history | no answer from the future, none from a missing value, none that depends on a split or on the order of its inputs |

`PROJECT.json` lists the hazards one by one, each at its line with the properties that
cover it, and the components that no module covers.

## 2. Modules

| Module | Models | Notes |
|---|---|---|
| `ScreeningRuns` | the run lifecycle | the core; one action per piece of code between two awaits that matter |
| `RunSnapshots` | what the run table promises (ADR-006) | abstract; `ScreeningRuns` implements it under the mapping `Board` |
| `NseFetch` | breaker, retries, semaphore, throttle | time in ticks, every clock kept as the time since its reset |
| `DailyJob` | scheduler, lock, loop over strategies | one strategy's pipeline is one step here; its inside is `ScreeningRuns` |
| `PriceStore` | bars, corporate actions and factors | a factor is the set of ex-dates multiplied in it |
| `WalkForward` | one backtest | money and prices are powers of two, so every division of the code is exact |
| `LegacyBackfill` | the archive backfill and its script | extends `DataChecks` for the identity of a print |
| `HistoricalReplay` | universe reconstruction and replay of past dates | composes with `LegacyBackfill` (one `Next`) and takes eligibility from `DataChecks`, forward rows from `Trades` |
| `Series` | a security's bars up to a date and after it, as the repositories return them | by date, one a date |
| `Values` | the missing value, means, percentages and rounding; selections and upserts | shared by the calculations |
| `Indicators`, `RelativeStrength` | `indicator_pipeline.py`; `relative_strength_pipeline.py` and `rs_ratings.py` | integers, windows as constants |
| `Bases`, `Engines`, `Scoring` | `domain/patterns`; the seven engines; scores, gates, ranks, explanation | one operator per rule group |
| `Validation`, `Comparison` | `validation_services.py` and its use case; `research/services.py` and its use cases | |
| `Trades`, `DataChecks` | forward returns, stops and swing trades; the checks of the archive | |
| `Waves`, `Counts`, `ChartPatterns` | swings, wave structures and their rules; ranking, subdivisions, zones; chart patterns | prices in thousandths, ratios as fractions |
| `RateLimiter` | the middleware's window and sweep | a recursive function of the requests of one history |
| `Inputs` | "given one input after another" | the state of the calculations, see 2.8 |
| `Analysis`, `Studies`, `Charts`, `Shapes`, `RateLimiter` | what must hold of the calculations | the properties, by kind of input |
| `ScreeningRunsProofs`, `NseFetchProofs`, `DailyJobProofs`, `PriceStoreProofs` | | the theorems about each |
| `SumsAndSeries` | | induction over numbers and finite sets, what a sum over a finite set is, and the parts of a series: lemmas for the three below |
| `WalkForwardProofs`, `HistoricalReplayProofs` | | the theorems about the backtest, and about the archive beside its readers |
| `CalculationsProofs` | | the theorems about the limiter, the gates, the ranks, swing trades, forward rows, memberships, listings and indicators, for inputs of any size |
| `MC*` | | symmetry sets and enumerated inputs for TLC; runs with liveness use no symmetry |

Definitions whose comment begins with "Slip:" are not part of the system. Each is a
plausible bug in the definition that follows it; substituting it must make some run fail
(`mutants` in `PROJECT.json`), which shows that the property can be broken.

### 2.1 ScreeningRuns

State and code: `runs` is the committed table; `staged[t]` and `sess[t]` are the unit of
work of request `t`'s session and whether an error has aborted its transaction; `pc[t]`
is where its coroutine is; `scan[t]` holds the dates it read; `latest` is
`max(ohlcv_daily.date)`, `listed` whether an active security exists. `returned` and
`outcome` are what the caller learns.

| Action | Code |
|---|---|
| `TriggerRefresh`, `InsertPending` | `TriggerRefresh.execute` |
| `CallDirectly` | `POST /runs/execute` with `background=false`, the scheduled job |
| `BeginExecute`, `FetchEodRange`, `UpsertSecurities`, `PersistBars`, `ResolveScreeningDate` | `ExecuteScreening.execute` |
| `OpenRun`, `InsertRun`, `EvaluateUniverse`, `SaveResults`, `CommitRun` | `ScreeningOrchestrator.run_daily_screening` |
| `ReturnNewestCompleted` | `_run_via_orchestrator` |
| `HandleError`, `MarkRunFailed` | the two except handlers |
| `EvaluateLosesStatement`, `CommitLost`, `PythonError`, `DbError`, `Crash` | errors at each of these places |
| `NextDay`, `RefreshBars` | the clock; another use case that stores newer bars |

Two facts about the libraries carry much of the behaviour. In Postgres an error aborts
the transaction: each later statement of it fails. In SQLAlchemy a session whose flush
or commit failed refuses work until it is rolled back, which this code never does. Hence
`sess[t] = "broken"` lasts until the session is closed. And an uncommitted INSERT blocks
every other INSERT of its key (`KeyIsFree`), while a committed one makes it fail
(`KeyIsTaken`).

Abstractions: scores are one value, the session they were computed for, or `Partial` for
an evaluation that lost a statement; prices, counters and error texts are left out; the
INSERT of a trigger and its commit are one step (there is no await on anything else in
between; a commit that is lost there is not split from one that failed).

### 2.2 NseFetch

`Enter`, `RecordSuccess`, `RecordFailure` are the breaker's `__aenter__` and
`__aexit__`; `Ask`, `AcquirePermit`, `EnterThrottle`, `LeaveThrottle`, `Retry`,
`Succeed`, `Fail`, `TimeOut` the path of `fetch_historical_bars` through the semaphore,
the throttle and `resilient()`. `admitted` remembers the state that let a call pass, for
`ProbesAreBounded` only. `with_timeout` ends the await and not the thread under it; such
a thread touches no variable of the model and is left out.

### 2.3 DailyJob

`FireTime` starts the job of every process that is up and not still in its last one
(`max_instances`); `AcquireLock`, `ListStrategies`, `ScreenStrategy`, `ReleaseLock` are
`_run_daily_screening_job`. `JobFails` has the Redis and SQL failures, including a lock
that is set although the reply is lost; `LockExpires` the TTL; `Stop` a graceful end
(the lock is released) or a kill (it is not). `jobs`, `attempted` and `expired` are
history.

### 2.4 PriceStore

`FetchEodRange`, `FetchLatestSession` and `FetchHistoricalBars` are the three ways in,
`StoreBars` the upsert and its commit. `ReadActions` and `UpdateFactors` are one
security of `RefreshCorporateActions`: the saved actions are visible to its own session
only until the commit, the bars it read may be written again before its UPDATE.
`Publish` is NSE listing an action, before or after its ex-date.

### 2.5 WalkForward

`history` is what the database holds of each security; nothing writes it. One
`Rebalance` is an iteration of the monthly loop: the signal date, eligibility,
momentum ranking, the buffer, the target, the fills at the next session and the
settlement, in the code's order; `Fail` is the division by a price of nothing in the
ranking, `Finish` the value at the end. `trades` is the log, and `Replayed` the
positions, cash and value it leads to, which the use case reports. `skipped` is
history: a planned trade, or a holding that is settled, found no price.

### 2.6 LegacyBackfill

`job` is the script: the chunk it is in, the days left, and the memory of
`LegacyOverlapBackfill.execute` (last close and session index of each security), which
starts empty with every chunk. `PersistDay` is a session (`_persist_day` and its commit),
`PassHoliday` a 404, `SkipSession` another status, `DayFails` a statement with two rows
of one key, `SaveCheckpoint` the end of a chunk, `Crash` a death anywhere, `Start` the
operator. `archive` is one of the archives the exchange may hold; `skips` is history.
`Over` is ON CONFLICT: bars overwrite what is there, events do not. `Extend` is one day
of a pass and `Pass` the days of a range, each a recursive function of the day, so that
`ResumesAsUndisturbed` compares the tables with a definition and not with another run.

### 2.7 HistoricalReplay

`StartReconstruction` and `ReconstructSecurity` rebuild the memberships of one security
per commit, from the bars that are there. The replay script goes through the weekly
dates; each date has three commits (`In(phase)`: the run, its tag, its forward returns)
and may die between them. A run holds what it scored, not the scores. `HistoryTo` is the
query for a security's bars, in the order of their dates, written as a recursive function
of the day; `Through` and `Since` (in `Series`) are the queries for the bars up to a date
and after it, `WithRun` is the new row of `screening_runs`.

### 2.8 The calculations

A calculation keeps no state and has nothing to interleave with. `Inputs` makes a
process of it all the same: `Ask` gives it an input of one kind, `Rest` takes it away,
and each kind is a behaviour of its own. A property `Is("kind") => ...` relates several
results of one input (what two paths say of it, what an engine says of the bars and of
the same bars at twice the price), or the result to a definition that is written for the
reader. The inputs are enumerated in `MCCalculations`, twenty-two kinds: `series`,
`context`, `gate`, `pair`, `ranking` (engines), `runs`, `window`, `returns`, `evals`,
`snapshots`, `overrides`, `rows` (studies), `bars`, `universe`, `histories`, `trade`,
`forward`, `archive`, `listings` (data), `swings`, `bases` (charts), `requests`.

Numbers are integers in the unit that the thresholds need (percent, thousandths,
hundredths of a score), fractions are pairs compared by cross-multiplication, `None` is
Python's `None` or NaN wherever the code can meet one. Windows (`Spans`, `BaseBars`,
`Lengths`, ...) are constants, a few bars in the instance instead of 50 or 252. Square
roots, annualisation, display rounding, wording and labels are left out; where a square
root only orders things its argument is compared.

## 3. Runs

The deadlock check is on for `NseFetch` and the calculations. It is off elsewhere:
requests, days, rebalances and restarts are finite, so those systems really come to
rest.

| Run | Question | Instance |
|---|---|---|
| `RunsFaults` | is what readers see always whole, final and an implementation of `RunSnapshots`? does a caller learn the truth and leave no row behind but by a fault? do the dates of a row bracket its results? | 2 requests, 2 strategies, 2 days, 1 database error, 1 crash; 922k states |
| `RunsLive` | does every request end? | 2 requests, 1 strategy, 1 day, 1 error, 1 crash; 49k |
| `Fetches` | are probes bounded, does nothing start while the breaker is open, are first attempts spaced, does every fetch return? | 3 callers, 2 permits, failure threshold 2, 1 probe, 2 attempts, call timeout 2, recovery 3; 33k |
| `Jobs` | do jobs of a date overlap only after an expiry? who may free a lock? is a due date screened? | 3 processes, 2 strategies, 2 days, 2 faults; 174k |
| `Bars` | do the adjustment columns agree, hold only stored later actions, and catch up? | 1 security, 1 writer, 2 refreshes, 2 days, 2 ex-dates (one ahead of the clock), 1 error; 731k |
| `Backtest` | does the log account for the value, is the portfolio full, is the buffer honoured, does a decision read the future? | 4 securities with 7 kinds of history (delisted, listed late, unreadable close, a close of zero on a fill day only), 3 rebalances, 2 slots |
| `Archive` | does a resumed backfill store what an undisturbed one does? do readers see a growing range? does it end? | 3 archives of 6 days in 2 chunks (a split, a holiday, a day with two prints of a security, a renamed one), 1 crash, 1 skipped session, 1 error |
| `Calculations` | what the calculations promise, see below | 22 kinds of enumerated input, 126k states, two minutes |

The bounds are the smallest at which the hard cases occur. Two requests suffice for
every conflict over a key, a shared date or a row; two days separate the clock from the
stored sessions and let a job run past midnight; the third process in `DailyJob` can
take a lock while one job overruns its own and another steps back. One database error at
any point covers every place where a handler runs, because a broken session stays
broken. Two ex-dates let one refresh know less than the other. In `NseFetch` the
recovery time exceeds the call timeout, as in the code (60 s against 30 s): it is an
assumption of the module and `ProbesAreBounded` needs it. Securities are independent in
`PriceStore`, except for the newest date, which no property of its run is about. Three
rebalances let a holding enter, be kept by the buffer and leave; two chunks let a crash
fall before, in and after a checkpoint. The wave inputs reach impulses, diagonals,
triangles, subdivisions and a coarsened top degree, head and shoulders, double tops,
flags, pennants and cups; a triple three is never the shown count within them.

What `Calculations` checks, by property:

| Property | In | Says |
|---|---|---|
| `EnginesAreSound` | `Analysis` | every contribution and score is a percentage, base qualities do not depend on the price scale, and a missing indicator never lets a security through a gate |
| `GateStoryAgrees` | | hard filters and the explanation's failing gates agree |
| `RankingIsFair` | | gates are rank-neutral; ranks are 1 to n in any order of arrival |
| `DatesCountOnce` | `Studies` | an older run of a date changes neither scorecard nor alpha |
| `BenchmarkStaysAligned` | | a strategy that earned what the benchmark did has no alpha |
| `UnmaturedIsNoEvidence` | | an evaluation without a return changes no measurement and brings no verdict |
| `ReportsAreTrue` | | windows, drawdowns, movers, rule contributions and overrides are what they say |
| `IndicatorsIgnoreTheFuture` | `Charts` | an indicator of a day is the same with and without later bars |
| `SplitsDoNotMoveIndicators` | | a split changes prints, not indicators |
| `RatingsFollowReturns` | | a higher return never has a lower rating; an unmeasurable one moves nobody's |
| `TradesAreHonest` | | a trade ends at the first bar that decides, the stop before the target |
| `ForwardRowsIgnoreWhen` | | a forward row is the same whenever it is computed, without a split or a lagging benchmark |
| `UniverseIsConsistent` | | the ways to a membership agree; merging listings is idempotent and keeps what both had |
| `LimitIsExact` | `RateLimiter` | a request is refused exactly if the window holds the limit, whatever the sweep removed |
| `CountsReadTheChart` | `Shapes` | swings alternate and scale; counts compete and end together; finer counts stay in their legs; up and down are judged alike |
| `FormationsAreDistinct` | | formations of one start differ in kind; at twice the price they are the same |

Runs that are expected to fail each show one sentence of the repository that the code
does not keep:

| Run | Sentence | What happens |
|---|---|---|
| `RunsPending` | comment in `run_screening_pipeline`: the row would otherwise stay PENDING | after a database error it does stay PENDING: the handler uses the broken session |
| `FetchRecovery` | "`CircuitBreaker` with half-open recovery" | a late success of a call begun before the breaker opened resets the count, a probe then fails: HALF_OPEN with no probe left, for ever |
| `ArchiveOutage` | a transient outage must crash the run loudly "instead of silently dropping a real trading day from the archive" (`bhavcopy.py`) | a 503 or a broken zip is an empty day, counted as a holiday; the checkpoint passes it |
| `ScorecardRates` | "FP: run qualified securities but the period return was negative" | returns and run summaries are paired by position, and a run without matured returns has only a summary |

Properties the modules state, and TLC refutes, that have no run of their own:

| Property | In | Sentence it refutes |
|---|---|---|
| `FailedIsRetriggerable` | `ScreeningRuns` | "runs are manually re-triggerable and idempotent": the unique key of a FAILED row refuses the next trigger |
| `NeverRunsTwice` | `DailyJob` | "the daily job never runs twice for the same date": the lock is gone when the first job ends |
| `MissedRunIsCaughtUp` | `DailyJob` | "the missed run is detected and executed once": the job store is in memory |
| `TurnoverIsKept` | `PriceStore` | "fetching the lean variant would blank out the turnover": the live refresh fetches the lean variant |
| `FreshnessTracksIngestion` | `PriceStore` | the health endpoint tells a gap from a stop of ingestion: one symbol's lookup moves the date it reads |
| `EventsIgnoreChunks` | `LegacyBackfill` | the event logs do not depend on the chunks: memory starts empty with each |
| `ReplayedRunsAreWhole` | `HistoricalReplay` | an interrupted replay can be invoked again: a FAILED or untagged run of a date is never replayed |
| `ForwardRowsSurviveSplits`, `AdxNeverRaises` | `Charts` | forward rows are append-only and computed from closes that are later rescaled; the guard around ADX is meant to catch flat bars and a series of them raises |
| `SplitsDoNotMoveEngines`, `RiskPartsAreClamped`, `QualityTells` | `Analysis` | live engines read printed bars while the indicators are adjusted (ADD, IMPLEMENTATION_SPEC); a part that risk.py calls clamped is not; every ascending base that is found has quality 100 |
| `IdenticalMeansSame`, `EvaluationStartsAtItsOldest`, `NothingBeatsItself`, `RSquaredOfItself` | `Studies` | `is_identical` looks at neither missing securities, lost ranks nor rules; evaluations read the newest runs first; a variant is also its own base; an annualised volatility is put beside a plain covariance |
| `SwingsAreExtreme`, `ZonesArePrices`, `TopsStandOverTheirValley` | `Shapes` | the bar that confirms a swing is passed over by the next one's search; a projection can be negative; the valley of a double top may lie above its tops |

Further sentences the models contradict, for which the true and weaker statement is
checked instead, or nothing:

- `data_version` is "latest bhavcopy date used" (IMPLEMENTATION_SPEC): an adopted row
  keeps the version read at its trigger. True is `DatesBracketResults`.
- `ExecuteScreening.execute` "Returns: The id of the created (or adopted) screening
  run": it returns the newest completed run of any strategy. True is
  `RequestsEndTruthfully`: the run it returns exists and is COMPLETED.
- "Screen the latest session that actually has data, not the wall-clock date": with
  securities stored and no bars (a crash between the two) the wall-clock date is
  screened, every security is skipped for its history, and the run is COMPLETED.
- "a minimum interval between dispatches": retries do not pass the throttle. True is
  `FirstAttemptsAreSpaced`.
- "a semaphore bounds concurrent fetches": a timed-out fetch gives its permit back while
  its thread still downloads.

What modelling brought to light beside them, where no sentence says otherwise or none
can be quoted against it:

- Archive. A print whose symbol is known falls back to it although its ISIN belongs to
  another security, so two prints can name one security; the day's statement then fails,
  on every rerun. Events are inferred from memory that starts empty with each chunk. A
  checkpoint is only valid for the range it was written for. Events logged after a
  skipped session, and memberships, are insert-only and stay as they were.
- Replay. A date on which only inactive securities were eligible ends the script, at the
  same date each time. Runs are restricted to what is active today.
- Waves and patterns. After a confirmation the other side is searched from the bar after
  the confirming one. They read printed bars, so that a split is a decline. Cups need no
  right rim. The quality of an ascending base is 100 whenever there is one.
- Ratings. Shorter histories are measured over what they have; equal returns get
  different ratings by their order; rated alone a security is not among its peers, rated
  in a batch it is; a rating a month ago rates the rating a month before that, and so on.
- Forward returns. A row computed before a split, or while the benchmark lags, stays.
  Its excess return may span different dates than its return.
- Research. Pages are taken before they are filtered and reach the reports newest first;
  a scorecard without runs reports zeros as measurable; R² sets annualised volatility
  against itself; an engine may be the best one and recommended for exclusion.
- Backtest. `total_return` runs to the end date, the benchmark's from the first to the
  last rebalance. A holding whose close reads as zero on the day it leaves the target is
  dropped by `_settle` without a trade, and the log goes on holding it: the replayed
  value then exceeds the loop's by whatever it is worth later
  (`walk_forward.py:286-307`). Such a day counts as `skipped`, and
  `ReplayAgreesWithLoop` speaks of backtests without one. The theorem about it showed
  this: its invariant could not be proved while only planned trades counted.
- Rate limiter. Each process counts for itself, on the wall clock: `LimitIsExact` speaks
  of times that do not step back.
- Strategy synchronisation is one transaction: an orphan that a run still refers to
  makes the start-up log an error and lose every upsert.

### 3.1 Fairness

- `ScreeningRuns`: weak fairness of what each coroutine does next. asyncio resumes every
  ready task, and a waiting INSERT is woken when its key is free. Nothing obliges a
  request, an error, a crash or a new day.
- `NseFetch`: time passes, sleeps end, `wait_for` ends overdue calls, a healthy NSE
  answers. Strong fairness of `AcquirePermit` and `EnterThrottle`: asyncio's semaphore
  and lock queue their waiters in order. `DemandSpec` adds that callers keep asking.
- `DailyJob`: the fire time comes, jobs proceed, processes are restarted.
- `PriceStore`: a refresh that has begun proceeds. That refreshes as of the current day
  are begun again and again is an assumption about the operator: the endpoint calls
  itself "a separate periodic operation" and the code has no schedule for it.
  `FactorsCatchUp` is relative to it.
- `HistoricalReplay`: the script of the backfill takes its next step, and whoever runs
  it starts it again after it died (`FairSpec`). It is started by hand, so this is an
  assumption about its operator; `BackfillFinishes` is relative to it and to no day
  failing. Nobody is obliged to reconstruct or to replay.
- `WalkForward` and the calculations have no liveness property and need no fairness: a
  backtest is one call that ends by itself, a calculation is an operator.

## 4. Proofs

Eight modules hold theorems (one of them, `SumsAndSeries`, only lemmas), each proved for
every value of the constants its module's assumptions allow. What they assume is in the
column on the right.

| Module | Theorem | Statement | Assumption |
|---|---|---|---|
| `ScreeningRunsProofs` | `Invariance` | `Spec => []IInv` | `BoundsAssumption` |
| | `TypeCorrect` | `Spec => []TypeOK` | |
| | `CompletedRunsAreWhole` | `Spec => []NoPartialCompleted` | |
| | `RunningStaysInItsSession` | `Spec => []RunningIsNeverVisible` | |
| | `CompletedRunsAreImmutable` | `Spec => CompletedIsImmutable` | |
| | `ImplementsSnapshots` | `Spec => ImplementsRunSnapshots` | |
| | `DatesBracket` | `Spec => []DatesBracketResults` | |
| | `RequestsEndTruthful` | `Spec => []RequestsEndTruthfully` | |
| `DailyJobProofs` | `Invariance` | `Spec => []IInv` | `JobAssumption` |
| | `TypeCorrect` | `Spec => []TypeOK` | |
| | `JobsOfADateAreAlone` | `Spec => []OneJobAtATime` | |
| | `OnlyTheOwnerFreesALock` | `Spec => LockIsLostByItsOwner` | |
| `NseFetchProofs` | `FetchInvariance` | `Spec => []IInv` | `FetchAssumption` |
| | `TypeCorrect` | `Spec => []TypeOK` | |
| | `OpenMeansClosedToCalls` | `Spec => []NothingStartsWhileOpen` | |
| | `ProbesStayBounded` | `Spec => []ProbesAreBounded` | |
| | `DispatchesAreSpaced` | `Spec => FirstAttemptsAreSpaced` | |
| `PriceStoreProofs` | `StoreInvariance` | `Spec => []IInv` | `StoreAssumption` |
| | `TypeCorrect` | `Spec => []TypeOK` | |
| | `BothPricesAgree` | `Spec => []ColumnsAgree` | |
| | `AdjustedForStoredActions` | `Spec => []OnlyLaterActions` | |
| `WalkForwardProofs` | `BacktestTypes` | `Spec => []TypeOK` | `SizeAssumption`, `SecuritiesAssumption`, `CalendarAssumption`, `HistoriesAssumption`, `MoneyAssumption` |
| | `NoDecisionReadsTheFuture` | `Spec => []DecisionsIgnoreTheFuture` | |
| | `BufferFillsThePortfolio` | `Spec => []PortfolioIsFull` | |
| | `ReplayIsTheLoop` | `Spec => []ReplayAgreesWithLoop` | |
| | `BufferIsAlwaysHonoured` | `Spec => BufferIsHonoured` | |
| `HistoricalReplayProofs` | `BackfillInvariant` | `Spec => []BackfillInv` | `ChunksAssumption` |
| | `BackfillResumes` | `Spec => []ResumesAsUndisturbed` | |
| | `RaceInvariant` | `Spec => []RaceInv` | also `ArchivesAssumption`, `WindowAssumption`, `TurnoverAssumption`, `HorizonsAssumption` |
| | `ReadersSeeTheWhole` | `Spec => []ReadersDoNotRace` | |
| `CalculationsProofs` | `AnyLimitIsExact` | `Spec => []LimitIsExact` | `LimitAssumption`, `RequestsAssumption` |
| | `AnyGateStoryAgrees` | `Spec => []GateStoryAgrees` | `StrategiesAssumption` |
| | `AnyRankingIsFair` | `Spec => []RankingIsFair` | `StrategiesAssumption`, `ScoresAssumption` |
| | `AnyTradeIsHonest` | `Spec => []TradesAreHonest` | `PlanAssumption`, `SignalsAssumption` |
| | `AnyForwardRowIgnoresWhen` | `Spec => []ForwardRowsIgnoreWhen` | `HorizonsAssumption`, `PicksAssumption` |
| | `AnyUniverseIsConsistent` | `Spec => []UniverseIsConsistent` | `StoredAssumption`, `SessionsAssumption`, `TurnoverAssumption`, `ListingsAssumption` |
| | `AnyIndicatorIgnoresTheFuture` | `Spec => []IndicatorsIgnoreTheFuture` | `SpansAssumption`, `BarsAssumption` |
| | `AnySplitMovesNoIndicator` | `Spec => []SplitsDoNotMoveIndicators` | also `NoneAssumption` |
| | `AnyEngineIsSound` | `Spec => []EnginesAreSound` | `SeriesAssumption`, `ContextsAssumption`, `BasesAssumption`, `EnginesAssumption`, `BaseBarsAssumption`, `NoneAssumption` |
| | `AnyRatingFollowsReturns` | `Spec => []RatingsFollowReturns` | `RatingsAssumption`, `UniversesAssumption`, `HistoriesAssumption` (of `Charts`), `NoneAssumption` |

The assumptions say that bounds are natural numbers, that "nobody" is none of the
processes or securities, and, in `FetchAssumption`, that the breaker's recovery timeout
is longer than the timeout of a call. The last one is needed: a probe that outlives the
cooling would still be under way when the next period begins to count from nothing. The
assumptions of `WalkForward` say that the securities are finitely many, that days are
natural numbers, that every history has an entry for the same days and holds no
negative price, and that money is counted in integers; `ChunksAssumption` says that the
chunks share the range out without a gap, as `year_chunks` of the script makes them;
`ArchivesAssumption` that the archive has an answer for each of their days, if only an
empty one; `WindowAssumption`, `SessionsAssumption` and `TurnoverAssumption` that their
bounds are natural numbers, `HorizonsAssumption` that there are finitely many horizons
and all are positive. What the calculations are given is in the order of its dates, as
the repositories return it (`SignalsAssumption`, `PicksAssumption`, `StoredAssumption`),
and sound where a calculation does not look for errors itself: prices above zero and
within their low and high (`BarsAssumption`, `SeriesAssumption`, `BasesAssumption`,
`SignalsAssumption`), an even volume before a two-for-one split (`BarsAssumption`), each
symbol and each ISIN listed once on an exchange for the merge of two
(`ListingsAssumption`), and for an engine the distances from the extremes of a year that
the pipeline computes from the same close (`ContextsAssumption`). Nothing enforces them;
the properties do not hold of data that break them. `SpansAssumption` and
`EnginesAssumption` say that windows are positive numbers, `BaseBarsAssumption` that no
detector looks at a stretch longer than the bars it asks for, `RatingsAssumption` that a
security needs at least a year of bars for a rating of its own (282 against 252), and
`NoneAssumption` that an unknown value is no number. The values of the code satisfy them
all. `UniversesAssumption` and `HistoriesAssumption` say no more of what is rated than
that closes and weights are natural numbers and bars are in the order of their dates.

The arguments:

- **Runs.** That COMPLETED rows are whole depends on what a request is about to publish,
  so `IInv` follows each request: `OwnsItsRow` (no two requests hold one row id),
  `HoldsItsWork` (what `staged`, `scan` and `sess` contain in each phase: whoever is at
  the commit has an unbroken session and the results of one session date staged),
  `FindsItsRowOpen` (a request whose session can still write finds its row PENDING, or
  not there yet; after a lost commit the row may be COMPLETED, but then the session is
  broken and nothing more is written), `IdsAreFresh` and `RowsAreWhole`. Each action
  preserves each of them; the action properties and the refinement follow from `IInv`
  and one step.
- **Dates and answers of runs.** Two more invariants, inductive beside `IInv`. `DInv`
  follows the dates of a request's row: an adopted row has a version no newer than the
  bars were when the run decided what to screen, and they only grow (`AdoptedDates`); a
  created row is staged with the session it screens (`CreatedDates`); the commit writes
  what was staged. `AInv` follows what a request may say: a broken session of a
  background run has seen a database error, and one that ends with an unbroken session
  has settled its row on the way; a direct call returns only when its own row is
  COMPLETED, so the newest COMPLETED row is no older. That the steps of other requests
  disturb neither is one lemma, `StepKeeps`: no two requests share a row or a session.
- **Daily job.** Two jobs of one date would both own its key (`OwnsItsLock`). A process
  that is not in a job has no date (`KnowsItsDate`), so that its end, by cancellation
  too, deletes no key.
- **Fetches.** The calls under way while the breaker is OPEN are as old as its cooling;
  no call is older than its timeout; so none is left when the cooling ends and the
  count of probes starts again, and from then on the count covers every probe
  (`ProbesAreCounted`). First attempts are apart because each is as old as the last
  dispatch at least (`DispatchesAreTimed`). The callers may even be infinitely many.
- **Bars.** The upsert and the UPDATE are lemmas on one security's bars: each leaves the
  two columns in agreement and adds no factor but those of its view. A view contains
  only actions that are stored or are stored by the same commit (`ViewIsStored`), and
  no action is ever deleted.

- **Backtest.** A decision reads closes up to its own date, so it is the same over any
  history that agrees up to there (`DecisionsIgnoreTheFuture` is one lemma per operator
  the ranking is built from, each congruent in the closes it reads). `PortfolioIsFull`
  counts: the kept are at most the slots, ranks are distinct, so the candidates of the
  best ranks fill what is left. That the replayed log agrees with the loop is an
  invariant of the ledger: summed over the log, the quantity of each security is its
  position, and what the trades moved is the difference between the capital and the
  cash. One rebalance adds one trade for each security whose position changes, so both
  sums change by what the loop changes; the value of both at a date is then the same
  sum over the securities.
- **Archive.** `BackfillInv` says where the script is (`AtChunk`: the chunks before it
  are behind the checkpoint, its day is in its chunk) and, while the archive has
  answered every session, what is stored (`Kept`): for the chunks completed what one
  undisturbed pass over each leaves; of the chunk under way, entries of that pass only,
  and all of those before the day the script is at, whose memory is the memory of the
  pass at that day. A crash leaves entries beyond the checkpoint; the next run writes
  the same ones again, bars over them, events not at all, because its memory starts
  from nothing at the chunk's first day, as the pass does. The totals of the file are
  those of the completed chunks, as no chunk is counted before its checkpoint.
- **Readers of the archive.** Beside `BackfillInv`, the bars are at every moment exactly
  those of the first days, none of which failed (`SettledTo`): the day the script is at
  is the next of them or one it has been at before, and a day stored again says what it
  said. That is because a day's bars do not depend on what the script remembers. The
  bars there will be in the end, `Whole`, are those of all days before the first that
  fails (`WholeIsSettled`), so what is stored is a beginning of it, and so is the
  history of each security (`EarlyHistory`). What is read of a past date is then final:
  the bars up to a settled day are all there (`EarlyPast`: eligibility and what is
  scored), a membership depends on the bars up to its own day (`EarlyMemberships`), and
  a forward return is written only when the whole horizon is there (`EarlyRow`).
  `RaceInv` adds where the readers are: a replay only has dates that were sessions with
  bars when it started (`ReplayHolds`), and each row they wrote is the final one. The
  invariant needs every session to be served (`skips = 0`): a session skipped and
  fetched by a later run would appear behind what has been read.

- **Limiter.** After n requests (`Told`): the last sweep happened at one of them, less
  than a window ago (`SweptInTime`); an address that is remembered was let through less
  than a window before that sweep, and remembers only requests of its own (`NobodyIdle`);
  of the requests let through, what is forgotten is too old for every request since
  (`Kept`); and who was served is who should have been (`Judged`). Pruned, an address
  then holds exactly the entries of its window (`CountsWhatWasLetThrough`), as many as there are
  requests. That the clock does not step back is in `RequestsAssumption`; without it
  `Kept` fails.
- **Gates and ranks.** `StrategiesAssumption` has the shape of the shipped strategies: at
  most the trend template is a gate engine and its rules are binary. A security that
  passes such a gate has 100 there, so leaving the gates in or out of a mean of scores
  compares the same numerators (`GatesAreNeutral`), floors and all. Of n ordered
  securities the numbers of those ahead are 0 to n - 1 (`PlacesAreDense`), and reversing
  the order of evaluation is a bijection of those ahead, as two scores never tie: the last
  key is the security (`ScoresAssumption`).

- **Trades.** The walk stops at the smallest number of a bar that decides, which exists
  because the window is finite (`NatSetHasMin`); the bars before it decide nothing by
  its minimality. That the exit is a price of that bar, or a worse one, needs bars
  within their low and high (`SignalsAssumption`, what `data_quality.py` reports
  otherwise) and a plan whose stop is below its entry and target above it
  (`PlansAreBounded`, from `PlanAssumption`: the multiples are positive). Both levels in
  one bar end at the stop, which is the "loss if it could have been one".
- **Forward rows.** What has matured on a day is a function of the bars up to that day
  (`RowsOn`), and a backfill adds what has matured and is not there (`BackfillAdds`). The
  bars up to a day begin those up to a later one and agree up to the run
  (`LaterBegins`), and a row reads the closes of its horizon only, which are there once
  it exists (`MaturedRow`): so what has matured stays, with the same values, and by
  induction over the days the daily backfills hold what one does (`DailyIsOnce`). The
  closes of a shorter horizon are among those of a longer one, so its extremes lie
  within (`HorizonsWiden`). The benchmark is the same in all of them and `adj` of a bar
  does not change: that is what `ForwardRowsSurviveSplits` shows to be a condition.
- **Universe.** The i-th session of a window is the (c + i)-th of all, c being those
  before the window (`WindowMembership`). With c = 0 both memberships read the same
  bars. Otherwise the window either counts too few sessions before the date, or has too
  few for a turnover average, or holds the whole trailing stretch, which is then the same
  (`SubSeqShift`). The merge of two exchanges is a function of the set BSE lists, as no
  symbol occurs twice in it and so no order of preference applies (`MergeIgnoresOrder`);
  that each exchange lists each symbol and ISIN once is `ListingsAssumption`.

- **Indicators.** An average that is moved on bar by bar is a recursion along an interval:
  it exists (`RecursionExists`), and two that begin alike and take the same steps agree
  (`StepsAgree`). So the smoothed series of the first bars is a beginning of that of all
  (`WilderBegins`, `EmaBegins`), and RSI, ATR and MACD are made of such series, value by
  value. ADX is not: its defined values are taken out, smoothed and written back. If they
  can be written back at all, as many are defined as there are bars from the window on,
  and none is defined before it (`DxIs`), so by counting they are just those
  (`WrittenBack`), and the same holds of the first bars (`AdxFromBegins`). A pivot reads
  the bars within reach only (`PivotsStay`).
- **Splits.** A frame is the last bars up to the date, each adjusted by itself (`FrameIs`).
  Twice a price, halved, is the price, and half an even volume, doubled, the volume
  (`AdjustedIs`), so both frames are the same. What an average is made of never exceeds
  a constant if no term does (`WilderInScale`), and a directional movement never exceeds
  the true range of its bar, as each close lies within the low and high of its bar
  (`MovesAreBounded`): so none of the shares exceeds 100. The remainder of the stochastic
  and of Williams' %R is the same, since their numerators differ by the range itself
  (`PercentsAddUp`).
- **Engines.** A score is a weighted mean of what its rules contribute, so it is a
  percentage if each of them contributes one (`ScoreIsPercentage`, by induction over the
  rules); of every rule the clamp, or a count that is no greater than what it is divided
  by, says that it does (the lemmas `...IsPart`). A rule of the gate that passes without
  an input passes with it (`RulesNeedTheirInputs`). Only the two about the extremes of a
  year have a second way: they work a missing distance out from the close and the
  extreme, or the reverse, and pass alike because the pipeline's distance is that of the
  same close, rounded (`DistancesAgree`, `PercentKeeps`). At twice the price the highest and the
  lowest of a stretch are twice what they were and lie at the same place
  (`BoundsDouble`, `PlacesDouble`), volumes are the same, and a quotient of doubles is
  the quotient (`QuotientOfDoubles`): each detector takes the same branches. That no
  stretch is empty where a detector reaches it is what its first guard is for.
- **Ratings.** A rating is a place among those ordered by return, spread over 1 to 99 and
  rounded half to even, which keeps the order (`RoundsFollow`). The places of n ordered
  securities are 0 to n - 1, each taken (`PlacesAreTaken`, `PlacesAreNumbered`), so the
  best has 99 and the worst 1. What has no return is passed over: numbered along the
  others, the counts are the same as in a universe without it (`CountsAlong`,
  `RatingsOfTheKept`). Against a benchmark a security needs more bars for a rating of its
  own than to be a peer, so one that is rated is a peer of every other, with the same
  composite (`CompositeStays`); two of them are then compared with equally many, and the
  better one has no more ahead of it (`BetterAmongOthers`, `BetterInBatch`). What is
  fetched up to a date is the same after later sessions (`FetchedAgain`,
  `SameBarsSameRs`).

`SumsAndSeries` is there because an induction theorem with an operator as parameter cannot
be instantiated here. It states induction with a set of numbers, or of subsets, in the
operator's place; from that follow that a recursive function satisfies its equation and
that a sum over a finite set may be split, shifted and compared term by term, which is
all these proofs need of recursion. It also has what the three share about quotients,
about the items a filter leaves and about places in an order.

No module that is proved about, or that such a module uses, has a recursive operator.

Only model-checked: all liveness (`DayIsServed`, `EveryFetchReturns`, `FactorsCatchUp`,
`EveryRequestEnds`, `BackfillFinishes`), as the proof system handles neither fairness
nor ENABLED; and the six properties of `Studies` and `Shapes` (section 5, item 5). `TypeCorrect` is
proved in its modules and not listed in the runs.

## 5. What is left

Not modelled, in the order in which it would add most:

1. Strategy synchronisation beside `ScreeningRuns`: deletion of orphans while a request
   of another process creates a run of theirs.
2. The backfills of BSE prices, gaps and ISINs: the same loop as `LegacyBackfill` with
   other sources and a junction table.
3. The refresh gate with a Redis that may be down, and cached ratings beside changing
   bars. `PriceStore` has the fetches behind the gate, as unordered as a gate that fails
   open lets them be.
4. The market context and the statistics of a walk-forward report (Sharpe ratio,
   turnover, volatility): real arithmetic over series.
5. Theorems about the other calculations. `DatesCountOnce`,
   `BenchmarkStaysAligned`, `UnmaturedIsNoEvidence` and `ReportsAreTrue` are about
   filters, folds and sorts of sequences (`SelectSeq`, `FoldLeft`, `SortSeq`), which the
   provers know nothing of. What `Counts` and `ChartPatterns` compute
   (`CountsReadTheChart`, `FormationsAreDistinct`) is written with recursive operators
   and stays with TLC.

Not modelled and not planned: parsing of provider files, read-only queries and DTOs, the
web client, notebooks and one-off scripts, configuration and logging. They keep no state
of their own, or hand on what the modelled parts hold; a model would restate their text.
