# renquant-common in TLA+

`renquant-common` is the package the RenQuant repositories share: the job
pipeline with its parallel phase, guarded network calls and alarms, append-only
records of decisions and training runs, the identity of models, configurations
and cost parameters, the exchange calendar, the splitters, gates and selection
rules of walk-forward training, and the evaluators of what was trained. This
directory models the parts that keep state, run concurrently, decide by date or
depend on the order of a table; checks them with TLC on small instances; and
proves the main results with TLAPS. Paths below are relative to
`src/renquant_common/` of the repository.

## The system

| Part | State | Operations | What is hard | Status |
|---|---|---|---|---|
| `pipeline.py`, `run_parallel` | futures, work queue, worker threads, the local `pending` and `done`, the budget | submit, wait, collect, cancel, abandon, join | workers race with the cancel loop; hanging jobs; a `BaseException` in a worker | modelled |
| `pipeline.py`, `Task`/`Job`/`Pipeline` | position, step records | run a task, stop a job, skip a job, raise | what runs after a gate or a failed phase | modelled |
| `notify.py` | attempt, last exception, failure counter | `send` with retries | answers lost after the request was accepted; which errors are repeated | `send` modelled |
| `net_safety.py` | `FetchBudget.consumed`, one thread and one result box per call | `call_with_timeout`, `charge` | late answers, shared budgets, hanging calls | modelled |
| `decision_ledger.py` | SQLite table, open transactions, the write lock; `DEFAULT_DB` | `write_verdicts`, `connect` and its guard | a raise in the middle of `executemany`, competing writers, crashes; one path computed twice | modelled |
| `training_runs.py` | a table, on disk or in memory, and a JSONL file | `record_training_run` | a crash between the two stores, or after both | modelled |
| `registry/mlflow_registry.py` | the run's artifacts, the model's versions (on the server) | `log_artifact_with_meta`, `register_model`, `start_run`, `resolve_uri` | several requests that are not one transaction | the first two modelled |
| `model_fingerprint.py` | the payload, its stamp, the calibrator's binding, the schema version | `stamp`, `verify`, the 0.8.1 shims | tools that edit artifacts after training; unknown keys; schema bumps | modelled |
| `config_consistency.py` | the configuration, the stamp of the artifact | `fingerprint_config`, `assert_consistent` | configuration and artifact change independently; defaults, order, copies, unused entries, the benchmark | modelled |
| `market_calendar.py` | the exchange's calendar (external) | session lookups | exact closes, half days, holidays, time zones | lookups modelled |
| `walk_forward_fold_selection.py` | the campaign's manifest | eligibility, selection | strict bounds, business days against sessions | modelled |
| `walk_forward_splits.py` | none | `assign_split_column`, `verify_regime_coverage` | the same | the splitter modelled |
| `purged_cv.py` | none | two split generators, IC evaluation | panel positions against sessions | the generators modelled |
| `training_freshness.py` | none | the gate's verdict | holes at the boundary; one verdict for many folds | modelled |
| `cost_model.py` | the stamped parameters, a book, a run of periods | turnover, fills, net returns, the identity of the parameters | partial fills, vanished positions, edited parameters | modelled |
| `regime_labels.py`, `hmm_regime_labels.py`, `hurst.py` | a table of days | two labellers, IC per regime, the optimiser's objective | windows that fill up at different times; what a label may know | both labellers and the objective modelled |
| `stats.py`, `metrics/pbo.py` | none | two estimators of the probability of backtest overfitting | ranks of equal and undefined values; two ways to cut and to normalise | modelled |
| the rest of `stats.py`, `risk_metrics.py`, `metrics/` | none | floating-point statistics | numerics | not modelled |
| `row_coverage.py` | none | a row filter | a denominator | not modelled |
| `contracts/` | none | Pydantic schemas, an entry-point lookup, fixtures | none in time | not modelled |
| `pair_slug.py`, `calibrator_quality.py` | none | pure helpers | none in time | not modelled |

The parts interact in four places. A pipeline task calls `run_parallel` and lets
its exception propagate (`PhasedPipeline`). The calendar tells the data build
which session is over; the build fills the panel that the gate judges, the
trainers slice, the splitters cut and the selection rule reads back
(`WalkForward`). A calibrator is bound to the stamp of the artifact it was fitted
with (`ModelFingerprint`), and an artifact carries the stamp of the configuration
it was trained on (`ConfigConsistency`). The labels of the days decide what an
optimiser's objective is made of (`RegimeLabels`). The other parts meet only in
the callers' code, and in external stores: SQLite, the MLflow server, ntfy.

What makes each part correct is stated as properties below. PROJECT.json lists
the hazards, each at its line, with the properties aimed at it.

## The modules

| Module | Models | Notes |
|---|---|---|
| `ParallelPhase` | `run_parallel` and `_wrapped_run` | `pc` is the calling thread's place in the code, `fut` the state of each future, `holding` what each worker has taken off the queue |
| `PhaseBarrier` | what a phase promises | the abstract specification, reached by the mapping at the end of `ParallelPhase` |
| `PipelineRun` | `Pipeline.run`, `Job.run` | one action per outcome of a task or of `should_skip` |
| `PhasedPipeline` | the two together | extends the phase and has an instance of the pipeline; one task is the phase, its workers outlive it |
| `Notify` | `notify.send` | exceptions are classed as `_is_transient` classes them |
| `NetSafety` | `call_with_timeout`, `FetchBudget` | time in ticks; `Judge` and `Charge` are the two halves of `+=` |
| `DecisionLedger` | `write_verdicts` | one action per row `executemany` inserts; SQLite's lock, rollback and `OR IGNORE` are external |
| `LedgerAccess` | `connect`, `DEFAULT_DB`, the guard | a path is a file and a way to spell it; tests patch `HOME` and the attribute |
| `TrainingRuns` | `record_training_run` | one action per statement that touches a store |
| `MlflowRegistry` | `log_artifact_with_meta`, `register_model` | one action per request; each may fail |
| `ModelFingerprint` | schema v1 and the 0.8.1 hash | one representative key for every class of keys the four tables make; digests are injective |
| `ConfigConsistency` | the configuration's fingerprint and the start-up check | the maps and the watchlist in full, the scalar fields as one |
| `MarketCalendar` | the session lookups | moments are hours on the exchange's clock; a zone is an offset |
| `PurgedCV` | `PurgedKFold.split`, `CombinatorialPurgedCV.split` | operators on panel positions |
| `WalkForward` | gate, split, selection, in a campaign | extends the two above; the data build and the trainers are external |
| `RegimeLabels` | `compute_hmm_regime_labels`, the 9-grid, `per_regime_cs_ic`, `min_across_regimes` | one action: a session closes and both labellers run over the table; returns in whole percents, comparisons multiplied out and squared |
| `Overfitting` | `pbo_cscv`, `probability_of_backtest_overfitting` | a matrix of candidates is handed to both; Sharpe ratios compared exactly |
| `CostModel` | turnover, partial fills, net returns, the parameters' identity | a run of periods over a book, under parameters that somebody edits |

`MC*` modules give constants their values. `MCDecisionLedger`, `MCIdentity`,
`MCRegistry` and `MCEvaluation` check components side by side that read nothing of
each other: an instance of one runs while the others stay where they start, so
that their state spaces add up instead of multiplying. The modules ending in
`_proofs` hold theorems, one module for each group of components that a reader
would take together; `FiniteSetLemmas` holds what several of them need of finite
sets and sums. Where two modules with a specification of their own are reasoned
about in one place, the second prefixes its names (`RunsSpec`, `SendSpec`,
`CostSpec`). An operator whose comment begins with "Deviation" is not part of a
specification: it is the operator below it with a plausible bug, and each property
is known to fail when one of them takes the other's place.

### Correspondence worth knowing

* `executor.submit` queues the item before it starts a thread, so `SubmitFails`
  leaves the item queued; no `try` surrounds it, so the pool is not shut down.
* A worker takes an item (`Take`) and claims its future (`Begin`) in two steps:
  the cancel loop may come between them. `ShutdownAbandon` is
  `shutdown(wait=False, cancel_futures=True)` and reaches queued items only,
  which is why the loop before it matters.
* `late` is the fact that the clock has passed `started + timeout_seconds`.
  `WaitReturns` may return with nothing done, for the progress interval.
* `consumed += float(seconds)` reads, calls and writes; CPython may switch
  threads at the call. `_send_failures += 1` has no such point and is one step.
* A row of a batch is good, violates NOT NULL, is an unknown verdict, or cannot
  be bound. The last one raises inside `executemany`, and what was inserted
  stays in the open transaction, with the write lock.
* `DEFAULT_DB` is computed when the module is imported (`Import`), the path the
  guard protects when `connect` is called (`HomeLedger`). SQLite does not expand
  `~`; the guard does. `imported` remembers the default for the property.
* A trainer's death rolls back its transaction and takes its in-memory database
  with it (`memory`); the database file (`table`) and the log stay.
* `sorted(watchlist)` forgets the order and keeps the copies, so `Copies` is a
  bag. A configuration that is silent about a scalar field has its default, and one
  that names no benchmark has `Spy`. The benchmark is in the fingerprint only by its
  absence from the sector map, so that one which is not listed is not in it at all.
* `StampArtifact` writes `fingerprint_schema_version`, which the 0.8.1 denylist does
  not name: the shim's hash of a stamped payload is another one. What survives is
  the hash the audit path takes, without that field (`WithoutMigration`).
* A window of the first labeller ends before the day it labels
  (`rets[i - n:i]`, `Before`), its Hurst window and every rolling window of the
  grid include it (`UpTo`). The percentile of the grid counts the rows whose
  volatility is not known yet in its denominator, as `sum() / len()` does.
* `argsort(argsort(x))` is a rank with NaN last and ties by position
  (`Precedes`); `BestOf` is `nanargmax`.
* The clock of `WalkForward` stops at the hours at which somebody looks: at
  midnight, at the two possible closes exactly, and in the evening.

## The runs

| Run | States | Instance | Shows |
|---|---|---|---|
| `Pipeline` | 24 k | 4 jobs of 1, 3, 0 and 1 tasks, one of them a phase of 3 items on 2 workers (`cpu_count` 4), every outcome, a budget | the phase, and what follows it |
| `NetSafety` | 196 k | 2 callers, 3 calls, budget 4, timeout 3, floor 2, 2 threads | budget and late answers |
| `Notify` | 0.8 k | 3 sends of 3 attempts | results and the counter |
| `Ledger` | 28 k | 2 writers, 2 calls each, 5 batches; beside them one process and every path | transactions, and the guard |
| `LedgerGuard` | | the process and the paths | a violation, see Divergences |
| `Identity` | 499 k | 7 keys, 2 schema versions; beside them 2 edits and 2 trainings of a configuration with 4 benchmarks | identity of models and of configurations |
| `WatchlistSet` | | the same | a violation |
| `Registry` | 262 k | 2 clients, 3 uploads; beside them 2 trainers, 3 runs | partial failure, crash order |
| `WalkForward` | 104 k | 15 days, up to 2 of 3 holidays, 3 cutoffs, 5 zones | dates |
| `SplitEmbargo` | | the same | a violation |
| `Evaluation` | 8.5 k | every history of 6 days out of 4 returns; every matrix of 4 candidates out of 6 series; 3 periods of 2 symbols | labels, overfitting, costs |
| `OverfitRank` | | the same | a violation |

**Pipeline.** `ReturnMeansComplete`: a normal return means every item has a
result or a logged error. `RaiseNamesEveryOpenItem`: the error's stale `pending`
may name too many items, never too few. `NoStartAfterRaise`: no item starts
after the error, not even one a worker held when it was cancelled. `BarrierSpec`:
the phase, inside its pipeline, refines `PhaseBarrier`. `BudgetEnforced`: the
caller gets control back once the budget is spent, whatever hangs, unless a
`BaseException` sent it into the unbudgeted join. `DownstreamSeesWholeSet`: no
task after the phase follows a partial set. `ResultIsAudited`: the step records
name exactly the jobs that executed a task. `PipelineEnds`: when jobs end, so
does the pipeline, and a failed item does not stop its siblings. Two workers and
three items are the least with a queued, a held and a running item at once; the
phase stands second in its job, so that it can be skipped, reached after a gate,
and followed by a task and by jobs, one of which is empty.

**NetSafety.** `OwnAnswerOnly`: an abandoned thread's late answer never reaches
another call. `OvershootBelowFloor` and `ChargedInFull`: for one caller, the
overshoot stays below one second and every second is charged, timeouts included.
Neither is promised to threads that share a budget, and neither holds for them;
what does is `NeverOvercharged`. `CallerGetsBack`: `fn` may hang, its caller does
not. Three calls are enough for one that is abandoned, one that runs while the
first answers late, and one under the floor.

**Notify.** `TrueMeansDelivered`, `CounterMatchesLosses` (each lost alarm once;
attempts and suppressed sends do not count), `NoPostAfterPermanent` and
`EverySendReturns`.

**Ledger.** `BatchIsAtomic`: no row on record changes, and a batch becomes
visible as a whole, with one connection's transaction. `ReturnedIsOnRecord`:
after a return each good row's key is on record, under its own or an earlier
verdict. `IdleHoldsNoLock`: an idle connection blocks the others only after a row
it could not bind. `CountsOwnRows`: the count leaves out duplicates and what an
earlier call left behind. `GuardIsExact`: under the user's own home no test
reaches the live ledger by any spelling, and nobody else is refused anything. The
five batches hold a conflict, an ignored row, a refused and a half-inserted
batch; two calls per writer let each follow each.

**Identity.** `NoFalseMatch` and `NoFalseMismatch` relate what a verification says
to the content the calibrator was fitted with, through edits, re-stamps and a
schema bump. `LegacyIdentitySurvives` does the same for the 0.8.1 hash and the
denylist, with the re-stamp hashed as the audit path does. `StrictStartIsExact`: a
start passes exactly when the artifact is stamped, was trained on the panel the
live configuration describes (the set of tickers, which of them is the benchmark,
sectors, ETFs and settings), and each ticker is listed as often as then. The last
clause is the code's and not its documentation's (`WatchlistSet`). A benchmark
that is not listed may be exchanged for another such and the start passes: nothing
in the fingerprint depends on it, and the list of model-relevant fields does not
name it. One edit after a training and one before tell the two apart; the second
training is the artifact that gets restored.

**Registry.** For the only client of a run, `LoggedBundleIsOwn`: a log call that
returns has put its own pair in place, whatever failed before.
`RegistrationIsHonest` holds with other clients on the same name. `LineHasRow`:
the audit log of the training runs never runs ahead of the table. For a database
file that holds after any number of deaths; for an in-memory database, whose rows
are gone with the process while the lines stay, as long as the process lives.

**WalkForward.** `LookupsAgree`: the four lookups agree at every moment, and
`last_completed_session` names the same, right session from the exchange, from
zones west of it, from UTC and from fourteen hours ahead, except at the hours at
which the zone has tomorrow's date and the exchange is still open (`NotAhead`;
there it is wrong, see below). `SelectedFoldIsBlind`: a selected fold has trained
on no label realised today or later, as long as not more holidays lie in between
than it has slack: BDay counts holidays, as the docstring of
`safe_last_label_date` says, and the bounds on both sides are strict, which makes
up for one if the cutoff is a weekday, and for none if it lies on a weekend
(`Slack`; one cutoff of the instance is a Sunday). `SelectionNeverGoesBack`: as
days pass the choice never returns to an older fold, for any order of the
manifest. `SlicesAreWhole`: one verdict for the latest `data_end` is enough for
every fold of the campaign. `PurgedSplitsDoNotLeak`: label windows of training and
test rows never overlap on the exchange's calendar, although the panel lacks
sessions and the splitter counts panel dates. `SplitLeaksOnlyOverHolidays`: the
walk-forward cut leaks only across a holiday. Fifteen days hold two weekends with
holidays on either side of one (a Friday, a Tuesday and a Wednesday), half days,
and a label horizon and an embargo of two days that reach over them; a longer
horizon repeats the same cases. The recency check is off, as by default.

**Evaluation.** `LabelsIgnoreTheFuture`: the label a day was given when it was
the last is the label it has in every longer table, for both labellers and every
window and percentile. `WarmupIsNoEvidence`: the optimiser's objective does not
depend on what happened on a day on which a window of the grid was still open.
`EstimatorsAgree`: where the observations fill the slices, every Sharpe ratio is
defined and no two are equal, a split is overfit to `pbo_cscv` when at least half
of all candidates beat the winner out of sample, to `metrics/pbo.py` when at
least half of the others do, and for an even number of candidates that is the
same.
`EveryFillIsPaidOnce`: net returns carry the per-side cost of every unit that
moved and of no other, and no detour is cheaper than the direct way.
`VerifiedIsSame`: parameters verify exactly when they mean what the evidence was
produced with. Windows are days long instead of weeks (2 to 5), so that in six
days each fills, slides, and loses its first day; the thresholds are those of the
code, and the daily returns are a crash, a dip, a calm day and a rally, which
reach every label of the first labeller. Four slices are the fewest
`metrics/pbo.py` accepts; `pbo_cscv` would accept two. One candidate is flat over
half of them and the best over the rest.

Deadlock is checked in `LedgerGuard` only, whose process may always be patched.
Every other instance stops: at a bound of its cfg (`MaxSends`, `MaxCalls`,
`MaxRuns`, `MaxUploads`, `MaxEdits`, `LastDay`, `MaxDays`, `MaxPeriods`), after
the one matrix of a study, or when the pipeline is over.

### Fairness

* `PhasedSpec`: the main thread runs when it can, inside `run_parallel` and
  outside (tasks other than the phase return); a worker takes, claims and
  discards items when it can (`PoolFairness`). Both follow from the operating
  system's scheduling. A job may hang for ever and the clock need not reach the
  budget. `PipelineEnds` adds, as a hypothesis (`JobsEnd`), that every job that
  starts ends.
* `Notify`: sockets time out (`urlopen` is given a timeout) and sleeps end.
  Nobody is obliged to call `send`.
* `NetSafety`: the clock runs and callers are scheduled. `fn` is under no
  fairness at all.

The other specifications claim no liveness.

## Divergences between code and documentation

With a run that exhibits them:

* "There is no escape hatch: a pytest process must never open the production
  ledger" (`decision_ledger.py:64-65`). `DEFAULT_DB` is computed from `HOME` at
  the import (line 18), the path to protect at the call (line 75). When `HOME` is
  patched in between, a `connect()` without an argument, in a test, opens the live
  ledger (`LedgerGuard`).
* `assign_split_column` says that rows "whose LABEL window reaches into val
  period are EXCLUDED" (`walk_forward_splits.py:75`). Its embargo counts
  weekdays, the label sessions (`SplitEmbargo`). The default `cut1` has such
  rows: validation starts 2020-01-01, training ends before 2019-10-09, and the
  60th session after 2019-10-08 is 2020-01-03.
* `pbo_cscv` calls its rank the "fraction of OOS SRs <= best-IS's OOS SR"
  (`stats.py:156`). A winner that is the only candidate without a ratio out of
  sample gets rank N of N and counts as not overfit (`OverfitRank`);
  `metrics/pbo.py` leaves such a split out.
* `config_consistency.py` calls the watchlist a "set of tickers" (line 23) and a
  "Sorted set of tickers" (line 91). Copies are kept, so that a live watchlist that
  names a ticker twice refuses the artifact trained on the same set
  (`WatchlistSet`).

Read in the code and not given a run:

* `write_verdicts` says it returns "the number of new rows"
  (`decision_ledger.py:125`). After a call that raised in `executemany`, the next
  one commits that call's rows too and does not count them: `CountsOwnRows`
  states what holds.
* `PYTEST_CURRENT_TEST` is not set while pytest collects, so that the guard is
  off at import time of a test module.
* `last_completed_session` says "the most recent COMPLETED session as of `now`"
  (`market_calendar.py:327`). It takes the date in the moment's own zone and
  does not check the close of the day before: 04:00 in Tokyo names the New York
  session that is still open.
* `net_safety.py:121` says "Don't exceed remaining budget"; line 122 keeps a
  floor of one second. `OvershootBelowFloor` states what holds.
* `net_safety.py:109` says "Never raises"; `worker.start()` (line 139) is outside
  the `try`. The model has it as `StartThreadFails`.
* `notify.py:59-60` counts about 3 s of latency, which are the sleeps; each
  attempt may add its socket timeouts. `notify.py:266` logs the maximal number
  of attempts for a transient failure, however many were made.
* `registry/mlflow_registry.py:127-129` speaks of one bundle; it is two uploads.
* `purged_cv.py:9-10` gives `max(train_date) + lookahead < min(val_date)` as an
  invariant of every fold; k-fold trains on both sides of its test window. The
  theorem below states what holds.
* A worker's `BaseException` ends the loop, and the `finally` clause then joins
  the pool without a budget (`pipeline.py:216-218`).
* `cost_model.py:42-43` calls its results deterministic; `turnover_breakdown`
  adds floats in the order of a set (line 250), which differs between processes
  for string keys. A component of `-0.0` has another hash than one of `0.0`.
* The two estimators of backtest overfitting differ where the number of
  candidates is odd and the winner is the median, where a ratio is undefined, and
  in what they do with observations that do not fill a slice.
* `hmm_regime_labels.py` takes log returns (line 190) and compounds them as simple
  ones (line 203). The model does the same.
* The percentile of `regime_labels.py:58` divides by the length of the window,
  warm-up rows included, and the first 30 days of the other labeller count as
  `BULL_CALM` (`hmm_regime_labels.py:197`).

## The proofs

A theorem states every safety property and every action property that a passing
run checks, and the refinement. Each is proved from the named assumptions on the
constants alone, for every value they allow: any number of items, writers, days,
candidates, symbols, and any calendar, panel, matrix, table of returns or set of
payloads.

`Pipeline_proofs`. The phase, for any number of items and workers (zero included),
with or without a budget: `TypeOK`, `ReturnMeansComplete`,
`RaiseNamesEveryOpenItem`, `NoStartAfterRaise`, and that the phase implements
`PhaseBarrier`. None of these is inductive. `IInv` adds what each step relies on:
only submitted items have a future; a running item is held by a worker, and an
item off the queue is held or over; an item outside `pending` has ended (the local
variable lags behind the futures, never ahead); items in `done` are outside
`pending`; the cancel loop's work so far is reflected in the futures; and nothing
is cancelled except by the timeout path. The refinement is proved by its two
halves, initial states and steps, one case per action. The pipeline, for any list
of jobs and any place of the phase in it: the composition is a `PipelineRun` and a
`ParallelPhase` (`ComposesBoth`, by which the theorems above hold inside a
pipeline), `ResultIsAudited`, and `DownstreamSeesWholeSet`. The audit trail is
inductive once it is stated for a pipeline on its way: executions are in list order
up to the task at hand, the last one is the task before it, and the records so far
are true. That nothing overtakes the phase follows from one more conjunct, that a
running pipeline whose phase was called is at the phase or the phase has returned.

`Network_proofs`. For any number of callers and calls and any budget:
`OwnAnswerOnly`, `NeverOvercharged`, `ChargedInFull` and `OvershootBelowFloor`. The
invariant keeps every answer, in the box or read from it, with its call; says that
what a caller has read, and is about to write back or to charge, was spent by then;
and, for a caller that is alone, that the budget, the charge at hand and the time
spent add up. For any number of attempts and sends: `TrueMeansDelivered`,
`CounterMatchesLosses` and `NoPostAfterPermanent`; every send begun has been
counted once or is still under way, and a backoff follows a transient failure only.

`DecisionLedger_proofs`. For any number of writers and crashes and every set of
batches: `ReturnedIsOnRecord`, `IdleHoldsNoLock`, `BatchIsAtomic` and
`CountsOwnRows`. The promises of a return follow from what holds while
`executemany` runs: the good rows it is through with are on record for the
connection itself, in the ledger or in its open transaction. For the count, an open
transaction has the lock and shares nothing with the ledger, so that
`total_changes` grows with the transaction, and only the rows carried over from an
earlier call are to be subtracted. `GuardIsExact` holds at each `connect` by itself,
because what it says of a past one was recorded with it.

`Registry_proofs`. For any number of clients and uploads: `RegistrationIsHonest` (a
version number a client holds is that of a version it created) and
`LoggedBundleIsOwn` (a client that is alone finds its artifact in place between its
two uploads). For any number of trainers, runs and deaths: `LineHasRow`; the next id
is nowhere yet, the run at hand is known to its own connection only, and a row is
committed there before its line is considered.

`Identity_proofs`. For every set of values and tools and any number of edits,
re-stamps and schema bumps: `NoFalseMatch`, `NoFalseMismatch` and
`LegacyIdentitySurvives`. The invariant says what a stamp is, the digest under the
schema of its time of the content it was taken from, and that a binding repeats
such a stamp. For every set of tickers, benchmarks, sectors, maps and
watchlists: `StrictStartIsExact`. Its core is that two configurations have the same
fingerprint exactly when they show the same panel and list each ticker as often: the
listed tickers are recovered from the copies, the traded ones from the domain of the
sector map, and the used sectors from its range.

`WalkForward_proofs`. `LookupsAgree`, for every calendar and every moment: the
sessions that are over are those before the date, and the date's own after its
close, and each lookup is the latest of them among the days it looks at. The
campaign, for every calendar, horizon, embargo, gap and panel: the inductive
invariant (`CampaignInductive`) is that the panel's dates are sessions and that the
folds were cut from the very panel their gate has passed, which the build does not
touch afterwards. On it rest

* `SelectionNeverGoesBack`: eligibility is not lost, so the latest of the eligible
  is not either;
* `SlicesAreWhole`: in the window the gate has looked at, the first date from a day
  on follows one before that day, and is less than the gap away from it;
* `SplitLeaksOnlyOverHolidays` and `SelectedFoldIsBlind`: n weekdays of which none
  is a holiday are n sessions, so that a label of that horizon is known
  (`LabelIsKnown`); a cutoff that is a weekday is one more of them. That
  `d + BDay(n)` and `d - BDay(n)` exist among the days the operators look at is
  proved by induction on n, with a bound on their distance that allows for
  weekends;
* `PurgedSplitsDoNotLeak`: `TrainKeepsItsDistance` shows, for panels of any length
  and any choice of test groups, that a training date keeps the lookahead before a
  test date and the embargo after it, in positions of the panel; and between two
  dates of the panel lie at least as many sessions as dates. `NoPurgedSplitLeaks`
  states it for any number of folds and any choice of test groups, where the run
  has two to four folds.

`Evaluation_proofs`. `LabelsIgnoreTheFuture` and `WarmupIsNoEvidence`, for tables
of any length, any windows and percentiles: a label reads the table's prefix only,
window by window, and the objective reads days whose windows are all full.
`EstimatorsAgree`, for any matrix: sums of observations over chunks and over slices
are the same sums when the slices are equal, comparing ratios is a strict order,
and the rank by two `argsort`s is then the number of those that are beaten.
`EveryFillIsPaidOnce` and `VerifiedIsSame`, for any number of symbols, periods and
partial fills: buying and selling add up to the size of the move, the costs of a
run are linear in what was traded, and the sizes of moves obey the triangle
inequality (the invariant of a run says that what was moved is what was traded, and
reaches the book).

`FiniteSetLemmas`. The library's induction theorems take a predicate as a parameter,
which no installed prover can instantiate. The lemmas here state induction of a set
of good sets (or numbers) instead, and get it from a least counterexample: a least
number that is not good, a smallest set that is not. With it go the existence of
extremes and of ranks, and the algebra of `SumFunctionOnSet` (it depends on the
values only; linear, monotone, additive), which starts from the existence and
uniqueness of the function its recursion defines.

The proofs made four preconditions of the properties and of the models explicit.
`LookupsAgree` excepts the hours of `NotAhead`. `SelectedFoldIsBlind` counts the
slack of the cutoff's own day: with a weekend cutoff a single holiday is one too
many. `EstimatorsAgree` asks for slices of one length and says what an odd number of
candidates does. `VerifiedIsSame` assumes that the stamped parameters were accepted
when they were stamped (`StampAssumption`). The other assumptions of the evaluators
are facts of the code: finitely many symbols; windows of at least two days where a
deviation is taken; a middle window no longer than the minimal history (20 and 30
days); returns above -100 percent.

Model-checked only: the liveness properties (`BudgetEnforced`, `PipelineEnds`,
`EverySendReturns`, `CallerGetsBack`), which need ENABLED and fairness and are out
of the prover's reach; and the four violations, which are counterexamples.

## What is abstracted

Logging, messages and progress lines; the content of payloads, rows and artifacts
beyond what the properties tell apart; digests (taken as injective); rounding,
overflow and non-finite values of floats in the labels, the ratios and the costs,
which are computed exactly; daylight saving time; `session_keys`, the vectorised
`session_key`; the ALWAYS_OPEN variants of the lookups other than
`last_completed_session`; the cache of `NyseSessionCalendar` (the calendar does
not change); resolution of topics and encoding of headers (they can fail, and that
is modelled); Ctrl-C and other exceptions injected into the calling thread.

## Not modelled

* `contracts/`, `pair_slug.py`, `calibrator_quality.py`, `row_coverage.py`:
  declarations and single comparisons without steps or state.
* `risk_metrics.py`, `hurst.py`, the rest of `stats.py` and of `metrics/`:
  logarithms, roots and quantiles of floats, without control flow that a model
  could get wrong in another way than the code.
* The legacy version of the first labeller and its summary of ICs; the
  evaluation of ICs in `purged_cv.py`; `verify_regime_coverage`, which reads a
  price file and reports on it.
* `start_run` and `resolve_uri`, which keep no state of their own;
  `truncate_body`, `encode_header` and `resolve_topic`.

## Plan

Done: the phase and its barrier, the pipeline around it, the two guarded network
paths, the two stores and the guard, the registry, the identities, the calendar
with the walk-forward campaign, the evaluators; and the proofs of all their safety
properties.

Left, in the order of what they would add: theorems on what stands behind the
liveness properties and needs no fairness (a caller that waits has a deadline ahead
of it, a retry loop has a bound it gets closer to, a phase on its way out waits for
nothing but its workers); purged splits whose embargo is not their lookahead; the
session cache of `market_calendar.py` under a calendar that is extended; the
ALWAYS_OPEN variants.
