# Verification of the predictive scaling system

TLA+ models of the parts of this repository that keep state across calls, threads
or processes, the TLC runs that check them on small instances, and theorems about
them checked by TLAPS. Paths are relative to the repository root; the scaler is
`scaler/predictive_scaler`.

## 1. The system

KEDA polls the **scaler** (gRPC, `scaler/`) for every ScaledObject. For each poll
the scaler reads the history of the workload's demand from Prometheus, asks
**forecast-serving** (HTTP, `serving/`) for the next values, and reports the number
KEDA divides by the target. **Training** (`training/`) registers models in MLflow and
moves an alias to the best one; forecast-serving follows the alias. A **trigger**
(`training/forecast_training/trigger.py`) starts training Jobs from Alertmanager
alerts.

| component | state | operations | talks to |
|---|---|---|---|
| gRPC server (`server.py`) | 10 worker threads, `stop_event` | IsActive, GetMetrics, GetMetricSpec, StreamIsActive, shutdown | engine |
| engine (`engine.py`) | decision cache, registries of breakers | `decide`, `_compute`, `_forecast`, `_channels` | everything below, Prometheus, forecast-serving |
| forecast-service breaker (`smoothing.py`) | per key: state, failures, probing, opened_at | `admit`, `success`, `failure` | called by the engine around the HTTP call |
| anomaly breaker (`breaker.py`) | per key: state, hold, hot counters, calm polls, residuals | `observe` | called by the engine once per poll, no lock |
| forecast ledger (`quality.py`) | per key: deque of pending forecasts | `score`, `record` | called by the engine before and after the forecast |
| EWMA, spike gate (`smoothing.py`) | per key: S_t, updated_at | `update`; the gate is a function | engine |
| capacity resolver (`capacity.py`) | per key: last reference, warned | `resolve` | Prometheus |
| configuration, metrics (`config.py`, `metrics.py`) | none of their own | `parse_metadata` | all |
| clients (`clients.py`) | none of their own | `fetch_history`, `query_scalar`, `predict` | Prometheus, forecast-serving |
| model store (`serving/app.py`) | model and version in memory, disk cache, readiness | load, refresh, predict, lifecycle worker | MLflow, disk |
| request validation (`serving/app.py`) | none | `PredictRequest`, `prepare_channels`, `prepare_input` | scaler |
| forecast tracker (`serving/quality.py`) | pending forecasts and errors per series, in memory or Redis | record, reset | Redis, metrics |
| training (`data.py`, `features.py`, `model.py`) | none | grid, windows, candidates, scores | Prometheus |
| training pipeline (`training/.../registry.py`) | MLflow versions, tags, alias | register, gate, promote | MLflow |
| retrain trigger (`training/.../trigger.py`) | its Jobs | `handle_alerts` | Kubernetes, Alertmanager, Prometheus |

### What is hard here, and what makes each part correct

* **Threads.** Ten workers serve KEDA; the decision cache does not serialise the
  polls of one ScaledObject (two misses compute at once). Everything the engine calls
  is therefore entered concurrently: the service breaker and the ledger hold a lock
  per call, but a poll makes several calls and reads the clock before the lock; the
  anomaly breaker and the dictionary it is kept in have no lock.
  *Service breaker*: one probe at a time, only the probe decides, a healthy service is
  used again. *Anomaly breaker*: holds are served, the forecast comes back only after
  calm polls. *Ledger*: nothing scored twice, one forecast per instant, bounded.
  *Dictionaries, capacity*: no ScaledObject costs another its breaker, and the capacity in
  use comes to be the workload's. *Server*: every poll gets a thread.
* **Failure.** Prometheus, forecast-serving, MLflow and Redis come and go; calls
  time out; a reply may arrive after the state it was asked in is gone. Training pods fail,
  are replaced, and reach their deadline. *Model store*: the pod comes to serve the alias.
  *Trigger*: an alert that goes on gets its Job.
* **Order.** Histories, capacities and decisions of overlapping polls are stored in
  any order; so are records of requests in forecast-serving, and the alias moves of training
  runs that overlap. *Tracker*: an error is the model's that made it and counts once.
  *Promotion*: the champion is compared on data it has not seen, and is not replaced by worse.
* **Crash and restart.** Only forecast-serving (disk cache) and training (registry)
  persist anything; the scaler restarts with empty state.
* **Boundaries.** Tolerances of a quarter step, holds that double up to a limit,
  queues of fixed length; indices of windows, lags, holdouts and grid slots, where being off by
  one trains on the target or compares on what was learnt; two validations of one request.

`PROJECT.json` lists every hazard at its line with the property that covers it, or
why none does.

## 2. Plan

| | module | abstract specification | status |
|---|---|---|---|
| A | `ServiceBreaker` | | checked, proved |
| B | `AnomalyBreaker` | `TrustGate` | checked, refinement proved |
| C | `ForecastLedger` | | checked, proved |
| D | `Engine`: decision cache, cap, EWMA, decision rule | | checked, proved |
| D' | `SpikeGate`: the gate's loop | the documented verdict | checked, proved |
| E | `Scaler`: threads and streams, capacity references, the dictionaries of breakers | | checked, proved |
| E' | `Requests`: a request from the metadata to serving's validation | who is refused | checked, proved |
| F | `ModelStore`: startup, load, swap, disk cache, crash, lifecycle worker | | checked, proved |
| G | `RedisQuality`: replicas, Redis, model swaps | | checked, proved |
| G' | `ForecastTracker`: the backend in memory | | checked, proved |
| H | `Promotion`: training runs that overlap and end anywhere | | checked with I, proved |
| I | `RetrainTrigger`: alerts and Jobs; `Retraining` composes H and I | `Promotion` | checked, refinement proved |
| J | `Grid`, `Windows`, `Scoring`: indices, exclusions, costs, ranking | definitions by sets | checked, proved |
| K | `Algorithms` composes D', E' and J: each computation on every case of a set | | checked, proved |

The order is the order of a decision: A, B and C are what a poll passes through and
where threads meet; D is the poll itself (its polls are the callers of A, the pollers
of B and C, whose verdicts it takes as they come); E is the process around the polls of all
ScaledObjects; F to J are the slower loop that renews the model and measures it. A run answers
one question. Every invariant and every action property of a passing run is also a theorem;
what only the runs show is liveness.

## 3. The modules

Every module states what it abstracts in its header. Steps are the stretches of code
between two points where another thread, a reply or a tick of time can intervene:
a lock held, or, where there is no lock, code without a call (CPython switches threads
at calls).

### ServiceBreaker

One key of `ServiceBreaker` and the part of the engine around it. A caller goes
through `idle -> admitting -> (fetching ->) calling -> succeeding | failing -> idle`.

| action | code |
|---|---|
| `ReadClock` | `admit`, `now = self._clock()` before the lock |
| `AdmitClosed`, `AdmitProbe`, `Deny` | `admit` under the lock, its four ways out |
| `ChannelsRead`, `ChannelsFail` | `_channels` in `_forecast`, before the `try` |
| `Answer`, `Fail` | the call to forecast-serving |
| `Success`, `Failure` | `success`, `failure` under the lock |
| `Tick`, `HealthChange` | the clock; the service going down and coming back |

Time is kept as ages, so that it needs no bound: `held` since `opened_at`, `lag[c]`
since the caller's last reading, `age[c]` since admission. The failure count is counted
up to `Failures`; beyond that the code compares it with nothing.

*Properties.* `ProbeAlone`, `ProbeInFlight`, `ProbeDecides`, `Recovers`, `HalfOpenEnds`.
The last has an exception, `ProbeLost`: a probe handed out to a poll whose channel query then
fails is never reported. Nothing is said of the hold itself, because a success that was on its
way when the breaker opened ends it. Both disagree with the documentation and are findings.

### AnomalyBreaker and TrustGate

`CircuitBreaker.observe` of one key. Of the residual z-score, the level ratio and the
jump the model keeps what `observe` compares them with (`Z`, `Level`, a boolean). The
steps of a poll are `Residual` (count), `Signals` (judge the residual, count and
judge the level, judge the jump), `ReadClock`, the transition (`Trip`, `StayOpen`,
`Probation`, `UseForecast`), and after the `abs(z)` of the half-open branch `StayHalfOpen`
or `Close`. Counters and state are shared between polls. What a poll compares with
`opened_at` or writes into it is its own reading of the clock, up to `Lag` ticks old
(`late`): of two trips the later write may carry the earlier reading, so the model keeps
the age of `opened_at` (`held`) and that of the last trip (`quiet`, history) apart. Left out
of the interleaving: the `min()` inside `_trip`, where a switch can only leave the longer of
two holds.

`TrustGate` is the promise: evidence stops the use of the forecast at once, and it is
used again only `Hold` ticks after the last evidence and after `Needed` calm polls in a
row. `KeepsTrustGate` maps `trusted` to `state = CLOSED` and `assents` to the calm polls of a
half-open breaker; `quiet` is the time since the last trip itself, and the `Hold` that can be
promised from there is `MinOpen - Lag`. `HoldServed` speaks of the hold the code counts, from
`opened_at`.

The promise needs `FewPollers`: no more polls of one ScaledObject in `observe` at once
than `calm_polls`. A poll that has seen HALF_OPEN still counts itself after another
poll's trip, and closes the breaker if that is enough, as with `breakerCalmPolls=1`, which
`config.py` accepts: two overlapping polls then go from OPEN to CLOSED.

### ForecastLedger

One key of `ForecastLedger` and the polls that fetch, score and record. `Fetch` is
`fetch_history`: the query is evaluated every step back from the poll's clock (`Evaluated`), any
of these instants may have no sample, and the grid is anchored at the newest that has one. A
history is that instant and the set of instants with a sample. The deque is a function from
arrival numbers to forecasts. A forecast is the instant it was made for, the steps not
yet struck out (`left`), and a history variable `scored`. `Evict` is another
ScaledObject's `record` at `max_series`. `PollsAreQuick` (a poll records within a
quarter step of its fetch) is what `record`'s comparison with the newest record relies
on; `OnePerInstant` is proved from it, the other properties hold without it. It speaks of the
forecasts recorded since a window was last moved back by a missing newest sample (`moved`, history):
polls that record 300 and 450 and then, without a sample at 610, 310 leave 300 and 310 pending
together, which is a finding.

### SpikeGate

`spike_gate` of `smoothing.py` as the loop that computes it: `Inactive` (the early
returns), `Step` (one turn of the loop), `Judge` (the verdict). `Judged` is the module
documentation's definition, by windows of the horizon; the loop keeps only the current
and the longest run.

### Engine

One ScaledObject with one configuration. A poll goes through `idle -> looking ->
fetching -> (calling -> (smoothing ->)) storing -> idle`.

| action | code |
|---|---|
| `Begin`, `Hit`, `Miss` | `decide`: the clock before the lock, the cache under it |
| `Raise` | the exceptions of `_compute`: Prometheus, no samples, a channel, no finite newest sample |
| `History` | `_compute` up to the forecast, with the ways around it (window, service breaker) |
| `Refuse` | a failed call; a forecast bypassed by the anomaly breaker or suppressed by the gate |
| `Accept`, `Smooth` | the surge cap; `EwmaSmoother.update` (clock, lock) and the decision rule |
| `Store` | the cache under the lock; the answer |
| `Tick`, `DemandChange` | the clock; the workload |

An answer is what the next step of a poll may give KEDA (`Cached`, `Computed`). The
smoother's `updated` is the code's time of the last update, counted from a reading that
may be older than the update; `since`, `peak` and `capped` are history: when the last
update really was, the largest demand behind the EWMA, and whether the cap applied to
all of it. `SurgeBound` is what the cap does promise. The documentation's bound, factor times
the demand just observed, does not hold: a value capped at a higher demand is still in the
EWMA when demand has fallen.

### ModelStore

One pod of forecast-serving and the disk its containers share. Three activities of one
event loop, each with its awaits between steps, and the registry around them:

| action | code |
|---|---|
| `Resolve`, `Download`, `Swap` | `_load_from_registry_flight`: `resolve_version`, `fetch_bundle` and `warm_up` in a thread, `install` under the lock |
| `Clear`, `Save`, `Park`, `Place`, `Sweep`, `WriteFails` | `write_cache`, by file operations, and its failure, which is only logged |
| `Start`, `StartLoaded`, `GiveUp` | `startup_load` until its wait ends, by the load's success, its failure or the timeout |
| `ReadInfo`, `ReadModel`, `Offer` | `load_from_cache_async`: `read_cache` in a thread, then the check and `install` under the lock |
| `Retry`, `Refresh`, `Sleep` | `lifecycle_worker` without and with a model |
| `Crash`, `RegistryChange` | the process ends (the disk stays); alias and outages |

A bundle is a pair of versions: the one whose run, scalers and metadata it has, and the
one its model is. They are fetched by different names (`fetch_bundle` uses the alias a
second time for the model), and in `read_cache` they are read from different files. A
version in `Unusable` fails validation or the warm-up. Left out: the legacy stage
(`MODEL_STAGE`), the gauges, intervals of 0 (the worker then stops), the synchronous
entry points, which only tests and tooling use, and failing reads of a disk that is whole.

*Properties.* `CacheIsKnownGood`, `CacheKeepsServed`, `RegistryWins`, and, live,
`FollowsAlias` and `CacheServes`, which promise that the pod is ready (`Ready`, `/readyz`). No
property says that the two versions of a bundle are the same: the second use of the alias may
pair a new model with old scalers, which is a finding.

### RedisQuality

The series of one ScaledObject in Redis, the pods of forecast-serving that score it, and the
requests they serve. A request goes through
`idle -> recording -> preparing -> claiming -> answered -> idle`.

| action | code |
|---|---|
| `Predict` | `predict` up to the call of `record` in the quality pool: the bundle, the window |
| `Skip`, `FindClaims` | `record`, first lock and cooldown; `_find_claims`, the first round trip |
| `Prepare` | `_execute` until the pipeline is sent: `_current_version` and the windows to read |
| `Claim` | one run of the script `_CLAIM_AND_PUSH`, which Redis executes alone |
| `Store`, `Answered` | the rest of the pipeline (SET NX); the replies, histogram and gauges |
| `Fail`, `Cool` | `_failed` after a failed round trip or a lost reply; the end of the cooldown |
| `Swap`, `Adopt` | `install` with `reset`, before and under the tracker's lock |
| `Restart`, `Tick` | a pod is replaced; the next sample |

The pipelines are not transactions: the scripts of two pods alternate in any order, and a
failure may leave any part of a pipeline executed. Two things are one step that are more in
the code: the check of the cooldown and the first round trip, and the reads of that round
trip. Forecasts are written once and claims only grow, so reads at different times find what
some later read finds or pairs that the script refuses. Instants lie on the grid of the series,
so the probing of neighbouring quanta is an equality; keys do not expire, since windows are much
shorter than 24 hours. `counted` is a history variable for the histograms, `shows` the
gauges a request is going to set.

*Properties.* `ScoredOnce`, `CountedOnce`, `OwnWindows`. A pair claimed by a request whose
reply is lost is in its window and in no histogram; that is why `CountedOnce` says at most.
*Disagreement with a comment*: `GaugesFollow` (a record in flight moves a gauge back).

### ForecastTracker

The in-memory tracker of one pod. A request reads the model once (`Begin`) and its forecast is
recorded by a thread of the quality pool (`Record`, the whole of `record` under its lock: the
queue of the series, `_resolve`, `_expire`, one forecast per instant), in any order with those
of other requests; `InstallBundle` and `Reset` are the two steps of a swap. Series beyond
`max_series` evict the one least recently used, queues are cut at `max_pending`. Windows hold
every instant, as `prepare_input` makes sure, and what an error amounts to plays no role.

*Properties.* `OwnForecasts`; `CountedOnce`, for series whose records come in order of their
instants. Without that condition it does not hold: `record` compares with the last forecast only.

### Scaler

The process around the decisions: KEDA's calls, the queue in front of the pool of threads, and
what the polls of all ScaledObjects share by key.

| action | code |
|---|---|
| `Call`, `Disconnect` | KEDA calls; the client of a stream goes |
| `Start`, `AnswerAtOnce`, `Wake` | a thread takes a call; what needs no engine; `StreamIsActive`'s loop |
| `DecisionCached`, `CapacityHit`, `CapacityMiss` | `decide`'s cache or an error; `CapacityResolver.resolve` up to the query |
| `Ask`, `Fallback`, `CapacityStore` | the query; its failure; the answer under the lock |
| `Look`, `CopyFails`, `Assign`, `Insert`, `Lost` | `_breaker`: look-up, comprehension, assignment, insertion, look-up |
| `Answer` | `_service_breaker` under its lock, and the answer |
| `Reconfigure`, `Resize` | the ScaledObject is changed; the workload's limits are |

A capacity reference is the configuration whose query it answers and the size the workload had
when it did. Whether a reference is fresh is free once there is one (`Fresh`), since the time
between two polls is. `_breaker` has no lock: its copy, its assignment and its insertion are
steps of their own, and a dictionary that grows under the comprehension raises.

*Properties.* `ServiceKept`; live, `Answered` and `CapacityArrives`. *Disagreement with a
comment*: `BreakerKept`, which the run `scaler_race` refutes.

### Promotion, RetrainTrigger, Retraining

`Promotion` is `run_pipeline`: `Train` (candidates and baseline), `Resolve` (the version behind the
alias and its tags, or no champion, which is also what a lookup that fails for any reason is taken
for), `Decide` (the model is fetched by the alias, whatever that is by now, and metadata that cannot
be fetched is taken for `LEGACY_META`; channels, tracking, fresh windows, costs), `Register`,
`MoveAlias`, `Tag`, and `Leave` between any two calls. A model has one cost on data it was not
fitted on and may look any better on data it was; points are counted, costs are small numbers, the
improvement asked for is in percent.

`RetrainTrigger` is `handle_alerts`: `Webhook` (the list of Jobs, in a thread of its own) and
`CreateJob` or `CreateFails` are apart, because the code asks Kubernetes and Prometheus in between.
Kubernetes' part is external: `Schedule` of the CronJob (Forbid), `StartPod`, `PodSucceeds`,
`PodFails` (backoff), `Deadline`. A Job between two pods, or without a status yet, is neither
active nor finished, as `recent_or_active` sees it.

`Retraining` composes the two: a pod of a Job is a training run, its process' end is the pod's.

*Properties.* `Fair`: the windows of a comparison lie after the last point either model was
fitted on, however the run that wrote the tag ended (a champion without its tag is compared all the
same, and the code says so in its reason). `BeatsCompared`: after a comparison with the champion's own
model under its own contract, the alias moves only to a model better than that champion, or to one of
other channels, also when another run has moved the alias meanwhile. That the model it replaces then
may be a better one, and that a lookup that fails or a bundle of two models lets a worse one through,
are findings. `AlertAnswered`, live.

### Windows, Grid, Scoring, Requests, composed in Algorithms

Functions, written as operators over indices and numbers. `Algorithms` puts them and the loop of
`SpikeGate` together: its constants are sets of cases (`Trainings`, `Comparisons`, `Polls` and so
on), of which `CasesAssumption` says what the program's own inputs are; `CaseInit` chooses one,
and only the gate's loop has steps (`CaseSpec`). `AlgorithmsMC` gives it small sets; the theorems
hold for all.

* `Windows` (features.py, model.py, registry.py): the rows `make_windows` cuts, the columns
  `seasonal_lags` reads, which candidates `train_and_select` skips, which rows
  `holdout_windows` scores, how many windows `_decide` counts. `SeasonAligned`: the lags of a row
  are its last sample and its targets, one season earlier. `SameHoldout`: what is trained is
  trained before all that is scored, on the same stretches. `FreshCount`: the windows counted
  are there for both models, and are the same when their horizons are equal.
* `Grid` (data.py, trigger.py): the chunks of a query, the slots stamps are rounded to (half
  to even), exclusions, the slots a value is filled from, the ranges in which the scaler's
  breaker was seen open, joined over gaps of up to 1.5 steps of the query, and none when Prometheus
  does not answer (`Exclusions`). `OpenNeverUsed`: once Prometheus has answered, no value, filled ones
  included, comes from a sample of an episode, and no instant is left out that is further from an
  episode than the padding. `GridsAgree`: channels queried at different instants share their grid.
* `Scoring` (model.py): cost, level tracking, ranking, for candidates that are trees with one
  split. `CostCovers`: what costs least is the w/(1+w) quantile the documentation says.
  `WinnerFollows`: a model that cannot leave its training range never wins over one that can, and
  the winner costs no more than the baseline if a candidate that forecasts no change takes part.
* `Requests` (config.py, clients.py, engine.py, app.py): the metadata that is accepted, the grid
  and the holes of a history, when the scaler asks for a forecast and with which rows, what
  serving's validators refuse and what the breaker is told. `Answered`: with metadata written for
  the model, only a channel without a sample or with a hole inside the window is refused.

## 4. The runs

| run | instance | states | shows |
|---|---|---|---|
| `service_breaker` | 3 callers, 2 failures, hold 5, call 2, lag 1 | 384,646 | safety, end of half-open, recovery |
| `anomaly_breaker` | 2 pollers, 2 level polls, 2 calm polls, holds 2..4, lag 1 | 1,052,000 | safety, refinement, recovery |
| `forecast_ledger` | 2 polls, horizon 2, history 3, queue 3, time 8, 4 arrivals | 2,273,693 | scoring, distinct instants |
| `engine` | 2 polls, demand 0..1, forecasts 0..2, cache 2, EWMA age 1, poll 2 | 957,604 | safety, freshness |
| `scaler` | 2 ScaledObjects, a poll and two streams, 2 threads, 1 change | 431,388 | dictionaries, capacity, threads |
| `scaler_race` | the same, without changes | | `BreakerKept` fails |
| `model_store` | 2 usable versions, 1 that cannot forecast | 217,134 | safety, convergence, cache |
| `forecast_tracker` | 2 series with room for one, 2 requests, horizon 2, queue 2, 4 instants, 2 versions | 370,000 | attribution, scoring |
| `redis_quality` | 2 pods with a request each, 2 versions, horizon 1, window 2, rolling window 1, 3 instants | 1,925,972 | scoring, attribution |
| `redis_quality_gauge` | the same, with gauges | | `GaugesFollow` fails |
| `retraining` | a Job of each kind, 2 costs, 2 channel lists, 4 points of which 2 held out, 2 versions, legacy contract `cpu` | 1,657,680 | promotion, alerts |
| `algorithms` | the cases of `AlgorithmsMC` | 238,235 | the functions |

*Bounds.* Three callers are a probe, a late call and one turned away; two failures make a count that
is neither zero nor the budget. Hold 5 is the smallest that outlasts a call of 2 with readings of
lag 1 (`HoldOutlastsCalls`). Holds from 2 to 4 double once and no more, and a lag of 1 lets two
trips write their readings in the wrong order. In the ledger a step of 3 ticks with tolerance 1 has
instants within and beyond the tolerance of each other, the queue of 3 holds two forecasts around
one from a window moved back and overflows at the fourth arrival, and 8 ticks let a forecast be
made, scored in part, struck out and dropped; `MaxTime` and `MaxArrivals` (in one life of the deque)
are the only bounds on behaviour, and the theorems do not have them in their argument. Horizons of
five steps hold two runs separated by a step that does not rise, at either end; demands 0 to 3 with
target 2 round up twice. In the engine one demand that is zero and one that is not, and forecasts on
both sides of the cap, are enough for every branch of the rule; a poll of 2 with a cache of 2 stores
decisions that have expired, and an EWMA age of 1 expires between two polls. In the model store two
usable versions let an alias move between two good models and back, a third is rejected by the
warm-up; nothing else is bounded. In Redis two pods with a request each race for a pair with equal
and different versions, a window of two samples shows a target to two requests, and a rolling window
of one overflows at the second error; pods (with their requests) and versions are symmetric. In the
tracker two series compete for one place, so that a queue is evicted and comes back; a queue of two
overflows, and two requests under way at a swap record before and after it. In the scaler one more
thread than open streams is the least that `Answered` needs; three calls are two that race for a
dictionary and one that is in its way, and one change is a change of the query or of the workload,
each against answers asked before it. In `Retraining` the baseline admits both costs, one of the two
Jobs asks for an improvement that one cost has over the other and one asks for none; of four points
two are fitted on and two held out, so that a champion's end may lie before, at and after a split, a
third version cannot appear after two runs have compared, and the legacy contract is one of the two
lists of channels, so that lost metadata both matches and does not. The sets of cases of
`AlgorithmsMC` hold series up to 13 samples, periods below and above the horizon and the training
part, steps of 2 and 3 with lags of every residue, a breaker asked at every instant and at every
second one (so that sightings are joined over an instant between them, and not over three), all
subsets of holes in a channel of four samples, and every metadata key at, below and above its
limits. `Failures`, `LevelShiftPolls` and the like are the code's own constants.

*Fairness.* `ServiceBreaker`: time passes and each caller that can move moves (KEDA
polls for ever; threads are scheduled); nothing is assumed of the service: `Recovers` is
conditional on it being healthy for good. `AnomalyBreaker`: polls finish, and every
thread again and again brings a calm residual; that is the code's situation while the
forecast service answers, because forecasts are recorded and scored also when the
breaker is open. Without residuals a raised `hot_residual` keeps the breaker half-open.
`Engine`: polls begin again and again and end (KEDA polls; every call has a timeout), and
time passes. They may fail for ever: `CatchesUp` only says that stale answers die out.
`ModelStore`: loads, the startup and the worker go on (asyncio schedules them, registry calls
have timeouts); nothing is assumed of the registry, of writes to the disk or of crashes:
`FollowsAlias` and `CacheServes` are conditional on the registry, or the copy on disk, and the
process staying.
`Scaler`: KEDA polls again and again, threads run, every wait has a timeout; Prometheus answers
some time and references expire some time (strong fairness: the polls in which they do come
again and again). Streams need not end, nor new ones begin. `Retraining`: Alertmanager repeats a
notification while the alert fires, the Kubernetes API answers some time, Jobs have a deadline
(`activeDeadlineSeconds`); nothing is assumed of the training runs.
`ForecastLedger`, `ForecastTracker` and `RedisQuality` have no liveness property (a pod whose
Redis is down scores nothing, which is what it promises).

*Type invariants.* Every module with variables states one (`TypeOK`, `ScalerTypeOK`,
`TrackerTypeOK`, `TriggerTypeOK`). Each is a theorem, so the runs spend their time on what could be
wrong; only `Algorithms`, whose one variable never changes, and the abstract `TrustGate` have none
of their own.

*Deadlock* is checked in every run but three: `algorithms` is functions that return, and the
bounds on time and versions end the behaviours of `forecast_tracker` and `retraining`.

## 5. The proofs

| module | theorems |
|---|---|
| `ServiceBreakerProofs` | `TypeCorrect`, `HalfOpenMeansProbing`, `OneProbeAtATime`, `AProbeIsOut`, `OnlyTheProbeDecides` |
| `AnomalyBreakerProofs` | `TypeCorrect`, `HoldsAreServed`, `ImplementsTrustGate` |
| `ForecastLedgerProofs` | `TypeCorrect`, `StepsAreScoredOnce`, `SpentForecastsLeave`, `OneForecastPerInstant` |
| `AlgorithmsProofs` | of `SpikeGate`: `TypeCorrect`, `VerdictIsDocumented`; of `Windows`: `LagsAreAligned`, `HoldoutIsShared`, `FreshIsThere`; of `Scoring`: `CheapestIsQuantile`, `FollowerWins`; of `Grid`: `EpisodesStayOut`, `GridsOfChannelsAgree`, `ChunksCover`; of `Requests`: `RequestsAreAnswered`; of `Algorithms`: `CasesAreAligned`, `CasesShareHoldout`, `CasesAreFresh`, `CasesStayOut`, `CasesAgree`, `CasesCover`, `CasesFollow`, `CasesAreAnswered`, `CasesAreJudged` |
| `EngineProofs` | of `Engine`: `TypeCorrect`, `AnswersCoverDemand`, `SurgesAreBounded`, `StaleStateIsReplaced`; of `Scaler`: `ScalerTypeCorrect`, `ServicesAreKept`, `ServiceBreakersAreSingle`, `PoolIsNeverLocked`, `StreamsFollowConfig` |
| `ModelStoreProofs` | of `ModelStore`: `TypeCorrect`, `CacheCorrect`, `CacheWrites`, `RegistryIsKept`, `ReadyCanForecast`; of `ForecastTracker`: `TrackerTypeCorrect`, `ForecastsAreOwn`, `InstantsAreCountedOnce` |
| `RedisQualityProofs` | `TypeCorrect`, `PairsAreScoredOnce`, `PairsAreCountedOnce`, `ErrorsAreAttributed` |
| `RetrainingProofs` | of `Promotion`: `TypeCorrect`, `ComparisonsAreFair`, `WinnerBeatsCompared`; of `RetrainTrigger`: `TriggerTypeCorrect`; of `Retraining`: `RetrainingIsPromotion`, `RetrainingIsFair`, `ScheduledRunsAreSingle` |

*Service breaker.* "A hold that is over leaves no call behind" is the argument for one
probe at a time: `ProbeInv` ties the age of each call in flight to the age of the hold
(`HoldFollowsCalls`), so when the hold exceeds the longest call, none is left when the
probe is let out. It needs `HoldOutlastsCalls`, which `config.py` does not enforce
(defaults: 30 s against 0.2 s). `HalfOpenMeansProbing` needs nothing: the branch
`HALF_OPEN and not probing` of `admit` is dead code.

*Anomaly breaker.* `HoldInv` bounds what an open breaker has counted: the calm polls
counted while open plus those still caught by the trip are fewer than needed, because
the poll that tripped is not among them. `OpenedBeforeTrip` bounds the other thing a trip may do:
`opened_at` is never later than the last trip and at most `Lag` earlier, so a hold served from
`opened_at` leaves at least `MinOpen - Lag` since the last evidence. The refinement is proved step by
step from both.

*Ledger.* `LedgerInv` adds to the properties that no sample of a history is later than its last
instant: then a resolved step's target is within the tolerance of the history's end and is struck
out in the same step. For the order of the queue, the last forecast is not ahead of the clock, which
is at most `PollTime` ahead of a window that was not moved back, so what is not a duplicate of the
last is later than all; a window that was moved back begins the order anew. That a finite set of
numbers has a maximum is proved from the well-foundedness of the strict subset relation.

*Spike gate.* The loop invariant `LoopInv`: `run` is the run that ends at the current
step and no longer one does; `longest` is reached by some window and exceeded by none. A
window that ends at the new step cannot begin before the run does. At the end a window
of `spikeMinSteps` exists exactly when the longest run is at least that long.

*Engine.* `EngineInv` has one part per property: what the cache has left and its age add
up to `cacheSeconds` while it can be read, and no poll reads it later than `Lag` after its
clock (freshness); every draft and the cached decision are floored (`Floored`); a forecast
waiting to be smoothed is capped at the demand of its own poll (`CappedFirst`), and a blend
is no larger than the larger of the two; `updated >= since` makes the smoother err on the
side of dropping its state. No assumption is made about the constants beyond their ranges.

*Scaler.* The dictionary of service breakers is rebuilt only under its lock, in one step, and keeps
all but the ScaledObject's earlier entry (`ServicesAreKept`). The pool needs an invariant over
numbers of calls: every call that waits has one place in the queue (`InLine`), no more are under way
than there are threads, no more streams open than KEDA opens at a time (`MaxStreams`), and what an
open stream asks with is the configuration of now (`PoolInv`, for a change of the ScaledObject ends
its stream). So with more threads than streams a full pool serves a poll, or a stream whose client
is gone (`NeverLocked`): the safety half of `Answered`. Of the constants it assumes that calls are
finitely many.

*Model store.* `FlightInv` follows the load: from the warm-up on its model can forecast, from
the swap on its bundle is the one that serves, from the save on it is the one in the temporary
directory. Because the swap comes before the first file operation, and only a crash makes a pod
serve nothing again, `CopyInv` holds: as long as nothing serves, no load has touched the
cache, so a copy that is offered and accepted is what lies there, however slowly it was read.
This is also why the missing lock between `read_cache` and `write_cache` does no harm. From both it
follows that a pod that reports itself ready can forecast (`ReadyCanForecast`).

*Redis.* `ClaimsInv`: a pending claim is of a stored forecast, and whatever was won or counted
is claimed. A request wins a pair only if it is not claimed, so nobody else can have won or
counted it; that a forecast, once stored, keeps its version (SET NX) carries `OwnWindows`
over the store of another pod. `PushedWindow` is what LPUSH and LTRIM do to a window. The proofs
are for any number of pods, of requests in each and of versions, and any horizon.

*Tracker.* `TrackerInv`, of every series whose records have come in order: its forecasts are in the
order of their instants and none is of an instant to come (`InOrder`); a step that is not resolved
was never counted, for this queue or an earlier one of the series (`NeverCounted`); what was counted
lies in the past (`CountedPast`). The last carries a series over its eviction: a new queue begins with
an instant later than all before, whose steps cannot have been counted. `Single` queues make the
queue that `record` takes out the only one. Nothing is assumed but the ranges of the constants.

*Windows.* The theorems state of any contract and any series what the run checks of small ones.
The rows `holdout_windows` keeps are an interval (`HoldoutInterval`), and when no row before it is
missing, the stretches they forecast depend on the horizon alone (`ScoredStretches`): this makes
holdouts of different inputs comparable, and the count of fresh windows exact. `TrainedFits` is
what the skip rule leaves: a candidate whose input and horizon fit before the split.

*Scoring.* Costs are sums over finite sets. Their laws (`SumSteps`, `TotalAdds`, `TotalMonotone`) are
proved of the set of subsets on which the law holds: if it has every subset whose proper subsets it
has, it has them all (`SubsetsInduct`, from the well-foundedness of the strict subset relation, so
that no operator stands for the law). Raising a level by a unit changes the cost by a count of steps on
either side of it, and a level that costs least is therefore the quantile
(`CheapestIsQuantile`). `FollowerWins` needs of the ranking only that it takes the first of the best
of those that follow the level, and of the trees that one which forecasts values and splits inside
its training part gives a single value to all that is lifted beyond it (`MovesOfTree`).

*Grid.* Rounding half to even is monotone and moves no stamp by more than half a slot
(`RoundedIsMonotone`, `RoundedIsNear`). So a padding of half a step or more reaches the slot of
every sample of an episode, and what fills another slot comes from slots that are kept
(`BehindIsKept`): `EpisodesStayOut` has that condition on the padding, and one that Prometheus
answered. The other way round, every instant of a range lies within the padding of an episode, since
its ends are sightings and no gap in it is wider than the join (`RangesAreNarrow`). Division with
remainder is unique, hence chunks neither meet nor leave a stamp out, and the grid of a channel is
the multiples of the step whatever instant it was asked at.

*Requests.* `RequestsAreAnswered` follows the request: a history whose last `timeSteps` samples are
there is long enough to ask, the rows of a channel's window are complete unless it has a hole in it,
and what `parse_metadata` admits passes serving's validators.

*Cases.* The theorems `Cases...` carry these results to `CaseSpec`: a case never changes, so an
invariant of the run is the theorem for the case that was chosen.

*Retraining.* `PromotionInv` relates what a run remembers to the registry as it is by now. The tag
it read is the end of what the champion was fitted on (`Tagged`, `Remembered`), though the version
may have lost the alias since; a winner over the champion's own bundle is better than it, or takes
other channels (`Won`), which stays true whoever moves the alias, since a version keeps its cost and
its contract (`Registered` says that the version registered is that winner). `RetrainSpec => Spec`
holds step by step, the trigger and Kubernetes stuttering, so the theorems hold of the composition.
Any number of runs, versions and Jobs, any costs and holdout. A run is under way exactly while a pod
of its Job is (`PodsAreRuns`); with one unfinished Job of the CronJob at a time (`SingleJob`) two
runs of the schedule never overlap: the overlaps that `Promotion` has to bear are those of alerts.

Only model-checked: `Recovers` (of both breakers), `HalfOpenEnds`, `CatchesUp`, `FollowsAlias`,
`CacheServes`, `Answered` of `Scaler`, `CapacityArrives` and `AlertAnswered`, because liveness is outside
the proof system's reach. What the two runs that end in a violation show is shown by their
counterexamples.

## 6. Findings

`PROJECT.json` lists them with the quoted lines. Two have a run of their own: the dictionary that
loses a breaker (`scaler_race`) and the gauge that is moved back (`redis_quality_gauge`). The others
were met while modelling, and where a property comes near them its comment names the exception: the
lost probe, the shortened hold, the closing race, the cap before the EWMA, the second use of the
alias, the gap between the renames, the empty window, the fallback of the capacity, streams that
keep threads, one hole in a channel that counts as a failure of the service, an instant recorded
late or from a window moved back by a missing sample, two Jobs for one alert, a Job without
exclusions when Prometheus does not answer, a failed lookup that is taken for no champion, lost
metadata that are taken for the notebook's, two runs that replace each other's champion, holdouts and baselines
that differ with the horizon or a short history, and a champion whose input has become too long.

## 7. Not modelled

* The fits themselves (scikit-learn), floating point, random seeds and the synthetic traces of
  `traces.py`: sequential numerics. What is checked of training is which samples it reads, which it
  is scored on and how scores are compared. Filling the holes of a training series may use
  samples of the holdout (the daily profile is that of the whole series); nothing in the code
  promises otherwise, and no property speaks of it.
* HTTP, TLS, authentication, certificates, signals and log lines; the metrics, apart from the gauges
  of the tracker and its histograms, are counters without a reader in the code.
* `bench`, `monitoring`, `demo`, `scripts` and the notebook: load generation, reports, dashboards and
  exploration, straight-line scripts without a state that outlives them. Manifests are read for
  what they settle (deadline, backoff, concurrency policy), not modelled.
* `forget`, `peek`, `snapshot`, `get_rolling_mae`, `resolve_and_score` and the synchronous entry points
  of the model store, which only tests and tooling call.
