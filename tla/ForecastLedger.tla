--------------------------- MODULE ForecastLedger ---------------------------
(***************************************************************************)
(* The forecast ledger (scaler quality.py, ForecastLedger) of one          *)
(* ScaledObject.  Every poll fetches a history that ends at the newest     *)
(* instant with a sample, scores against it the forecasts made earlier,    *)
(* and, when the forecast service answers, records the forecast made from  *)
(* that history (engine.py, _compute and _forecast).  score() and record() *)
(* each hold the lock; polls overlap between fetch, score and record.      *)
(*                                                                         *)
(* The query is evaluated every step back from the poll's own clock        *)
(* reading.  When the newest of these instants have no sample, the window  *)
(* is anchored whole steps earlier, and a later poll may record an earlier *)
(* instant than one before it.                                             *)
(*                                                                         *)
(* The deque of pending forecasts is a function from arrival numbers to    *)
(* forecasts: its last element has the largest number.  Of a forecast the  *)
(* model keeps the instant it was made for, the steps not yet replaced by  *)
(* NaN, and (not in the code) the steps that have been scored.  Values     *)
(* play no part.                                                           *)
(***************************************************************************)
EXTENDS Integers, FiniteSets

CONSTANTS
  Pollers,      \* worker threads
  Step,         \* step_seconds
  Tol,          \* tolerance * step_seconds
  Steps,        \* length of the forecast horizon
  HistorySteps, \* grid instants of a fetched history
  MaxPending,   \* max_pending
  PollTime,     \* ticks between a poll's fetch and its record
  MaxTime,      \* bound on the time
  MaxArrivals   \* bound on the forecasts recorded in one deque

ASSUME ConstantsAssumption ==
  /\ Tol \in Nat
  /\ Step \in Nat /\ Step > 2 * Tol     \* tolerance is a quarter step
  /\ Steps \in Nat \ {0}
  /\ HistorySteps \in Nat \ {0}
  /\ MaxPending \in Nat \ {0}
  /\ PollTime \in Nat
  /\ MaxTime \in Nat
  /\ MaxArrivals \in Nat

VARIABLES
  now,      \* the clock
  pc,       \* where each poll is
  began,    \* the clock when each poll fetched its history
  window,   \* grid_ts[-1] of each poll's history
  sampled,  \* instants of each poll's history that hold a sample
  pending,  \* the deque: arrival number -> forecast
  arrivals, \* forecasts recorded since the deque was created
  moved     \* history: the last of them made from a window that was moved back

deque == <<pending, arrivals, moved>>
vars == <<now, pc, began, window, sampled, deque>>

Horizon == 1..Steps

Forecast == [made_at : 0..MaxTime, left : SUBSET Horizon, scored : SUBSET Horizon]

\* The instants at which query_range evaluates the query, points + 1 of them.
Evaluated == {now - i * Step : i \in 0..HistorySteps}

Grid(end) == {end - i * Step : i \in 0..(HistorySteps - 1)}

Target(f, k) == f.made_at + k * Step

Near(s, t) == s - t <= Tol /\ t - s <= Tol

Last == CHOOSE n \in DOMAIN pending : \A m \in DOMAIN pending : m <= n
First == CHOOSE n \in DOMAIN pending : \A m \in DOMAIN pending : n <= m

-----------------------------------------------------------------------------
Init ==
  /\ now = 0
  /\ pc = [p \in Pollers |-> "idle"]
  /\ began = [p \in Pollers |-> 0]
  /\ window = [p \in Pollers |-> 0]
  /\ sampled = [p \in Pollers |-> {}]
  /\ pending = [n \in {} |-> 0]
  /\ arrivals = 0
  /\ moved = 0

\* Instants with a sample, of those evaluated.  Samples start at time 0.
Answers == {seen \in SUBSET Evaluated : \A s \in seen : s >= 0}

\* fetch_history(): the grid is anchored at the newest instant that has a sample;
\* an instant without one is a hole.
Fetch(p) ==
  /\ pc[p] = "idle"
  /\ pc' = [pc EXCEPT ![p] = "fetched"]
  /\ began' = [began EXCEPT ![p] = now]
  /\ \E seen \in Answers, end \in Evaluated :
       /\ end \in seen
       /\ \A s \in seen : s <= end
       /\ window' = [window EXCEPT ![p] = end]
       /\ sampled' = [sampled EXCEPT ![p] = seen \cap Grid(end)]
  /\ UNCHANGED <<now, deque>>

\* _lookup(): the history has a sample for the target, exactly or within tolerance.
Found(p, t) == \E s \in sampled[p] : Near(s, t)

\* The tolerance forgotten where steps are struck out.
PastExactly(p, f) == {k \in Horizon : Target(f, k) <= window[p]}

\* Steps of f whose target is not later than the end of p's history: the leading
\* `done' steps, which become NaN.
Past(p, f) == {k \in Horizon : Target(f, k) <= window[p] + Tol}

ScoreForecast(p, f) ==
  [f EXCEPT !.scored = @ \cup {k \in f.left : Found(p, Target(f, k))},
            !.left = @ \ Past(p, f)]

\* The tolerance forgotten where forecasts are kept.
KeepExactly(p) == {n \in DOMAIN pending : Target(pending[n], Steps) > window[p]}

\* Forecasts with steps still to come.
Keep(p) == {n \in DOMAIN pending : Target(pending[n], Steps) > window[p] + Tol}

\* score(): resolve what the history answers, drop the forecasts that are spent,
\* strike out the steps that are past.
Score(p) ==
  /\ pc[p] = "fetched"
  /\ pc' = [pc EXCEPT ![p] = "scored"]
  /\ pending' = [n \in Keep(p) |-> ScoreForecast(p, pending[n])]
  /\ sampled' = [sampled EXCEPT ![p] = {}]
  /\ UNCHANGED <<now, began, window, arrivals, moved>>

Finish(p) ==
  /\ pc' = [pc EXCEPT ![p] = "idle"]
  /\ began' = [began EXCEPT ![p] = 0]
  /\ window' = [window EXCEPT ![p] = 0]
  /\ sampled' = [sampled EXCEPT ![p] = {}]
  /\ UNCHANGED now

\* The poll ends without a forecast: an error before or after scoring (a newest
\* sample that is NaN is one), window too short, breaker open, or the service
\* failed.
NoForecast(p) ==
  /\ pc[p] # "idle"
  /\ Finish(p)
  /\ UNCHANGED deque

\* The tolerance forgotten where instants are compared.
DuplicateExactly(p) ==
  pending # [n \in {} |-> 0] /\ pending[Last].made_at = window[p]

\* record(): one forecast per instant, compared with the newest record only.
Duplicate(p) == pending # [n \in {} |-> 0] /\ Near(pending[Last].made_at, window[p])

NewForecast(p) == [made_at |-> window[p], left |-> Horizon, scored |-> {}]

\* deque(maxlen): the oldest record gives way.
Kept == IF Cardinality(DOMAIN pending) >= MaxPending
        THEN DOMAIN pending \ {First}
        ELSE DOMAIN pending

\* Some of the newest instants evaluated had no sample.
MovedBack(p) == window[p] < began[p]

Enqueue(p) ==
  /\ arrivals < MaxArrivals
  /\ arrivals' = arrivals + 1
  /\ moved' = IF MovedBack(p) THEN arrivals + 1 ELSE moved
  /\ pending' = [n \in Kept \cup {arrivals + 1} |->
                   IF n = arrivals + 1 THEN NewForecast(p) ELSE pending[n]]

Record(p) ==
  /\ pc[p] = "scored"
  /\ Finish(p)
  /\ IF Duplicate(p) THEN UNCHANGED deque ELSE Enqueue(p)

\* Another ScaledObject's record() finds max_series keys and drops this one, the
\* least recently used.
Evict ==
  /\ pending' = [n \in {} |-> 0]
  /\ arrivals' = 0
  /\ moved' = 0
  /\ UNCHANGED <<now, pc, began, window, sampled>>

\* Time passes.  A poll takes at most PollTime from its fetch to its record.
Tick ==
  /\ now < MaxTime
  /\ \A p \in Pollers : pc[p] # "idle" => now < began[p] + PollTime
  /\ now' = now + 1
  /\ UNCHANGED <<pc, began, window, sampled, deque>>

Next ==
  \/ \E p \in Pollers : Fetch(p) \/ Score(p) \/ NoForecast(p) \/ Record(p)
  \/ Evict
  \/ Tick

Spec == Init /\ [][Next]_vars

-----------------------------------------------------------------------------
(***************************************************************************)
(* Properties.                                                             *)
(***************************************************************************)

\* Every variable stays in its type, and "memory is bounded": never more than
\* max_pending forecasts.
TypeOK ==
  /\ now \in 0..MaxTime
  /\ pc \in [Pollers -> {"idle", "fetched", "scored"}]
  /\ began \in [Pollers -> 0..MaxTime]
  /\ window \in [Pollers -> 0..MaxTime]
  /\ sampled \in [Pollers -> SUBSET Int]
  /\ arrivals \in Nat /\ moved \in 0..arrivals
  /\ DOMAIN pending \in SUBSET (1..arrivals)
  /\ pending \in [DOMAIN pending -> Forecast]
  /\ IsFiniteSet(DOMAIN pending) /\ Cardinality(DOMAIN pending) <= MaxPending

\* "A resolved step must not be scored again on the next poll": a step that has
\* been scored has been struck out, also when polls with older and newer
\* histories score in any order.
ScoredOnce == \A n \in DOMAIN pending : pending[n].scored \cap pending[n].left = {}

\* A pending forecast always has its last step to come: no spent forecast takes
\* a place in the queue.
NothingSpent == \A n \in DOMAIN pending : Steps \in pending[n].left

\* "One forecast per instant: a cached decision or a retry must not count twice",
\* although record() looks at the newest record only and polls overlap: since a
\* window was last moved back, forecasts are recorded in the order of their
\* instants and no two for the same.  (Beside a forecast from a window moved back
\* and those before it a second one for the same instant may stand.)
OnePerInstant ==
  \A m, n \in DOMAIN pending :
    moved <= m /\ m < n => pending[n].made_at - pending[m].made_at > Tol

\* A poll is not late: it records within the tolerance of its fetch.
PollsAreQuick == PollTime <= Tol

-----------------------------------------------------------------------------
\* Nothing is ahead of the clock; a poll under way began at most PollTime ago, and
\* its window ends at no later instant.
Timely ==
  /\ \A n \in DOMAIN pending : pending[n].made_at <= now
  /\ \A p \in Pollers :
       /\ window[p] <= began[p] /\ began[p] <= now
       /\ pc[p] # "idle" => now <= began[p] + PollTime
       /\ \A s \in sampled[p] : s <= window[p]

\* The inductive strengthening of what holds however long a poll takes.
LedgerInv == TypeOK /\ Timely /\ ScoredOnce /\ NothingSpent

=============================================================================
