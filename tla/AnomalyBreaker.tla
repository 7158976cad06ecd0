--------------------------- MODULE AnomalyBreaker ---------------------------
(***************************************************************************)
(* The anomaly breaker (breaker.py, CircuitBreaker.observe) of one         *)
(* ScaledObject, fed by the polls of the scaler's worker threads.          *)
(*                                                                         *)
(* A poll brings three signals: the z-score of the newest residual, the    *)
(* level against one season ago, and whether the last rise is unlike any   *)
(* in the history.  The model keeps of each what observe() compares it     *)
(* with, and all of the counting and the state machine.                    *)
(*                                                                         *)
(* observe() takes no lock, and CPython switches threads at calls.  The    *)
(* steps here are the stretches between the calls that matter: counting    *)
(* the residual, counting the level, reading the clock, the state          *)
(* transition, and, after the abs(z) of the half-open branch, counting the *)
(* calm poll.  Counters and state are shared, what the signals said and    *)
(* what the clock said is local to the thread.                             *)
(*                                                                         *)
(* Time is kept as ages: `held' is the time since opened_at, `late[p]' the *)
(* time since thread p read the clock, so that now - opened_at is          *)
(* held - late[p].  A trip writes its own, older, reading into opened_at,  *)
(* and of two that overlap the later one may write the earlier reading.    *)
(***************************************************************************)
EXTENDS Integers, FiniteSets

CONSTANTS
  Pollers,          \* worker threads
  LevelShiftPolls,  \* cfg.level_shift_polls
  CalmPolls,        \* cfg.calm_polls
  MinOpen,          \* cfg.min_open_seconds
  MaxOpen,          \* cfg.max_open_seconds
  Lag               \* ticks a thread may take between reading the clock and using it

ASSUME ConstantsAssumption ==
  /\ LevelShiftPolls \in Nat \ {0}
  /\ CalmPolls \in Nat \ {0}
  /\ MinOpen \in Nat \ {0}
  /\ MaxOpen \in Nat
  /\ Lag \in Nat
  /\ MinOpen <= MaxOpen     \* engine.py passes max(min_open_seconds, 3600)
  /\ IsFiniteSet(Pollers)

VARIABLES
  state,         \* _State.state
  open_for,      \* _State.open_for
  held,          \* ticks since _State.opened_at, counted up to HeldCap
  quiet,         \* history: ticks since a poll last tripped, up to HeldCap
  hot_residual,  \* _State.hot_residual, counted up to 2
  hot_level,     \* _State.hot_level, counted up to LevelShiftPolls
  calm,          \* _State.calm, counted up to CalmPolls
  pc,            \* how far each thread is in observe()
  tripped,       \* local: a signal tripped in this poll
  z,             \* local: the residual z-score of this poll
  late,          \* local: ticks since this poll read the clock
  normal         \* environment: the series looks like its history

counters == <<hot_residual, hot_level>>
ages == <<held, quiet>>
locals == <<pc, tripped, z, late>>
vars == <<state, open_for, ages, counters, calm, locals, normal>>

CLOSED == "closed"
OPEN == "open"
HALF_OPEN == "half_open"

\* |z| against calm_z, residual_z and residual_z_hard; "none" when no residual
\* was resolved or there are too few to know their spread.
Z == {"none", "calm", "raised", "hot", "hard"}

\* observed / season-ago value against the two thresholds; "unknown" when there
\* is no season-ago value.
Level == {"unknown", "usual", "shifted"}

\* A reading is at most Lag old and no hold longer than MaxOpen, so comparing
\* held - late[p] with open_for needs no larger value of held than this one.
HeldCap == MaxOpen + Lag

UpTo(n, bound) == IF n < bound THEN n ELSE bound

-----------------------------------------------------------------------------
Init ==
  /\ state = CLOSED
  /\ open_for = MinOpen
  /\ held = HeldCap
  /\ quiet = HeldCap
  /\ hot_residual = 0
  /\ hot_level = 0
  /\ calm = 0
  /\ pc = [p \in Pollers |-> "idle"]
  /\ tripped = [p \in Pollers |-> FALSE]
  /\ z = [p \in Pollers |-> "none"]
  /\ late = [p \in Pollers |-> 0]
  /\ normal \in BOOLEAN

\* Faulty variant: only a trip clears the counter.
CountResidualUncleared(score) ==
  hot_residual' = IF score \in {"hot", "hard"} THEN UpTo(hot_residual + 1, 2) ELSE hot_residual

\* A poll without a z-score leaves the residual counter as it is.
CountResidual(score) ==
  hot_residual' = CASE score = "none" -> hot_residual
                    [] score \in {"hot", "hard"} -> UpTo(hot_residual + 1, 2)
                    [] OTHER -> 0

\* observe(), 1: the residual is counted.
Residual(p, score) ==
  /\ pc[p] = "idle"
  /\ pc' = [pc EXCEPT ![p] = "counted"]
  /\ CountResidual(score)
  /\ z' = [z EXCEPT ![p] = score]
  /\ UNCHANGED <<state, open_for, ages, hot_level, calm, tripped, late, normal>>

\* The counter is read again after abs(z): other polls may have changed it.
ResidualTrips(p) == z[p] # "none" /\ (z[p] = "hard" \/ hot_residual >= 2)

CountLevel(level) ==
  hot_level' = IF level = "shifted" THEN UpTo(hot_level + 1, LevelShiftPolls) ELSE 0

LevelTrips == hot_level' >= LevelShiftPolls

\* observe(), 1 to 3: the residual is judged, the level counted and judged, the
\* jump judged.
Signals(p, level, jump) ==
  /\ pc[p] = "counted"
  /\ pc' = [pc EXCEPT ![p] = "judged"]
  /\ CountLevel(level)
  /\ tripped' = [tripped EXCEPT ![p] = ResidualTrips(p) \/ LevelTrips \/ jump]
  /\ UNCHANGED <<state, open_for, ages, hot_residual, calm, z, late, normal>>

\* now = self._clock(); what the poll decides with it comes later.
ReadClock(p) ==
  /\ pc[p] = "judged"
  /\ pc' = [pc EXCEPT ![p] = "timed"]
  /\ UNCHANGED <<state, open_for, ages, counters, calm, tripped, z, late, normal>>

\* A series that looks like its history gives no signal out of the ordinary.
Observe(p) ==
  \/ \E score \in Z :
       /\ normal => score \in {"none", "calm"}
       /\ Residual(p, score)
  \/ \E level \in Level, jump \in BOOLEAN :
       /\ normal => level # "shifted" /\ ~jump
       /\ Signals(p, level, jump)

\* observe() returns.
Return(p) ==
  /\ pc' = [pc EXCEPT ![p] = "idle"]
  /\ z' = [z EXCEPT ![p] = "none"]
  /\ tripped' = [tripped EXCEPT ![p] = FALSE]
  /\ late' = [late EXCEPT ![p] = 0]
  /\ UNCHANGED normal

\* Faulty variant: a trip forgets opened_at.
TripUntimed(p) ==
  /\ pc[p] = "timed"
  /\ tripped[p]
  /\ Return(p)
  /\ open_for' = IF state = HALF_OPEN THEN UpTo(2 * open_for, MaxOpen) ELSE open_for
  /\ state' = OPEN
  /\ UNCHANGED held
  /\ quiet' = 0
  /\ calm' = 0
  /\ hot_residual' = 0
  /\ hot_level' = 0

\* _trip(): open, and for twice as long when the breaker was half-open.  What it
\* writes into opened_at is the poll's reading of the clock.
Trip(p) ==
  /\ pc[p] = "timed"
  /\ tripped[p]
  /\ Return(p)
  /\ open_for' = IF state = HALF_OPEN THEN UpTo(2 * open_for, MaxOpen) ELSE open_for
  /\ state' = OPEN
  /\ held' = late[p]
  /\ quiet' = 0
  /\ calm' = 0
  /\ hot_residual' = 0
  /\ hot_level' = 0

\* OPEN and, by the poll's reading of the clock, the hold is not over.
StayOpen(p) ==
  /\ pc[p] = "timed"
  /\ ~tripped[p]
  /\ Return(p)
  /\ state = OPEN
  /\ held - late[p] < open_for
  /\ UNCHANGED <<state, open_for, ages, counters, calm>>

\* Faulty variant: the minimum hold is served, not the doubled one.
OnProbationEarly(p) == state = HALF_OPEN \/ (state = OPEN /\ held - late[p] >= MinOpen)

\* OPEN with the hold over, which becomes HALF_OPEN, or HALF_OPEN already.
OnProbation(p) == state = HALF_OPEN \/ (state = OPEN /\ held - late[p] >= open_for)

\* A half-open breaker starts counting calm polls from 0.
Probation(p) ==
  /\ pc[p] = "timed"
  /\ ~tripped[p]
  /\ OnProbation(p)
  /\ pc' = [pc EXCEPT ![p] = "probation"]
  /\ state' = HALF_OPEN
  /\ calm' = IF state = OPEN THEN 0 ELSE calm
  /\ late' = [late EXCEPT ![p] = 0]
  /\ UNCHANGED <<open_for, ages, counters, tripped, z, normal>>

\* calm after this poll; other polls may have come between.
CalmCount(p) ==
  IF z[p] \in {"none", "calm"} /\ hot_level = 0 /\ hot_residual = 0
  THEN UpTo(calm + 1, CalmPolls)
  ELSE 0

StayHalfOpen(p) ==
  /\ pc[p] = "probation"
  /\ CalmCount(p) < CalmPolls
  /\ Return(p)
  /\ calm' = CalmCount(p)
  /\ UNCHANGED <<state, open_for, ages, counters>>

Close(p) ==
  /\ pc[p] = "probation"
  /\ CalmCount(p) >= CalmPolls
  /\ Return(p)
  /\ state' = CLOSED
  /\ open_for' = MinOpen
  /\ calm' = CalmCount(p)
  /\ UNCHANGED <<ages, counters>>

\* CLOSED and nothing tripped: the forecast is used.
UseForecast(p) ==
  /\ pc[p] = "timed"
  /\ ~tripped[p]
  /\ Return(p)
  /\ state = CLOSED
  /\ UNCHANGED <<state, open_for, ages, counters, calm>>

Decide(p) ==
  \/ ReadClock(p)
  \/ Trip(p)
  \/ StayOpen(p)
  \/ Probation(p)
  \/ StayHalfOpen(p)
  \/ Close(p)
  \/ UseForecast(p)

\* A tick of the clock.  A thread uses its reading within Lag ticks.
Tick ==
  /\ \A p \in Pollers : pc[p] = "timed" => late[p] < Lag
  /\ held' = UpTo(held + 1, HeldCap)
  /\ quiet' = UpTo(quiet + 1, HeldCap)
  /\ late' = [p \in Pollers |-> IF pc[p] = "timed" THEN late[p] + 1 ELSE late[p]]
  /\ UNCHANGED <<state, open_for, counters, calm, pc, tripped, z, normal>>

SeriesChange ==
  /\ normal' = ~normal
  /\ UNCHANGED <<state, open_for, ages, counters, calm, locals>>

Next ==
  \/ \E p \in Pollers : Observe(p) \/ Decide(p)
  \/ Tick
  \/ SeriesChange

Spec == Init /\ [][Next]_vars

\* KEDA keeps polling, time passes, and residuals keep arriving: the engine
\* records and scores forecasts also while the breaker is open.
Fairness ==
  /\ WF_vars(Tick)
  /\ \A p \in Pollers : /\ WF_vars(Decide(p))
                        /\ SF_vars(Residual(p, "calm"))
                        /\ WF_vars(Signals(p, "usual", FALSE))
FairSpec == Spec /\ Fairness

-----------------------------------------------------------------------------
(***************************************************************************)
(* Properties.                                                             *)
(***************************************************************************)

\* Every variable stays in its type: holds stay between the two limits and a
\* half-open breaker never counts past CalmPolls.
TypeOK ==
  /\ state \in {CLOSED, OPEN, HALF_OPEN}
  /\ open_for \in MinOpen..MaxOpen
  /\ held \in 0..HeldCap
  /\ quiet \in 0..HeldCap
  /\ hot_residual \in 0..2
  /\ hot_level \in 0..LevelShiftPolls
  /\ calm \in 0..CalmPolls
  /\ pc \in [Pollers -> {"idle", "counted", "judged", "timed", "probation"}]
  /\ tripped \in [Pollers -> BOOLEAN]
  /\ z \in [Pollers -> Z]
  /\ late \in [Pollers -> 0..Lag]
  /\ normal \in BOOLEAN

\* The hold is always served in full: a half-open breaker has been quiet for
\* the whole, possibly doubled, hold, a closed one for the minimum, and the
\* next anomaly after a close starts from the minimum hold again.
HoldServed ==
  /\ state = HALF_OPEN => held >= open_for /\ calm < CalmPolls
  /\ state = CLOSED => held >= MinOpen /\ open_for = MinOpen

\* Fewer polls of the ScaledObject are in observe() at once than calm polls are
\* needed.  (config.py accepts any positive breakerCalmPolls; the default is 6.)
FewPollers == Cardinality(Pollers) <= CalmPolls

\* The breaker keeps the promise of TrustGate, whatever polls overlap, when
\* there are few pollers.  The hold is counted from opened_at, which may be
\* older than the trip that wrote it and even than the opened_at it replaced;
\* from the last trip itself the forecast stays unused for MinOpen - Lag.
Gate == INSTANCE TrustGate WITH
          Hold <- MinOpen - Lag, Horizon <- HeldCap, Needed <- CalmPolls,
          trusted <- state = CLOSED,
          assents <- IF state = HALF_OPEN THEN calm ELSE 0

KeepsTrustGate == Gate!Spec

\* "close again only after the series has been calm for a while", and then it
\* does: once the series looks like its history for good, the breaker closes
\* for good.
Recovers == <>[]normal => <>[](state = CLOSED)

-----------------------------------------------------------------------------
(***************************************************************************)
(* The inductive strengthening of HoldServed, and what TrustGate needs     *)
(* beside it.  Polls caught half-open by a trip still count themselves as  *)
(* calm; they are the only ones an open breaker counts, and the poll that  *)
(* tripped is not among them.                                              *)
(***************************************************************************)
\* opened_at is never later than the last trip, and at most Lag earlier.
OpenedBeforeTrip == quiet <= held /\ held <= quiet + Lag

Caught == {p \in Pollers : pc[p] = "probation"}

HoldInv ==
  /\ TypeOK
  /\ HoldServed
  /\ OpenedBeforeTrip
  /\ state = OPEN => calm + Cardinality(Caught) < CalmPolls

=============================================================================
