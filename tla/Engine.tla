-------------------------------- MODULE Engine --------------------------------
(***************************************************************************)
(* The decisions of one ScaledObject with one configuration (engine.py,    *)
(* PredictiveEngine.decide) as overlapping polls make them: the decision   *)
(* cache, the ways through _compute, the surge cap, the EWMA               *)
(* (smoothing.py, EwmaSmoother) and what KEDA is told.                     *)
(*                                                                         *)
(* The verdicts of the breakers and of the spike gate are taken as they    *)
(* come: AnomalyBreaker, ServiceBreaker and SpikeGate say which there are. *)
(* Demands are whole numbers; the EWMA is any of them between its previous *)
(* value and the forecast, the previous one excluded.  Times are kept as   *)
(* ages, so that the clock needs no bound.                                 *)
(***************************************************************************)
EXTENDS Integers

CONSTANTS
  Pollers,       \* threads that poll this ScaledObject
  MaxDemand,     \* largest demand considered
  MaxForecast,   \* largest forecast considered, not less than that
  Mode,          \* "max" or "forecast"
  Factor,        \* forecastSurgeFactor, 0 = no cap
  CacheSeconds,  \* cacheSeconds, 0 = no cache
  MaxAge,        \* smoothingMaxAgeSeconds, 0 = never expires
  Lag,           \* longest wait between reading the clock and taking a lock
  PollTime       \* longest time one poll takes

ASSUME ConstantsAssumption ==
  /\ MaxDemand \in Nat /\ MaxForecast \in Nat
  /\ MaxDemand <= MaxForecast
  /\ Mode \in {"max", "forecast"}
  /\ Factor \in Nat
  /\ CacheSeconds \in Nat
  /\ MaxAge \in Nat
  /\ Lag \in Nat \ {0}
  /\ PollTime \in Nat
  /\ Lag <= PollTime

VARIABLES
  demand,    \* what the query measures
  pc,        \* where each poll is
  began,     \* age of decide()'s reading of the clock
  draft,     \* the decision a poll has come to
  predicted, \* the forecast it is about to smooth
  lag,       \* age of update()'s reading of the clock
  cache,     \* the cached decision, how long it is valid, and its age
  ewma       \* the smoother's state; since, peak and capped are its history

vars == <<demand, pc, began, draft, predicted, lag, cache, ewma>>

Demands == 0..MaxDemand
Forecasts == 0..MaxForecast

Greater(a, b) == IF a >= b THEN a ELSE b
Lesser(a, b) == IF a <= b THEN a ELSE b

Decision(v, o) == [value |-> v, observed |-> o]

\* Ages beyond which nothing depends on them.
Expired == CacheSeconds + Lag
Forgotten == MaxAge + Lag + 1

NoEwma == [seeded |-> FALSE, value |-> 0, updated |-> 0, since |-> 0,
           peak |-> 0, capped |-> TRUE]

-----------------------------------------------------------------------------
Init ==
  /\ demand \in Demands
  /\ pc = [p \in Pollers |-> "idle"]
  /\ began = [p \in Pollers |-> 0]
  /\ draft = [p \in Pollers |-> Decision(0, 0)]
  /\ predicted = [p \in Pollers |-> 0]
  /\ lag = [p \in Pollers |-> 0]
  /\ cache = [decision |-> Decision(0, 0), left |-> -Lag, age |-> Expired]
  /\ ewma = NoEwma

GoTo(p, label) == pc' = [pc EXCEPT ![p] = label]

\* The poll is over: nothing of it is kept.
Return(p) ==
  /\ GoTo(p, "idle")
  /\ began' = [began EXCEPT ![p] = 0]
  /\ draft' = [draft EXCEPT ![p] = Decision(0, 0)]
  /\ predicted' = [predicted EXCEPT ![p] = 0]
  /\ lag' = [lag EXCEPT ![p] = 0]

\* now = self._clock(), before the lock.
Begin(p) ==
  /\ pc[p] = "idle"
  /\ GoTo(p, "looking")
  /\ UNCHANGED <<demand, began, draft, predicted, lag, cache, ewma>>

\* cached[0] > now, of a now that began[p] ago was the time.
Valid(p) == CacheSeconds > 0 /\ cache.left + began[p] > 0

\* Faulty variant: a hit makes the decision valid for another CacheSeconds.
HitRenews(p) ==
  /\ pc[p] = "looking"
  /\ Valid(p)
  /\ cache' = [cache EXCEPT !.left = CacheSeconds]
  /\ Return(p)
  /\ UNCHANGED <<demand, ewma>>

Hit(p) ==
  /\ pc[p] = "looking"
  /\ Valid(p)
  /\ Return(p)
  /\ UNCHANGED <<demand, cache, ewma>>

Miss(p) ==
  /\ pc[p] = "looking"
  /\ ~Valid(p)
  /\ GoTo(p, "fetching")
  /\ UNCHANGED <<demand, began, draft, predicted, lag, cache, ewma>>

\* Prometheus fails, has no samples or no finite newest one, for the target or
\* for a channel: an exception leaves decide() and KEDA gets an error.
Raise(p) ==
  /\ pc[p] \in {"fetching", "calling"}
  /\ Return(p)
  /\ UNCHANGED <<demand, cache, ewma>>

\* The history is there.  The forecast is asked for unless the window is not
\* full or the service breaker refuses.
History(p) ==
  /\ pc[p] = "fetching"
  /\ draft' = [draft EXCEPT ![p] = Decision(demand, demand)]
  /\ \E label \in {"calling", "storing"} : GoTo(p, label)
  /\ UNCHANGED <<demand, began, predicted, lag, cache, ewma>>

\* The call fails, or its forecast is not used: the anomaly breaker is open, or
\* the gate suppresses it.
Refuse(p) ==
  /\ pc[p] = "calling"
  /\ GoTo(p, "storing")
  /\ UNCHANGED <<demand, began, draft, predicted, lag, cache, ewma>>

\* Faulty variant: the cap is left out.
CapNever(y, o) == y

\* The surge cap: at most Factor times what is observed.
Cap(y, o) ==
  IF Mode = "max" /\ Factor > 0 /\ o > 0 THEN Lesser(y, Factor * o) ELSE y

\* The forecast is used: update() reads the clock, before the lock.
Accept(p) ==
  /\ pc[p] = "calling"
  /\ \E y \in Forecasts :
       predicted' = [predicted EXCEPT ![p] = Cap(y, draft[p].observed)]
  /\ GoTo(p, "smoothing")
  /\ UNCHANGED <<demand, began, draft, lag, cache, ewma>>

\* Faulty variant: a state that is there is used, however old.
StaleNever(p) == ~ewma.seeded

\* There is no state, or its last update is more than MaxAge before this now.
Stale(p) == ~ewma.seeded \/ (MaxAge > 0 /\ ewma.updated - lag[p] > MaxAge)

\* alpha * y + (1 - alpha) * s for any alpha in (0, 1].
Blends(s, y) == {v \in Lesser(s, y)..Greater(s, y) : v # s \/ s = y}

\* update() under the lock, and the decision.
Smooth(p) ==
  LET o == draft[p].observed
      y == predicted[p]
  IN
  /\ pc[p] = "smoothing"
  /\ \E v \in (IF Stale(p) THEN {y} ELSE Blends(ewma.value, y)) :
       ewma' = [seeded  |-> TRUE,
                value   |-> v,
                updated |-> lag[p],
                since   |-> 0,
                peak    |-> IF Stale(p) THEN o ELSE Greater(ewma.peak, o),
                capped  |-> o > 0 /\ (Stale(p) \/ ewma.capped)]
  /\ draft' = [draft EXCEPT ![p] =
                 Decision(IF Mode = "max" THEN Greater(ewma'.value, o) ELSE ewma'.value, o)]
  /\ predicted' = [predicted EXCEPT ![p] = 0]
  /\ lag' = [lag EXCEPT ![p] = 0]
  /\ GoTo(p, "storing")
  /\ UNCHANGED <<demand, began, cache>>

\* Faulty variant: the decision is cached for CacheSeconds from now on.
StoreLate(p) ==
  /\ pc[p] = "storing"
  /\ IF CacheSeconds > 0
       THEN cache' = [decision |-> draft[p],
                      left     |-> CacheSeconds,
                      age      |-> Lesser(began[p], Expired)]
       ELSE UNCHANGED cache
  /\ Return(p)
  /\ UNCHANGED <<demand, ewma>>

\* The decision is cached until CacheSeconds after decide() began, and returned.
Store(p) ==
  /\ pc[p] = "storing"
  /\ IF CacheSeconds > 0
       THEN cache' = [decision |-> draft[p],
                      left     |-> Greater(CacheSeconds - began[p], -Lag),
                      age      |-> Lesser(began[p], Expired)]
       ELSE UNCHANGED cache
  /\ Return(p)
  /\ UNCHANGED <<demand, ewma>>

\* Time passes, the timeouts of the calls being kept.
Tick ==
  /\ \A p \in Pollers : pc[p] # "idle" => began[p] < PollTime
  /\ \A p \in Pollers : pc[p] = "looking" => began[p] < Lag
  /\ \A p \in Pollers : pc[p] = "smoothing" => lag[p] < Lag
  /\ began' = [p \in Pollers |-> IF pc[p] = "idle" THEN 0 ELSE began[p] + 1]
  /\ lag' = [p \in Pollers |-> IF pc[p] = "smoothing" THEN lag[p] + 1 ELSE 0]
  /\ cache' = [cache EXCEPT !.left = Greater(@ - 1, -Lag), !.age = Lesser(@ + 1, Expired)]
  /\ ewma' = IF ewma.seeded
               THEN [ewma EXCEPT !.updated = Lesser(@ + 1, Forgotten),
                                 !.since = Lesser(@ + 1, Forgotten)]
               ELSE ewma
  /\ UNCHANGED <<demand, pc, draft, predicted>>

\* The demand moves.
DemandChange ==
  /\ demand' \in Demands
  /\ UNCHANGED <<pc, began, draft, predicted, lag, cache, ewma>>

Poll(p) ==
  \/ Begin(p) \/ Hit(p) \/ Miss(p)
  \/ Raise(p) \/ History(p) \/ Refuse(p) \/ Accept(p)
  \/ Smooth(p) \/ Store(p)

Next ==
  \/ \E p \in Pollers : Poll(p)
  \/ Tick
  \/ DemandChange

Fairness ==
  /\ WF_vars(Tick)
  /\ \A p \in Pollers : WF_vars(Poll(p))

Spec == Init /\ [][Next]_vars /\ Fairness

-----------------------------------------------------------------------------
(***************************************************************************)
(* Properties.                                                             *)
(***************************************************************************)

Decisions == [value : Forecasts, observed : Demands]

TypeOK ==
  /\ demand \in Demands
  /\ pc \in [Pollers -> {"idle", "looking", "fetching", "calling", "smoothing", "storing"}]
  /\ began \in [Pollers -> 0..PollTime]
  /\ draft \in [Pollers -> Decisions]
  /\ predicted \in [Pollers -> Forecasts]
  /\ lag \in [Pollers -> 0..Lag]
  /\ cache \in [decision : Decisions, left : -Lag..CacheSeconds, age : 0..Expired]
  /\ ewma \in [seeded : BOOLEAN, value : Forecasts, updated : 0..Forgotten,
               since : 0..Forgotten, peak : Demands, capped : BOOLEAN]

\* The answers the next step of some poll may give KEDA.
Cached == {cache.decision : p \in {q \in Pollers : pc[q] = "looking" /\ Valid(q)}}
Computed == {draft[p] : p \in {q \in Pollers : pc[q] = "storing"}}

\* "With mode=max the smoothed forecast is still floored at observed demand:
\* smoothing delays scale-up on a false peak, never scale-up on real load": no
\* answer is less than a demand measured since its poll began, and the cache
\* gives none that began CacheSeconds and a wait for the lock ago or earlier.
CoversDemand ==
  /\ Mode = "max" => \A d \in Cached \cup Computed : d.value >= d.observed
  /\ Cached # {} => cache.age < CacheSeconds + Lag

\* What the surge cap does bound, the EWMA behind it included: in mode max S is
\* at most Factor times the largest demand observed with any forecast in it,
\* as long as none of them came at a demand of 0.
SurgeBound ==
  Mode = "max" /\ Factor > 0 /\ ewma.capped => ewma.value <= Factor * ewma.peak

\* "Stale history never damps a fresh forecast": when the EWMA was last updated
\* more than MaxAge ago, give or take a wait for the lock, the next forecast
\* replaces it, in whatever order overlapping polls read the clock and update.
StaleNeverDamps ==
  [][\A p \in Pollers :
       pc[p] = "smoothing" /\ pc'[p] # "smoothing" /\ MaxAge > 0 /\ ewma.since > MaxAge + Lag
         => ewma'.value = predicted[p]]_vars

\* Once demand stays where it is, KEDA eventually gets answers about that demand
\* only, however many decisions about earlier ones are cached or under way.
CatchesUp ==
  \A o \in Demands :
    <>[](demand = o) => <>[](\A d \in Cached \cup Computed : d.observed = o)

-----------------------------------------------------------------------------
(***************************************************************************)
(* The inductive invariant.                                                *)
(***************************************************************************)

\* A poll reads the cache no later than Lag after the clock.
LooksSoon ==
  \A p \in Pollers :
    /\ pc[p] = "idle" => began[p] = 0
    /\ pc[p] = "looking" => began[p] <= Lag

\* What the cached decision has left and what it has been there for add up.
CacheAges == cache.left > -Lag => cache.left + cache.age = CacheSeconds

\* Every decision is floored at the demand it was made at.
Floored ==
  Mode = "max" =>
    /\ cache.decision.value >= cache.decision.observed
    /\ \A p \in Pollers : draft[p].value >= draft[p].observed

\* A forecast about to be smoothed is capped.
CappedFirst ==
  Mode = "max" /\ Factor > 0 =>
    \A p \in Pollers :
      pc[p] = "smoothing" /\ draft[p].observed > 0 =>
        predicted[p] <= Factor * draft[p].observed

\* The smoother's own reading of the clock is never younger than its update.
UpdatedBefore == ewma.updated >= ewma.since

EngineInv ==
  /\ TypeOK
  /\ LooksSoon
  /\ CacheAges
  /\ Floored
  /\ CappedFirst
  /\ SurgeBound
  /\ UpdatedBefore

=============================================================================
