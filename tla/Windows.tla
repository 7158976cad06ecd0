------------------------------- MODULE Windows -------------------------------
(***************************************************************************)
(* Windowing, features and the comparison of models (training/             *)
(* forecast_training/features.py, model.py, registry.py), as functions of  *)
(* the indices of the series: which samples a row reads, which it          *)
(* forecasts, and which rows two models are compared on.                   *)
(***************************************************************************)
EXTENDS Integers, FiniteSets

Largest(a, b) == IF a >= b THEN a ELSE b
Smallest(a, b) == IF a <= b THEN a ELSE b

\* int(round(a / b)): the even neighbour when a / b is half way between two.
Rounded(a, b) ==
  LET low == a \div b
      rest == 2 * (a % b)
  IN IF rest > b \/ (rest = b /\ low % 2 = 1) THEN low + 1 ELSE low

-----------------------------------------------------------------------------
(***************************************************************************)
(* The contract of a model.                                                *)
(***************************************************************************)
FeatureKinds == {"window", "anchored", "anchored_tod", "anchored_season"}
Timed(features) == features = "anchored_tod"
Seasonal(features) == features = "anchored_season"

\* ForecastMeta, as far as lengths go.
Sizes == [features : FeatureKinds, time_steps : Nat, horizon : Nat \ {0}, season_steps : Nat]

Meta(features, time_steps, horizon, season_steps) ==
  [features |-> features, time_steps |-> time_steps, horizon |-> horizon,
   season_steps |-> season_steps]

\* ForecastMeta.__post_init__ raises on any other contract.
MetaAccepted(m) ==
  /\ m.time_steps >= 2 /\ m.horizon >= 1
  /\ IF Seasonal(m.features) THEN m.season_steps >= m.horizon ELSE m.season_steps = 0

InputLength(m) == m.time_steps + m.season_steps

SeasonSteps(features, period, step) ==
  IF Seasonal(features) THEN Largest(1, Rounded(period, step)) ELSE 0

(***************************************************************************)
(* make_windows(): row i of a series of n samples.                         *)
(***************************************************************************)
Rows(n, m) == 0..(n - InputLength(m) - m.horizon)
FirstTarget(i, m) == i + InputLength(m)
Input(i, m) == i..(FirstTarget(i, m) - 1)
Targets(i, m) == FirstTarget(i, m)..(FirstTarget(i, m) + m.horizon - 1)

\* Faulty variant: one column too far.
LagNowNext(i, m) == i + m.time_steps

\* seasonal_lags(): column arithmetic on row i.
LagNow(i, m) == i + m.time_steps - 1

LagNext(i, m) == (i + m.time_steps)..(i + m.time_steps + m.horizon - 1)

\* The samples build_features() reads of row i, beyond the window.
Reads(i, m) ==
  (FirstTarget(i, m) - m.time_steps)..(FirstTarget(i, m) - 1)
    \cup (IF Seasonal(m.features) THEN {LagNow(i, m)} \cup LagNext(i, m) ELSE {})

\* holdout_windows(): the rows forecasting from split on; it raises when there
\* are none.
HoldoutRows(n, split, m) == {i \in Rows(n, m) : FirstTarget(i, m) >= split}

ScoredTargets(n, split, m) == {Targets(i, m) : i \in HoldoutRows(n, split, m)}

-----------------------------------------------------------------------------
(***************************************************************************)
(* train_and_select(): cfg is what the run was started with, and n, the    *)
(* length of its series.                                                   *)
(***************************************************************************)
Options ==
  [n : Nat, test_percent : 1..99, time_steps : Nat \ {0, 1}, horizon : Nat \ {0},
   period : Nat, step : Nat \ {0}, timestamps : BOOLEAN, candidates : SUBSET FeatureKinds]

Candidate(cfg, features) ==
  Meta(features, cfg.time_steps, cfg.horizon, SeasonSteps(features, cfg.period, cfg.step))

\* int(n * (1 - test_fraction)).
SplitAt(cfg) == (cfg.n * (100 - cfg.test_percent)) \div 100

\* "training part is too short for the requested window".
TooShort(cfg) == SplitAt(cfg) < cfg.time_steps + cfg.horizon

\* Faulty variant: the window is forgotten in front of the season.
SkippedSeasonOnly(cfg, features) ==
  LET m == Candidate(cfg, features) IN
  \/ Timed(features) /\ ~cfg.timestamps
  \/ Seasonal(features)
     /\ (m.season_steps < m.horizon \/ SplitAt(cfg) < m.season_steps + m.horizon)

Skipped(cfg, features) ==
  LET m == Candidate(cfg, features) IN
  \/ Timed(features) /\ ~cfg.timestamps
  \/ Seasonal(features)
     /\ (m.season_steps < m.horizon \/ SplitAt(cfg) < InputLength(m) + m.horizon)

Trained(cfg) == {features \in cfg.candidates : ~TooShort(cfg) /\ ~Skipped(cfg, features)}

\* fit_bundle() of the training part.
FittedRows(cfg, m) == Rows(SplitAt(cfg), m)

\* The seasonal baseline as a model: it reads one season before its window.
SeasonalBaseline(cfg) ==
  Meta("anchored_season", cfg.time_steps, cfg.horizon, Largest(1, Rounded(cfg.period, cfg.step)))

-----------------------------------------------------------------------------
(***************************************************************************)
(* _decide(): champion and winner on data newer than compare_from.         *)
(***************************************************************************)
LongerInput(a, b) == Largest(InputLength(a), InputLength(b))

\* Faulty variant: the shorter horizon is subtracted.
FreshShort(n, compare_from, a, b) ==
  n - Largest(compare_from, LongerInput(a, b)) - Smallest(a.horizon, b.horizon) + 1

Fresh(n, compare_from, a, b) ==
  n - Largest(compare_from, LongerInput(a, b)) - Largest(a.horizon, b.horizon) + 1

\* The rows one of the two is scored on.
Compared(n, compare_from, a, b, m) ==
  HoldoutRows(n, Largest(compare_from, LongerInput(a, b)), m)

\* Steps of the horizons that enter the comparison.
CommonSteps(a, b) == Smallest(a.horizon, b.horizon)

-----------------------------------------------------------------------------
(***************************************************************************)
(* What they promise.                                                      *)
(***************************************************************************)

\* "What happened a cycle ago over the stretch being forecast": the lags of
\* every row are its last sample and its targets, one season earlier.
SeasonAlignedIn(n, m) ==
  Seasonal(m.features) /\ MetaAccepted(m) =>
  \A i \in Rows(n, m) :
    /\ LagNow(i, m) = FirstTarget(i, m) - 1 - m.season_steps
    /\ LagNext(i, m) = {k - m.season_steps : k \in Targets(i, m)}
    /\ {LagNow(i, m)} \cup LagNext(i, m) \subseteq Input(i, m)

\* "All candidates are trained on the same chronological split and scored on the
\* same holdout": whatever a candidate reads, it is trained without an error
\* on samples before all that any candidate is scored on, and all of them are
\* scored on the same stretches.
SameHoldoutIn(cfg) ==
  \A f, g \in Trained(cfg) :
    LET a == Candidate(cfg, f)
        b == Candidate(cfg, g)
    IN /\ MetaAccepted(a)
       /\ FittedRows(cfg, a) # {}
       /\ \A i \in FittedRows(cfg, a), j \in HoldoutRows(cfg.n, SplitAt(cfg), b) :
            \A x \in Reads(i, a) \cup Targets(i, a), y \in Targets(j, b) : x < y
       /\ ScoredTargets(cfg.n, SplitAt(cfg), a) = ScoredTargets(cfg.n, SplitAt(cfg), b)

\* The windows _decide() counts before it compares are there for both models,
\* and when the models look equally far ahead they are all, and the same.
FreshCountIn(n, compare_from, a, b) ==
  Fresh(n, compare_from, a, b) >= 1 =>
    LET rows(m) == Compared(n, compare_from, a, b, m) IN
    /\ \A m \in {a, b} : Cardinality(rows(m)) >= Fresh(n, compare_from, a, b)
    /\ \E m \in {a, b} : Cardinality(rows(m)) = Fresh(n, compare_from, a, b)
    /\ a.horizon = b.horizon =>
         {Targets(i, a) : i \in rows(a)} = {Targets(i, b) : i \in rows(b)}

=============================================================================
