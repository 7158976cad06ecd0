------------------------------- MODULE Scoring -------------------------------
(***************************************************************************)
(* How candidates are scored and ranked (training/forecast_training/       *)
(* model.py).  Values are whole numbers, means are sums over the same      *)
(* steps.  A candidate is a tree with one split on the last value of the   *)
(* window: like any tree it tells apart only what it was trained on.       *)
(***************************************************************************)
EXTENDS Windows, FiniteSetsExt

\* A mean over the steps of a holdout, which are the same for all: the sum.
Total(terms) == MapThenSumSet(LAMBDA s : terms[s], DOMAIN terms)

\* Faulty variant: the two errors are swapped.
CostSwapped(steps, actual, forecast, under_weight) ==
  Total([s \in steps |-> Largest(actual[s] - forecast[s], 0)
                           + under_weight * Largest(forecast[s] - actual[s], 0)])

\* score(): shortfall weighs under_weight times what excess does.
Cost(steps, actual, forecast, under_weight) ==
  Total([s \in steps |-> under_weight * Largest(actual[s] - forecast[s], 0)
                           + Largest(forecast[s] - actual[s], 0)])

\* Steps forecast at or above what came.
Covered(steps, actual, forecast) == {s \in steps : forecast[s] >= actual[s]}

(***************************************************************************)
(* holdout_windows(): the steps forecast from split on.  values[0] is the  *)
(* oldest sample.                                                          *)
(***************************************************************************)
Samples(values) == Cardinality(DOMAIN values)

Steps(values, split, m) == HoldoutRows(Samples(values), split, m) \X (0..(m.horizon - 1))

Actual(values, m, s) == values[FirstTarget(s[1], m) + s[2]]

Last(values, m, s) == values[FirstTarget(s[1], m) - 1]

(***************************************************************************)
(* ForecastBundle.predict() and evaluate_bundle().                         *)
(***************************************************************************)
\* Candidates are trees with one split.
Trees == [target : {"delta", "level"}, at : Int, low : Int, high : Int]

Predict(tree, last) ==
  (IF tree.target = "delta" THEN last ELSE 0) + (IF last > tree.at THEN tree.high ELSE tree.low)

Evaluate(tree, values, split, m, under_weight) ==
  LET steps == Steps(values, split, m)
  IN Cost(steps, [s \in steps |-> Actual(values, m, s)],
          [s \in steps |-> Predict(tree, Last(values, m, s))], under_weight)

\* naive_score(): the last value for every step.
Naive(values, split, m, under_weight) ==
  LET steps == Steps(values, split, m)
  IN Cost(steps, [s \in steps |-> Actual(values, m, s)],
          [s \in steps |-> Last(values, m, s)], under_weight)

(***************************************************************************)
(* level_tracking(): the forecasts of windows lifted twice beyond all that *)
(* was seen in training, and how many times the lift they differ by.       *)
(***************************************************************************)
Lift(values, split) == Max({values[i] : i \in 0..(split - 1)})

\* A tree splits between values it was trained on.
SplitsInside(tree, values, split) == tree.at < Lift(values, split)

\* Faulty variant: the windows as they are against one lift.
MovesFromRange(tree, values, split, m) ==
  Total([s \in Steps(values, split, m) |->
           Predict(tree, Last(values, m, s) + Lift(values, split))
             - Predict(tree, Last(values, m, s))])

Moves(tree, values, split, m) ==
  Total([s \in Steps(values, split, m) |->
           Predict(tree, Last(values, m, s) + 2 * Lift(values, split))
             - Predict(tree, Last(values, m, s) + Lift(values, split))])

\* min_tracking in per cent.  A workload idle in training rules nobody out.
Eligible(tree, values, split, m, min_tracking) ==
  \/ Lift(values, split) <= 0
  \/ 100 * Moves(tree, values, split, m)
       >= min_tracking * Lift(values, split) * Cardinality(Steps(values, split, m))

\* results[0]: eligible first, then by cost; the order of the candidates
\* decides between equals.
Winner(trees, values, split, m, under_weight, min_tracking) ==
  LET rank(k) == IF Eligible(trees[k], values, split, m, min_tracking) THEN 0 ELSE 1
      cost(k) == Evaluate(trees[k], values, split, m, under_weight)
      before(j, k) == \/ rank(j) < rank(k)
                      \/ rank(j) = rank(k) /\ cost(j) < cost(k)
                      \/ rank(j) = rank(k) /\ cost(j) = cost(k) /\ j <= k
  IN CHOOSE j \in DOMAIN trees : \A k \in DOMAIN trees : before(j, k)

-----------------------------------------------------------------------------
(***************************************************************************)
(* What they promise.                                                      *)
(***************************************************************************)

\* "The forecast that minimises this expected cost is the w/(1+w) quantile of the
\* demand distribution": whichever level is forecast for all steps at the least
\* cost, a share of w/(1+w) of the steps is at or below it, and the same share
\* at most is below it.
QuantileIn(actual, under_weight) ==
  LET steps == DOMAIN actual
      level(c) == [s \in steps |-> c]
      cost(c) == Cost(steps, actual, level(c), under_weight)
      levels == 0..Max({actual[s] : s \in steps})
      share(part) == (1 + under_weight) * Cardinality(part)
  IN \A c \in levels : (\A d \in levels : cost(c) <= cost(d)) =>
       /\ share(Covered(steps, actual, level(c))) >= under_weight * Cardinality(steps)
       /\ share({s \in steps : actual[s] < c}) <= under_weight * Cardinality(steps)

\* On a holdout that has windows (the run ends with an error otherwise) a model
\* pinned to its training range never wins over one that follows the level of the
\* demand, whatever the holdout says of their costs; of those that follow the
\* cheapest wins, so a candidate that forecasts no change keeps the winner from
\* costing more than the baseline.
WinnerFollowsIn(trees, values, split, m, under_weight, min_tracking) ==
  LET winner == Winner(trees, values, split, m, under_weight, min_tracking)
      cost(k) == Evaluate(trees[k], values, split, m, under_weight)
      followers == {k \in DOMAIN trees : trees[k].target = "delta"}
      unchanged == {k \in followers : trees[k].low = 0 /\ trees[k].high = 0}
  IN /\ Steps(values, split, m) # {}
     /\ Lift(values, split) > 0 /\ followers # {}
     /\ \A k \in DOMAIN trees : SplitsInside(trees[k], values, split)
     =>
       /\ winner \in followers
       /\ \A k \in followers : cost(winner) <= cost(k)
       /\ unchanged # {} => cost(winner) <= Naive(values, split, m, under_weight)

=============================================================================
