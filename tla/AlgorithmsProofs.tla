--------------------------- MODULE AlgorithmsProofs ---------------------------
(***************************************************************************)
(* Proofs about the computations without a state of their own, for every   *)
(* input.  SpikeGate: the loop computes what its documentation says.       *)
(* Windows: the index arithmetic of training.  Scoring: the cheapest level *)
(* and the winner.  Grid: slots and exclusions.  Requests: what serving    *)
(* answers.  In between, induction and sums over finite sets.              *)
(***************************************************************************)
EXTENDS Algorithms, FiniteSetTheorems, TLAPS

\* What a step leaves alone: the inputs, hence which steps of the horizon rise.
LEMMA SameInputs ==
  ASSUME UNCHANGED inputs
  PROVE  /\ Len(horizon') = Len(horizon)
         /\ \A j : RisesAt(j)' <=> RisesAt(j)
BY DEF inputs, RisesAt, Rises, Replicas

\* The types hold initially and every step keeps them.
LEMMA TypeInit == Init => TypeOK
<1> SUFFICES ASSUME Init PROVE TypeOK
  OBVIOUS
<1>1. horizon \in Seq(0..MaxDemand) /\ Len(horizon) \in Nat
  BY ConstantsAssumption DEF Init
<1> QED
  BY <1>1 DEF Init, TypeOK

LEMMA TypeStep == TypeOK /\ [Next]_vars => TypeOK'
<1> SUFFICES ASSUME TypeOK, [Next]_vars PROVE TypeOK'
  OBVIOUS
<1>1. Len(horizon) \in Nat
  BY DEF TypeOK
<1>2. CASE Inactive
  BY <1>2 DEF Inactive, inputs, TypeOK
<1>3. CASE Step
  <2>1. longest' \in run'..i' /\ run' \in 0..i' /\ i' \in 0..Len(horizon) /\ rise_steps' \in 0..i'
    BY <1>1, <1>3 DEF Step, TypeOK, Greater
  <2> QED
    BY <1>3, <2>1 DEF Step, inputs, TypeOK
<1>4. CASE Judge
  BY <1>4 DEF Judge, inputs, TypeOK
<1>5. CASE UNCHANGED vars
  BY <1>5 DEF vars, TypeOK
<1> QED
  BY <1>2, <1>3, <1>4, <1>5 DEF Next

\* Every variable keeps to its type: the run and the longest run never exceed
\* the steps seen.
THEOREM TypeCorrect == Spec => []TypeOK
<1>1. Init => TypeOK
  BY TypeInit
<1>2. TypeOK /\ [Next]_vars => TypeOK'
  BY TypeStep
<1> QED
  BY <1>1, <1>2, PTL DEF Spec

-----------------------------------------------------------------------------
\* Nothing was seen yet: the loop invariant holds.
LEMMA LoopInit == Init => LoopInv
<1> SUFFICES ASSUME Init PROVE LoopInv
  OBVIOUS
<1>1. TypeOK
  BY TypeInit
<1>2. i = 0 /\ run = 0 /\ longest = 0 /\ rise_steps = 0 /\ verdict = "none"
  BY DEF Init
<1>3. RunEndsHere
  BY <1>2 DEF RunEndsHere
<1>4. LongestIsReached
  <2>1. 1 \in 1..(i - longest + 1) /\ 1..(1 + longest - 1) = {}
    BY <1>2
  <2> QED
    BY <2>1 DEF LongestIsReached
<1>5. LongestIsLongest
  BY <1>2 DEF LongestIsLongest
<1>6. RisesCounted
  BY <1>2 DEF RisesCounted
<1>7. Judged
  BY <1>2 DEF Judged
<1> QED
  BY <1>1, <1>3, <1>4, <1>5, <1>6, <1>7 DEF LoopInv

\* One step of the loop keeps the run that ends here and the longest run.
LEMMA StepKeepsRun ==
  ASSUME TypeOK, RunEndsHere, Step
  PROVE  RunEndsHere'
<1>1. \A j : RisesAt(j)' <=> RisesAt(j)
  BY SameInputs DEF Step
<1>2. i \in Nat /\ run \in 0..i /\ i' = i + 1
  BY DEF TypeOK, Step
<1>3. CASE RisesAt(i + 1)
  <2>1. run' = run + 1
    BY <1>3 DEF Step, RisesAt
  <2>2. \A j \in (i' - run' + 1)..i' : RisesAt(j)
    BY <1>2, <1>3, <2>1 DEF RunEndsHere
  <2>3. run' < i' => ~RisesAt(i' - run')
    <3>1. i' - run' = i - run
      BY <1>2, <2>1
    <3> QED
      BY <1>2, <2>1, <3>1 DEF RunEndsHere
  <2> QED
    BY <1>1, <2>2, <2>3 DEF RunEndsHere
<1>4. CASE ~RisesAt(i + 1)
  <2>1. run' = 0
    BY <1>4 DEF Step, RisesAt
  <2>2. (i' - run' + 1)..i' = {} /\ i' - run' = i + 1
    BY <1>2, <2>1
  <2> QED
    BY <1>1, <1>4, <2>2 DEF RunEndsHere
<1> QED
  BY <1>3, <1>4

\* The window of the r steps that end at n, and a window [a, n] that is not
\* inside it.
LEMMA LastWindow ==
  ASSUME NEW n \in Nat, NEW r \in 0..n
  PROVE  /\ n - r + 1 \in 1..(n - r + 1)
         /\ (n - r + 1) + r - 1 = n
         /\ \A a \in 1..n : a <= n - r => r < n /\ n - r \in a..n
         /\ \A a \in 1..n : ~(a <= n - r) => n - a + 1 <= r
OBVIOUS

LEMMA StepKeepsReached ==
  ASSUME TypeOK, RunEndsHere, LongestIsReached, Step
  PROVE  LongestIsReached'
<1>1. \A j : RisesAt(j)' <=> RisesAt(j)
  BY SameInputs DEF Step
<1>2. /\ i \in Nat /\ run \in 0..i /\ longest \in 0..i /\ i' = i + 1
      /\ run' \in 0..i'
      /\ longest' = longest \/ longest' = run'
  BY TypeStep DEF TypeOK, Step, Greater, Next
<1>3. CASE longest' = longest
  <2>1. PICK a \in 1..(i - longest + 1) : \A j \in a..(a + longest - 1) : RisesAt(j)
    BY DEF LongestIsReached
  <2>2. a \in 1..(i' - longest' + 1) /\ a + longest' - 1 = a + longest - 1
    BY <1>2, <1>3
  <2> QED
    BY <1>1, <2>1, <2>2 DEF LongestIsReached
<1>4. CASE longest' = run'
  <2>1. RunEndsHere'
    BY StepKeepsRun
  <2>2. \A j \in (i' - run' + 1)..i' : RisesAt(j)
    BY <1>1, <2>1 DEF RunEndsHere
  <2>3. /\ (i' - run' + 1) \in 1..(i' - longest' + 1)
        /\ (i' - run' + 1) + longest' - 1 = i'
    <3>1. i' \in Nat /\ run' \in 0..i'
      BY <1>2
    <3> QED
      BY <1>4, <3>1, LastWindow
  <2> QED
    BY <1>1, <2>2, <2>3 DEF LongestIsReached
<1> QED
  BY <1>2, <1>3, <1>4

LEMMA StepKeepsLongest ==
  ASSUME TypeOK, RunEndsHere, LongestIsLongest, Step
  PROVE  LongestIsLongest'
<1>1. \A j : RisesAt(j)' <=> RisesAt(j)
  BY SameInputs DEF Step
<1>2. /\ i \in Nat /\ longest \in 0..i /\ i' = i + 1
      /\ run' \in 0..i' /\ longest' \in 0..i'
      /\ longest' >= longest /\ longest' >= run'
  BY TypeStep DEF TypeOK, Step, Greater, Next
<1>3. SUFFICES ASSUME NEW a \in 1..i', NEW b \in a..i', \A j \in a..b : RisesAt(j)
               PROVE  b - a + 1 <= longest'
  BY <1>1 DEF LongestIsLongest
<1>4. CASE b <= i
  <2>1. a \in 1..i /\ b \in a..i
    BY <1>2, <1>3, <1>4
  <2>2. b - a + 1 <= longest
    BY <1>3, <2>1 DEF LongestIsLongest
  <2> QED
    BY <1>2, <2>2
<1>5. CASE b = i'
  <2>1. RunEndsHere'
    BY StepKeepsRun
  <2>2. run' < i' => ~RisesAt(i' - run')
    BY <1>1, <2>1 DEF RunEndsHere
  <2>3. i' \in Nat /\ run' \in 0..i'
    BY <1>2
  <2>4. ~(a <= i' - run')
    <3>1. SUFFICES ASSUME a <= i' - run' PROVE FALSE
      OBVIOUS
    <3>2. run' < i' /\ i' - run' \in a..b
      BY <1>3, <1>5, <2>3, <3>1, LastWindow
    <3> QED
      BY <1>3, <2>2, <3>2
  <2>5. i' - a + 1 <= run'
    BY <1>3, <2>3, <2>4, LastWindow
  <2> QED
    BY <1>2, <1>3, <1>5, <2>5
<1> QED
  BY <1>2, <1>3, <1>4, <1>5

LEMMA StepKeepsCount ==
  ASSUME TypeOK, RisesCounted, Step
  PROVE  RisesCounted'
<1>1. \A j : RisesAt(j)' <=> RisesAt(j)
  BY SameInputs DEF Step
<1>2. i \in Nat /\ rise_steps \in 0..i /\ i' = i + 1
  BY DEF TypeOK, Step
<1>3. \A j : j \in 1..i' <=> j \in 1..i \/ j = i + 1
  BY <1>2
<1>4. CASE RisesAt(i + 1)
  <2>1. rise_steps' = rise_steps + 1
    BY <1>4 DEF Step, RisesAt
  <2>2. rise_steps' # 0
    BY <1>2, <2>1
  <2>3. i + 1 \in 1..i'
    BY <1>2
  <2> QED
    BY <1>1, <1>4, <2>2, <2>3 DEF RisesCounted
<1>5. CASE ~RisesAt(i + 1)
  <2>1. rise_steps' = rise_steps
    BY <1>2, <1>5 DEF Step, RisesAt
  <2> QED
    BY <1>1, <1>3, <1>5, <2>1 DEF RisesCounted
<1> QED
  BY <1>4, <1>5

\* At the end of the loop the longest run reaches min_steps exactly when some
\* window of min_steps steps rises throughout.
LEMMA LongestDecides ==
  ASSUME TypeOK, LongestIsReached, LongestIsLongest,
         i = Len(horizon), min_steps > 1, Len(horizon) >= min_steps
  PROVE  Sustained <=> longest >= min_steps
<1>1. i \in Nat /\ longest \in 0..i /\ min_steps \in Nat
  BY DEF TypeOK
<1>2. ASSUME Sustained PROVE longest >= min_steps
  <2>1. PICK a \in 1..(Len(horizon) - min_steps + 1) :
          \A j \in a..(a + min_steps - 1) : RisesAt(j)
    BY <1>2 DEF Sustained
  <2>2. a \in 1..i /\ a + min_steps - 1 \in a..i
    BY <1>1
  <2>3. (a + min_steps - 1) - a + 1 <= longest
    BY <2>1, <2>2 DEF LongestIsLongest
  <2> QED
    BY <1>1, <2>2, <2>3
<1>3. ASSUME longest >= min_steps PROVE Sustained
  <2>1. PICK a \in 1..(i - longest + 1) : \A j \in a..(a + longest - 1) : RisesAt(j)
    BY DEF LongestIsReached
  <2>2. a \in 1..(Len(horizon) - min_steps + 1)
    BY <1>1, <1>3
  <2>3. \A j \in a..(a + min_steps - 1) : j \in a..(a + longest - 1)
    BY <1>1, <1>3
  <2> QED
    BY <2>1, <2>2, <2>3 DEF Sustained
<1> QED
  BY <1>2, <1>3

LEMMA JudgeIsRight ==
  ASSUME LoopInv, Judge
  PROVE  Judged'
<1>1. /\ i = Len(horizon) /\ min_steps > 1 /\ Len(horizon) >= min_steps
      /\ verdict' = IF rise_steps # 0 /\ longest < min_steps THEN "suppressed" ELSE "passed"
  BY DEF Judge
<1>2. Sustained <=> longest >= min_steps
  BY <1>1, LongestDecides DEF LoopInv
<1>3. longest < min_steps <=> ~Sustained
  <2>1. longest \in Int /\ min_steps \in Int
    BY DEF LoopInv, TypeOK
  <2> QED
    BY <1>2, <2>1
<1>4. rise_steps # 0 <=> \E j \in 1..Len(horizon) : RisesAt(j)
  BY <1>1 DEF LoopInv, RisesCounted
<1>5. Sustained' <=> Sustained
  BY DEF Judge, inputs, Sustained, RisesAt, Rises, Replicas
<1>6. \A j : RisesAt(j)' <=> RisesAt(j)
  BY SameInputs DEF Judge
<1>7. min_steps' = min_steps /\ horizon' = horizon
  BY DEF Judge, inputs
<1>8. verdict' = "suppressed" <=> rise_steps # 0 /\ longest < min_steps
  BY <1>1
<1> QED
  BY <1>1, <1>3, <1>4, <1>5, <1>6, <1>7, <1>8 DEF Judged

LEMMA LoopStep == LoopInv /\ [Next]_vars => LoopInv'
<1> SUFFICES ASSUME LoopInv, [Next]_vars PROVE LoopInv'
  OBVIOUS
<1>1. TypeOK'
  BY TypeStep DEF LoopInv
<1>2. CASE Step
  <2>1. Judged'
    BY <1>2 DEF Step, Judged
  <2> QED
    BY <1>1, <1>2, <2>1, StepKeepsRun, StepKeepsReached, StepKeepsLongest, StepKeepsCount
    DEF LoopInv
<1>3. CASE UNCHANGED <<inputs, i, rise_steps, run, longest>>
  <2>1. /\ \A j : RisesAt(j)' <=> RisesAt(j)
        /\ i' = i /\ rise_steps' = rise_steps /\ run' = run /\ longest' = longest
    BY <1>3, SameInputs
  <2>2. RunEndsHere'
    BY <2>1 DEF LoopInv, RunEndsHere
  <2>3. LongestIsReached'
    BY <2>1 DEF LoopInv, LongestIsReached
  <2>4. LongestIsLongest'
    BY <2>1 DEF LoopInv, LongestIsLongest
  <2>5. RisesCounted'
    BY <2>1 DEF LoopInv, RisesCounted
  <2>6. Judged'
    <3>1. CASE Judge
      BY <3>1, JudgeIsRight
    <3>2. CASE Inactive
      <4>1. verdict' = "passed" /\ min_steps' = min_steps /\ horizon' = horizon
        BY <3>2 DEF Inactive, inputs
      <4>2. ~(min_steps > 1 /\ Len(horizon) >= min_steps)
        <5>1. min_steps \in Int /\ Len(horizon) \in Int
          BY DEF LoopInv, TypeOK
        <5> QED
          BY <3>2, <5>1 DEF Inactive
      <4> QED
        BY <4>1, <4>2 DEF Judged
    <3>3. CASE UNCHANGED vars
      <4>1. verdict' = verdict /\ horizon' = horizon /\ min_steps' = min_steps /\ observed' = observed
        BY <3>3 DEF vars
      <4>2. Sustained' <=> Sustained
        BY <4>1 DEF Sustained, RisesAt, Rises, Replicas
      <4> QED
        BY <2>1, <4>1, <4>2 DEF LoopInv, Judged
    <3>4. CASE Step
      BY <3>4 DEF Step, Judged
    <3> QED
      BY <3>1, <3>2, <3>3, <3>4 DEF Next
  <2> QED
    BY <1>1, <2>2, <2>3, <2>4, <2>5, <2>6 DEF LoopInv
<1> QED
  BY <1>2, <1>3 DEF Next, Inactive, Judge, vars, inputs

\* The verdict of the loop is the documented one: suppressed exactly when some
\* step rises and no min_steps consecutive steps do.
THEOREM VerdictIsDocumented == Spec => []Judged
<1>1. Init => LoopInv
  BY LoopInit
<1>2. LoopInv /\ [Next]_vars => LoopInv'
  BY LoopStep
<1>3. LoopInv => Judged
  BY DEF LoopInv
<1> QED
  BY <1>1, <1>2, <1>3, PTL DEF Spec

-----------------------------------------------------------------------------
(***************************************************************************)
(* Windows: what a row reads and forecasts, and who is scored on what.     *)
(***************************************************************************)
\* seasonal_lags(): the columns it reads of a row are the row's last sample and
\* the stretch it forecasts, one season earlier, and all of them are in the row.
THEOREM LagsAreAligned ==
  ASSUME NEW n \in Nat, NEW m \in Sizes
  PROVE  SeasonAlignedIn(n, m)
<1> SUFFICES ASSUME Seasonal(m.features), MetaAccepted(m), NEW r \in Rows(n, m)
             PROVE  /\ LagNow(r, m) = FirstTarget(r, m) - 1 - m.season_steps
                    /\ LagNext(r, m) = {k - m.season_steps : k \in Targets(r, m)}
                    /\ {LagNow(r, m)} \cup LagNext(r, m) \subseteq Input(r, m)
  BY DEF SeasonAlignedIn
<1> DEFINE t == m.time_steps
           h == m.horizon
           s == m.season_steps
<1>1. t \in Nat /\ h \in Nat /\ s \in Nat  BY DEF Sizes
<1>2. t >= 2 /\ h >= 1 /\ s >= h  BY DEF MetaAccepted
<1>3. r \in Nat  BY <1>1 DEF Rows, InputLength
<1>4. FirstTarget(r, m) = r + t + s  BY <1>1, <1>3 DEF FirstTarget, InputLength
<1>5. LagNow(r, m) = r + t - 1 /\ LagNext(r, m) = (r + t)..(r + t + h - 1)
  BY DEF LagNow, LagNext
<1>6. Targets(r, m) = (r + t + s)..(r + t + s + h - 1)  BY <1>4 DEF Targets
<1>7. Input(r, m) = r..(r + t + s - 1)
  <2>1. InputLength(m) = t + s  BY DEF InputLength
  <2> QED BY <1>1, <1>3, <1>4, <2>1 DEF Input
<1> HIDE DEF t, h, s
<1>8. (r + t)..(r + t + h - 1) = {k - s : k \in (r + t + s)..(r + t + s + h - 1)}
  <2>1. ASSUME NEW j \in (r + t)..(r + t + h - 1)
        PROVE  \E k \in (r + t + s)..(r + t + s + h - 1) : j = k - s
    <3>1. j + s \in (r + t + s)..(r + t + s + h - 1) /\ j = (j + s) - s  BY <1>1, <1>3
    <3> QED BY <3>1
  <2>2. ASSUME NEW k \in (r + t + s)..(r + t + s + h - 1)
        PROVE  k - s \in (r + t)..(r + t + h - 1)
    BY <1>1, <1>3
  <2> QED BY <2>1, <2>2
<1>9. r + t - 1 = (r + t + s) - 1 - s  BY <1>1, <1>3
<1>10. {r + t - 1} \cup (r + t)..(r + t + h - 1) \subseteq r..(r + t + s - 1)
  BY <1>1, <1>2, <1>3
<1> QED BY <1>4, <1>5, <1>6, <1>7, <1>8, <1>9, <1>10 DEF t, h, s

\* holdout_windows(): the rows that forecast from split on are an interval.
LEMMA HoldoutInterval ==
  ASSUME NEW n \in Nat, NEW m \in Sizes, NEW split \in Nat
  PROVE  HoldoutRows(n, split, m) =
           Largest(0, split - InputLength(m))..(n - InputLength(m) - m.horizon)
<1>1. InputLength(m) \in Nat /\ m.horizon \in Nat  BY DEF Sizes, InputLength
<1> DEFINE l == InputLength(m)
<1>2. HoldoutRows(n, split, m) = {r \in 0..(n - l - m.horizon) : r + l >= split}
  BY DEF HoldoutRows, Rows, FirstTarget
<1> HIDE DEF l
<1>3. l \in Nat  BY <1>1 DEF l
<1>4. {r \in 0..(n - l - m.horizon) : r + l >= split} = Largest(0, split - l)..(n - l - m.horizon)
  BY <1>1, <1>3 DEF Largest
<1> QED BY <1>2, <1>4 DEF l

\* What is forecast by the rows from split on, when the first of them exists.
LEMMA ScoredStretches ==
  ASSUME NEW n \in Nat, NEW m \in Sizes, NEW split \in Nat, split >= InputLength(m)
  PROVE  {Targets(r, m) : r \in HoldoutRows(n, split, m)} =
           {k..(k + m.horizon - 1) : k \in split..(n - m.horizon)}
<1>1. InputLength(m) \in Nat /\ m.horizon \in Nat  BY DEF Sizes, InputLength
<1> DEFINE l == InputLength(m)
           h == m.horizon
<1>2. HoldoutRows(n, split, m) = Largest(0, split - l)..(n - l - h)  BY HoldoutInterval
<1>3. \A r : Targets(r, m) = (r + l)..(r + l + h - 1)  BY DEF Targets, FirstTarget
<1> HIDE DEF l, h
<1>4. l \in Nat /\ h \in Nat /\ split >= l  BY <1>1 DEF l, h
<1>5. Largest(0, split - l) = split - l  BY <1>4 DEF Largest
<1>6. {(r + l)..(r + l + h - 1) : r \in (split - l)..(n - l - h)} =
        {k..(k + h - 1) : k \in split..(n - h)}
  <2>1. ASSUME NEW r \in (split - l)..(n - l - h)
        PROVE  \E k \in split..(n - h) : (r + l)..(r + l + h - 1) = k..(k + h - 1)
    <3>1. r + l \in split..(n - h)  BY <1>4
    <3> QED BY <3>1
  <2>2. ASSUME NEW k \in split..(n - h)
        PROVE  \E r \in (split - l)..(n - l - h) : (r + l)..(r + l + h - 1) = k..(k + h - 1)
    <3>1. k - l \in (split - l)..(n - l - h) /\ (k - l) + l = k  BY <1>4
    <3> QED BY <3>1
  <2> QED BY <2>1, <2>2
<1>7. {Targets(r, m) : r \in HoldoutRows(n, split, m)} =
        {(r + l)..(r + l + h - 1) : r \in (split - l)..(n - l - h)}
  BY <1>2, <1>3, <1>5
<1> QED BY <1>6, <1>7 DEF h

-----------------------------------------------------------------------------
(***************************************************************************)
(* Windows: the candidates of one training run.                            *)
(***************************************************************************)

\* A rounded quotient is a whole number.
LEMMA RoundedIsInt ==
  ASSUME NEW a \in Nat, NEW b \in Nat \ {0}
  PROVE  Rounded(a, b) \in Int
<1>1. a \div b \in Int  OBVIOUS
<1> QED BY <1>1 DEF Rounded

\* What train_and_select() has checked of a candidate it goes on with.
LEMMA TrainedFits ==
  ASSUME NEW cfg \in Options, NEW f \in Trained(cfg)
  PROVE  /\ SplitAt(cfg) \in Nat
         /\ Candidate(cfg, f) \in Sizes
         /\ Candidate(cfg, f).horizon = cfg.horizon
         /\ MetaAccepted(Candidate(cfg, f))
         /\ InputLength(Candidate(cfg, f)) + cfg.horizon <= SplitAt(cfg)
<1> DEFINE m == Candidate(cfg, f)
           split == SplitAt(cfg)
<1>1. /\ cfg.n \in Nat /\ cfg.test_percent \in 1..99
      /\ cfg.time_steps \in Nat /\ cfg.time_steps >= 2
      /\ cfg.horizon \in Nat /\ cfg.horizon >= 1
      /\ cfg.period \in Nat /\ cfg.step \in Nat \ {0}
  BY DEF Options
<1>2. split \in Nat
  <2>1. 100 - cfg.test_percent \in Nat  BY <1>1
  <2>2. cfg.n * (100 - cfg.test_percent) \in Nat  BY <1>1, <2>1
  <2>3. \A x \in Nat : x \div 100 \in Nat  OBVIOUS
  <2> QED BY <2>2, <2>3 DEF SplitAt
<1>3. f \in FeatureKinds /\ ~TooShort(cfg) /\ ~Skipped(cfg, f)
  BY DEF Trained, Options
<1>4. /\ m.features = f /\ m.time_steps = cfg.time_steps /\ m.horizon = cfg.horizon
      /\ m.season_steps = SeasonSteps(f, cfg.period, cfg.step)
      /\ m = [features |-> f, time_steps |-> cfg.time_steps, horizon |-> cfg.horizon,
              season_steps |-> m.season_steps]
  BY DEF Candidate, Meta
<1>5. m.season_steps \in Nat /\ (~Seasonal(f) => m.season_steps = 0)
  <2>1. Rounded(cfg.period, cfg.step) \in Int  BY <1>1, RoundedIsInt
  <2> QED BY <1>4, <2>1 DEF SeasonSteps, Largest
<1>6. m \in Sizes  BY <1>1, <1>3, <1>4, <1>5 DEF Sizes
<1>7. Seasonal(f) => m.season_steps >= m.horizon /\ split >= InputLength(m) + m.horizon
  <2>1. Seasonal(f) => ~(m.season_steps < m.horizon) /\ ~(split < InputLength(m) + m.horizon)
    BY <1>3 DEF Skipped
  <2>2. InputLength(m) = m.time_steps + m.season_steps  BY DEF InputLength
  <2> HIDE DEF m, split
  <2> QED BY <2>1, <2>2, <1>1, <1>2, <1>4, <1>5
<1>8. split >= cfg.time_steps + cfg.horizon  BY <1>1, <1>2, <1>3 DEF TooShort
<1>9. InputLength(m) = m.time_steps + m.season_steps  BY DEF InputLength
<1>10. MetaAccepted(m)
  <2> HIDE DEF m
  <2> QED BY <1>1, <1>4, <1>5, <1>7 DEF MetaAccepted
<1>11. InputLength(m) + cfg.horizon <= split
  <2> HIDE DEF m, split
  <2> QED BY <1>1, <1>2, <1>4, <1>5, <1>7, <1>8, <1>9
<1> QED BY <1>2, <1>4, <1>6, <1>10, <1>11

\* train_and_select(): whatever candidates a run has and however long its series
\* and windows are, those not skipped are trained without an error on samples
\* before every one that is scored, and scored on the same stretches.
THEOREM HoldoutIsShared ==
  ASSUME NEW cfg \in Options
  PROVE  SameHoldoutIn(cfg)
<1> SUFFICES ASSUME NEW f \in Trained(cfg), NEW g \in Trained(cfg)
             PROVE  /\ MetaAccepted(Candidate(cfg, f))
                    /\ FittedRows(cfg, Candidate(cfg, f)) # {}
                    /\ \A r \in FittedRows(cfg, Candidate(cfg, f)),
                          j \in HoldoutRows(cfg.n, SplitAt(cfg), Candidate(cfg, g)) :
                         \A x \in Reads(r, Candidate(cfg, f)) \cup Targets(r, Candidate(cfg, f)),
                            y \in Targets(j, Candidate(cfg, g)) : x < y
                    /\ ScoredTargets(cfg.n, SplitAt(cfg), Candidate(cfg, f))
                         = ScoredTargets(cfg.n, SplitAt(cfg), Candidate(cfg, g))
  BY DEF SameHoldoutIn
<1> DEFINE a == Candidate(cfg, f)
           b == Candidate(cfg, g)
           split == SplitAt(cfg)
           h == cfg.horizon
<1>1. /\ split \in Nat /\ a \in Sizes /\ a.horizon = h /\ MetaAccepted(a)
      /\ InputLength(a) + h <= split
  BY TrainedFits
<1>2. b \in Sizes /\ b.horizon = h /\ InputLength(b) + h <= split
  BY TrainedFits
<1>3. cfg.n \in Nat /\ h \in Nat /\ h >= 1  BY DEF Options
<1>4. FittedRows(cfg, a) = 0..(split - InputLength(a) - h)  BY <1>1 DEF FittedRows, Rows
<1> HIDE DEF a, b, split, h
<1>5. /\ a.time_steps \in Nat /\ a.season_steps \in Nat
      /\ InputLength(a) = a.time_steps + a.season_steps
      /\ InputLength(b) \in Nat
  BY <1>1, <1>2 DEF Sizes, InputLength
<1>6. 0 \in FittedRows(cfg, a)  BY <1>1, <1>3, <1>4, <1>5
<1>7. ASSUME NEW r \in FittedRows(cfg, a), NEW j \in HoldoutRows(cfg.n, split, b),
             NEW x \in Reads(r, a) \cup Targets(r, a), NEW y \in Targets(j, b)
      PROVE  x < y
  <2>1. r \in Nat /\ r + InputLength(a) + h <= split  BY <1>1, <1>3, <1>4, <1>5
  <2>2. j \in Nat /\ j + InputLength(b) >= split
    BY <1>3, <1>5, <1>2 DEF HoldoutRows, Rows, FirstTarget
  <2>3. y \in (j + InputLength(b))..(j + InputLength(b) + h - 1)
    BY <1>2 DEF Targets, FirstTarget
  <2>4. y \in Int /\ y >= split  BY <1>1, <1>3, <1>5, <2>2, <2>3
  <2>5. CASE x \in Targets(r, a)
    <3>1. x \in (r + InputLength(a))..(r + InputLength(a) + h - 1)
      BY <1>1, <2>5 DEF Targets, FirstTarget
    <3> QED BY <1>1, <1>3, <1>5, <2>1, <2>4, <3>1
  <2>6. CASE x \in Reads(r, a)
    <3>1. \/ x \in (r + InputLength(a) - a.time_steps)..(r + InputLength(a) - 1)
          \/ x = r + a.time_steps - 1
          \/ x \in (r + a.time_steps)..(r + a.time_steps + h - 1)
      <4> DEFINE window == (FirstTarget(r, a) - a.time_steps)..(FirstTarget(r, a) - 1)
                 lags == {LagNow(r, a)} \cup LagNext(r, a)
      <4>1. Reads(r, a) = window \cup (IF Seasonal(a.features) THEN lags ELSE {})  BY DEF Reads
      <4>2. LagNow(r, a) = r + a.time_steps - 1  BY DEF LagNow
      <4>3. LagNext(r, a) = (r + a.time_steps)..(r + a.time_steps + h - 1)  BY <1>1 DEF LagNext
      <4>4. x \in window \/ x \in lags
        <5> HIDE DEF window, lags
        <5> QED BY <2>6, <4>1
      <4>5. window = (r + InputLength(a) - a.time_steps)..(r + InputLength(a) - 1)
        BY <1>5, <2>1 DEF FirstTarget
      <4>6. lags = {r + a.time_steps - 1} \cup (r + a.time_steps)..(r + a.time_steps + h - 1)
        BY <4>2, <4>3
      <4> HIDE DEF window, lags
      <4> QED BY <4>4, <4>5, <4>6
    <3> QED BY <1>1, <1>3, <1>5, <2>1, <2>4, <3>1
  <2> QED BY <2>5, <2>6
<1>8. split >= InputLength(a) /\ split >= InputLength(b)  BY <1>1, <1>2, <1>3, <1>5
<1>9. ScoredTargets(cfg.n, split, a) = ScoredTargets(cfg.n, split, b)
  <2>1. ScoredTargets(cfg.n, split, a) = {k..(k + a.horizon - 1) : k \in split..(cfg.n - a.horizon)}
    BY <1>1, <1>3, <1>8, ScoredStretches DEF ScoredTargets
  <2>2. ScoredTargets(cfg.n, split, b) = {k..(k + b.horizon - 1) : k \in split..(cfg.n - b.horizon)}
    BY <1>1, <1>2, <1>3, <1>8, ScoredStretches DEF ScoredTargets
  <2> QED BY <1>1, <1>2, <2>1, <2>2
<1> QED BY <1>1, <1>6, <1>7, <1>9 DEF a, b, split

-----------------------------------------------------------------------------
\* _decide(): of a series of any length and for models of any two sizes, the
\* windows counted as fresh are there for both, and are all there are for one;
\* when the horizons are equal both are scored on the same stretches.
THEOREM FreshIsThere ==
  ASSUME NEW n \in Nat, NEW compare_from \in Nat, NEW a \in Sizes, NEW b \in Sizes
  PROVE  FreshCountIn(n, compare_from, a, b)
<1> DEFINE start == Largest(compare_from, LongerInput(a, b))
           rows(m) == HoldoutRows(n, start, m)
           fresh == Fresh(n, compare_from, a, b)
<1>1. \A m \in {a, b} : InputLength(m) \in Nat /\ m.horizon \in Nat  BY DEF Sizes, InputLength
<1>2. start \in Nat /\ \A m \in {a, b} : start >= InputLength(m)
  BY <1>1 DEF Largest, LongerInput
<1>3. fresh = n - start - Largest(a.horizon, b.horizon) + 1  BY DEF Fresh
<1> HIDE DEF start, fresh
<1>4. \A m \in {a, b} : n - start - m.horizon + 1 >= fresh  BY <1>1, <1>2, <1>3 DEF Largest
<1>5. \E m \in {a, b} : n - start - m.horizon + 1 = fresh  BY <1>1, <1>2, <1>3 DEF Largest
<1> SUFFICES ASSUME fresh >= 1
             PROVE  /\ \A m \in {a, b} : Cardinality(rows(m)) >= fresh
                    /\ \E m \in {a, b} : Cardinality(rows(m)) = fresh
                    /\ a.horizon = b.horizon =>
                         {Targets(r, a) : r \in rows(a)} = {Targets(r, b) : r \in rows(b)}
  BY DEF FreshCountIn, Compared, start, fresh
<1>6. fresh \in Int  BY <1>1, <1>2, <1>3 DEF Largest
<1>7. ASSUME NEW m \in {a, b}  PROVE Cardinality(rows(m)) = n - start - m.horizon + 1
  <2> DEFINE l == InputLength(m)
             h == m.horizon
             first == start - l
             last == n - l - h
  <2>1. l \in Nat /\ h \in Nat /\ start >= l  BY <1>1, <1>2
  <2>2. rows(m) = Largest(0, first)..last  BY <1>2, HoldoutInterval
  <2>3. n - start - h + 1 >= 1  BY <1>4, <1>6, <1>2, <2>1
  <2> HIDE DEF l, h
  <2>4. Largest(0, first) = first /\ first \in Int /\ last \in Int  BY <1>2, <2>1 DEF Largest
  <2>5. Cardinality(first..last) = IF first > last THEN 0 ELSE last - first + 1
    <3> HIDE DEF first, last
    <3> QED BY <2>4, FS_Interval
  <2>6. last - first + 1 = n - start - h + 1  BY <1>2, <2>1
  <2>7. ~(first > last)  BY <1>2, <2>1, <2>3
  <2> QED BY <2>2, <2>4, <2>5, <2>6, <2>7 DEF h
<1>8. a.horizon = b.horizon =>
        {Targets(r, a) : r \in rows(a)} = {Targets(r, b) : r \in rows(b)}
  <2>1. {Targets(r, a) : r \in HoldoutRows(n, start, a)} =
          {k..(k + a.horizon - 1) : k \in start..(n - a.horizon)}
    BY <1>2, ScoredStretches
  <2>2. {Targets(r, b) : r \in HoldoutRows(n, start, b)} =
          {k..(k + b.horizon - 1) : k \in start..(n - b.horizon)}
    BY <1>2, ScoredStretches
  <2> QED BY <2>1, <2>2
<1> QED BY <1>4, <1>5, <1>7, <1>8

-----------------------------------------------------------------------------
(***************************************************************************)
(* Induction, over sets of numbers and of sets instead of predicates.      *)
(***************************************************************************)

\* A set of numbers that holds 0 and every successor holds all.
LEMMA NaturalsInduct ==
  ASSUME NEW F \in SUBSET Nat, 0 \in F, \A n \in F : n + 1 \in F
  PROVE  F = Nat
<1> DEFINE T == Nat \ F
<1> SUFFICES ASSUME T # {} PROVE FALSE  OBVIOUS
<1>1. PICK n \in T : \A m \in T : ~(<<m, n>> \in OpToRel(<, Nat))
  <2>1. T \subseteq Nat  OBVIOUS
  <2> HIDE DEF T
  <2> QED BY <2>1, NatLessThanWellFounded, WFMin
<1>2. n \in Nat /\ n # 0  OBVIOUS
<1>3. n - 1 \in Nat /\ n - 1 < n /\ (n - 1) + 1 = n  BY <1>2
<1>4. n - 1 \in T  BY <1>3
<1>5. <<n - 1, n>> \in OpToRel(<, Nat)  BY <1>2, <1>3 DEF OpToRel
<1> QED BY <1>1, <1>4, <1>5

\* A set of subsets of a finite set that holds every one whose smaller ones it
\* holds, holds all.
LEMMA SubsetsInduct ==
  ASSUME NEW S, IsFiniteSet(S), NEW F \in SUBSET SUBSET S,
         \A s \in SUBSET S : (\A t \in SUBSET S : t \subseteq s /\ t # s => t \in F) => s \in F
  PROVE  F = SUBSET S
<1> DEFINE T == (SUBSET S) \ F
<1> SUFFICES ASSUME T # {} PROVE FALSE  OBVIOUS
<1>1. PICK s \in T : \A t \in T : ~(<<t, s>> \in StrictSubsetOrdering(S))
  <2>1. T \subseteq FiniteSubsetsOf(S)  BY FS_FiniteSubsetsOfFinite
  <2> HIDE DEF T
  <2> QED BY <2>1, FS_StrictSubsetOrderingWellFounded, WFMin
<1>2. \A t \in SUBSET S : t \subseteq s /\ t # s => t \in F
  BY <1>1 DEF StrictSubsetOrdering
<1> QED BY <1>1, <1>2

-----------------------------------------------------------------------------
(***************************************************************************)
(* Sums.                                                                   *)
(***************************************************************************)
AnyOf(s) == CHOOSE x \in s : TRUE

\* What the fold computes of each set, as an equation.
SumsOf(f, D, g) == g = [s \in D |-> IF s = {} THEN 0 ELSE f[AnyOf(s)] + g[s \ {AnyOf(s)}]]

SumOver(f, S) == CHOOSE g : SumsOf(f, SUBSET S, g)

\* The fold is that function.
LEMMA TotalIsSum ==
  ASSUME NEW f
  PROVE  Total(f) = SumOver(f, DOMAIN f)[DOMAIN f]
BY DEF Total, MapThenSumSet, MapThenFoldSet, SumOver, SumsOf, AnyOf

\* The function exists: it is built up by the number of elements.
LEMMA SumsExist ==
  ASSUME NEW f, NEW S, IsFiniteSet(S)
  PROVE  \E g : SumsOf(f, SUBSET S, g)
<1> DEFINE D(n) == {s \in SUBSET S : Cardinality(s) <= n}
           F == {n \in Nat : \E g : SumsOf(f, D(n), g)}
<1>1. \A s \in SUBSET S : IsFiniteSet(s) /\ Cardinality(s) \in Nat /\ Cardinality(s) <= Cardinality(S)
  BY FS_Subset, FS_CardinalityType
<1>2. \A s \in SUBSET S : s # {} =>
         /\ AnyOf(s) \in s
         /\ s \ {AnyOf(s)} \in SUBSET S
         /\ Cardinality(s \ {AnyOf(s)}) = Cardinality(s) - 1
  <2> SUFFICES ASSUME NEW s \in SUBSET S, s # {}
               PROVE /\ AnyOf(s) \in s
                     /\ s \ {AnyOf(s)} \in SUBSET S
                     /\ Cardinality(s \ {AnyOf(s)}) = Cardinality(s) - 1
    OBVIOUS
  <2>1. AnyOf(s) \in s  BY DEF AnyOf
  <2> QED BY <1>1, <2>1, FS_RemoveElement
<1>3. 0 \in F
  <2> DEFINE g == [s \in D(0) |-> 0]
  <2>1. \A s \in D(0) : s = {}  BY <1>1, FS_EmptySet
  <2>2. SumsOf(f, D(0), g)  BY <2>1 DEF SumsOf
  <2> QED BY <2>2
<1>4. ASSUME NEW n \in F  PROVE n + 1 \in F
  <2>1. PICK g : SumsOf(f, D(n), g)  OBVIOUS
  <2> DEFINE h == [s \in D(n + 1) |-> IF Cardinality(s) <= n THEN g[s]
                                      ELSE f[AnyOf(s)] + g[s \ {AnyOf(s)}]]
  <2>2. ASSUME NEW s \in D(n + 1)
        PROVE  h[s] = IF s = {} THEN 0 ELSE f[AnyOf(s)] + h[s \ {AnyOf(s)}]
    <3>1. CASE s = {}
      <4>1. Cardinality(s) <= n /\ s \in D(n)  BY <3>1, <1>1, FS_EmptySet
      <4> QED BY <2>1, <3>1, <4>1 DEF SumsOf
    <3>2. CASE s # {}
      <4> DEFINE r == s \ {AnyOf(s)}
      <4>1. r \in SUBSET S /\ Cardinality(r) = Cardinality(s) - 1  BY <1>2, <3>2
      <4>2. Cardinality(r) <= n /\ r \in D(n + 1)  BY <1>1, <4>1
      <4>3. h[r] = g[r]  BY <4>2
      <4>4. CASE Cardinality(s) <= n
        <5>1. s \in D(n) /\ h[s] = g[s]  BY <4>4
        <5>2. g[s] = f[AnyOf(s)] + g[r]  BY <2>1, <3>2, <5>1 DEF SumsOf
        <5> QED BY <3>2, <4>3, <5>1, <5>2
      <4>5. CASE ~(Cardinality(s) <= n)
        BY <3>2, <4>3, <4>5
      <4> QED BY <4>4, <4>5
    <3> QED BY <3>1, <3>2
  <2>3. SumsOf(f, D(n + 1), h)
    <3> DEFINE e == [s \in D(n + 1) |-> IF s = {} THEN 0 ELSE f[AnyOf(s)] + h[s \ {AnyOf(s)}]]
    <3>1. h = e
      <4>1. \A s \in D(n + 1) : h[s] = e[s]  BY <2>2
      <4>2. DOMAIN h = D(n + 1) /\ DOMAIN e = D(n + 1)  OBVIOUS
      <4> QED BY <4>1
    <3> HIDE DEF h
    <3> QED BY <3>1 DEF SumsOf
  <2>4. n + 1 \in Nat /\ \E k : SumsOf(f, D(n + 1), k)
    <3> HIDE DEF h, D
    <3> QED BY <2>3
  <2> QED BY <2>4
<1>5. F = Nat
  <2> HIDE DEF F
  <2>1. F \in SUBSET Nat  BY DEF F
  <2> QED BY <1>3, <1>4, <2>1, NaturalsInduct
<1>6. D(Cardinality(S)) = SUBSET S  BY <1>1
<1>7. Cardinality(S) \in Nat  BY FS_CardinalityType
<1>8. \E g : SumsOf(f, D(Cardinality(S)), g)
  <2> HIDE DEF D
  <2> QED BY <1>5, <1>7
<1> QED
  <2> HIDE DEF D
  <2> QED BY <1>6, <1>8

\* The equations of a sum.
LEMMA SumSteps ==
  ASSUME NEW f, NEW S, IsFiniteSet(S), NEW s \in SUBSET S
  PROVE  SumOver(f, S)[s] = IF s = {} THEN 0 ELSE f[AnyOf(s)] + SumOver(f, S)[s \ {AnyOf(s)}]
<1>1. SumsOf(f, SUBSET S, SumOver(f, S))  BY SumsExist DEF SumOver
<1> QED BY <1>1 DEF SumsOf

\* A sum of whole numbers is one, and is no smaller when its summands are not.
LEMMA TotalMonotone ==
  ASSUME NEW S, IsFiniteSet(S), NEW f \in [S -> Int], NEW g \in [S -> Int],
         \A s \in S : f[s] <= g[s]
  PROVE  Total(f) \in Int /\ Total(g) \in Int /\ Total(f) <= Total(g)
<1> DEFINE F == {s \in SUBSET S : /\ SumOver(f, S)[s] \in Int /\ SumOver(g, S)[s] \in Int
                                  /\ SumOver(f, S)[s] <= SumOver(g, S)[s]}
<1>1. ASSUME NEW s \in SUBSET S, \A t \in SUBSET S : t \subseteq s /\ t # s => t \in F
      PROVE  s \in F
  <2>1. CASE s = {}
    <3>1. SumOver(f, S)[s] = 0 /\ SumOver(g, S)[s] = 0  BY <2>1, SumSteps
    <3> QED BY <3>1
  <2>2. CASE s # {}
    <3> DEFINE x == AnyOf(s)
               r == s \ {x}
    <3>1. x \in s  BY <2>2 DEF AnyOf
    <3>2. r \in F
      <4>1. r \in SUBSET S /\ r \subseteq s /\ r # s  BY <3>1
      <4> HIDE DEF F, r
      <4> QED BY <1>1, <4>1
    <3>3. SumOver(f, S)[s] = f[x] + SumOver(f, S)[r]  BY <2>2, SumSteps
    <3>4. SumOver(g, S)[s] = g[x] + SumOver(g, S)[r]  BY <2>2, SumSteps
    <3>5. f[x] \in Int /\ g[x] \in Int /\ f[x] <= g[x]  BY <3>1
    <3> HIDE DEF x, r
    <3> QED BY <3>2, <3>3, <3>4, <3>5
  <2> QED BY <2>1, <2>2
<1>2. F = SUBSET S
  <2> HIDE DEF F
  <2>1. F \in SUBSET SUBSET S  BY DEF F
  <2> QED BY <1>1, <2>1, SubsetsInduct
<1>3. S \in F  BY <1>2
<1>4. Total(f) = SumOver(f, S)[S] /\ Total(g) = SumOver(g, S)[S]  BY TotalIsSum
<1> QED BY <1>3, <1>4

\* The sum of sums.
LEMMA TotalAdds ==
  ASSUME NEW S, IsFiniteSet(S), NEW f \in [S -> Int], NEW g \in [S -> Int],
         NEW h \in [S -> Int], \A s \in S : h[s] = f[s] + g[s]
  PROVE  Total(h) = Total(f) + Total(g)
<1> DEFINE F == {s \in SUBSET S : /\ SumOver(f, S)[s] \in Int /\ SumOver(g, S)[s] \in Int
                                  /\ SumOver(h, S)[s] = SumOver(f, S)[s] + SumOver(g, S)[s]}
<1>1. ASSUME NEW s \in SUBSET S, \A t \in SUBSET S : t \subseteq s /\ t # s => t \in F
      PROVE  s \in F
  <2>1. CASE s = {}
    <3>1. SumOver(f, S)[s] = 0 /\ SumOver(g, S)[s] = 0 /\ SumOver(h, S)[s] = 0
      BY <2>1, SumSteps
    <3> QED BY <3>1
  <2>2. CASE s # {}
    <3> DEFINE x == AnyOf(s)
               r == s \ {x}
    <3>1. x \in s  BY <2>2 DEF AnyOf
    <3>2. r \in F
      <4>1. r \in SUBSET S /\ r \subseteq s /\ r # s  BY <3>1
      <4> HIDE DEF F, r
      <4> QED BY <1>1, <4>1
    <3>3. SumOver(f, S)[s] = f[x] + SumOver(f, S)[r]  BY <2>2, SumSteps
    <3>4. SumOver(g, S)[s] = g[x] + SumOver(g, S)[r]  BY <2>2, SumSteps
    <3>5. SumOver(h, S)[s] = h[x] + SumOver(h, S)[r]  BY <2>2, SumSteps
    <3>6. f[x] \in Int /\ g[x] \in Int /\ h[x] = f[x] + g[x]  BY <3>1
    <3> HIDE DEF x, r
    <3> QED BY <3>2, <3>3, <3>4, <3>5, <3>6
  <2> QED BY <2>1, <2>2
<1>2. F = SUBSET S
  <2> HIDE DEF F
  <2>1. F \in SUBSET SUBSET S  BY DEF F
  <2> QED BY <1>1, <2>1, SubsetsInduct
<1>3. S \in F  BY <1>2
<1>4. /\ Total(f) = SumOver(f, S)[S] /\ Total(g) = SumOver(g, S)[S]
      /\ Total(h) = SumOver(h, S)[S]
  BY TotalIsSum
<1> QED BY <1>3, <1>4

\* The sum of two values.
LEMMA TotalOfTwo ==
  ASSUME NEW S, IsFiniteSet(S), NEW P \in SUBSET S, NEW a \in Int, NEW b \in Int
  PROVE  Total([s \in S |-> IF s \in P THEN a ELSE b]) = a * Cardinality(P) + b * Cardinality(S \ P)
<1> DEFINE f == [s \in S |-> IF s \in P THEN a ELSE b]
           F == {s \in SUBSET S :
                   SumOver(f, S)[s] = a * Cardinality(s \cap P) + b * Cardinality(s \ P)}
<1>1. ASSUME NEW s \in SUBSET S, \A t \in SUBSET S : t \subseteq s /\ t # s => t \in F
      PROVE  s \in F
  <2>1. CASE s = {}
    <3>1. SumOver(f, S)[s] = 0  BY <2>1, SumSteps
    <3>2. s \cap P = {} /\ s \ P = {}  BY <2>1
    <3>3. a * 0 + b * 0 = 0  OBVIOUS
    <3> HIDE DEF f
    <3> QED BY <3>1, <3>2, <3>3, FS_EmptySet
  <2>2. CASE s # {}
    <3> DEFINE x == AnyOf(s)
               r == s \ {x}
               m == Cardinality(r \cap P)
               n == Cardinality(r \ P)
    <3>1. x \in s  BY <2>2 DEF AnyOf
    <3>2. r \in F
      <4>1. r \in SUBSET S /\ r \subseteq s /\ r # s  BY <3>1
      <4> HIDE DEF F, r
      <4> QED BY <1>1, <4>1
    <3>3. SumOver(f, S)[s] = f[x] + SumOver(f, S)[r]
      <4> HIDE DEF f
      <4> QED BY <2>2, SumSteps
    <3>4. f[x] = IF x \in P THEN a ELSE b  BY <3>1
    <3>5. SumOver(f, S)[r] = a * m + b * n  BY <3>2
    <3>6. IsFiniteSet(s \cap P) /\ IsFiniteSet(s \ P)
      <4>1. s \cap P \in SUBSET S /\ s \ P \in SUBSET S  OBVIOUS
      <4> QED BY <4>1, FS_Subset
    <3>7. /\ Cardinality(s \cap P) \in Nat /\ Cardinality(s \ P) \in Nat
      BY <3>6, FS_CardinalityType
    <3>8. CASE x \in P
      <4>1. r \cap P = (s \cap P) \ {x} /\ r \ P = s \ P /\ x \in s \cap P  BY <3>1, <3>8
      <4>2. m = Cardinality(s \cap P) - 1 /\ n = Cardinality(s \ P)
        <5> DEFINE T == s \cap P
        <5>1. Cardinality(T \ {x}) = Cardinality(T) - 1
          <6>1. IsFiniteSet(T) /\ x \in T  BY <3>6, <4>1
          <6> HIDE DEF T, x
          <6> QED BY <6>1, FS_RemoveElement
        <5>2. T \ {x} = r \cap P  BY <4>1
        <5> QED BY <4>1, <5>1, <5>2
      <4> HIDE DEF f, x, r, m, n
      <4>3. SumOver(f, S)[s] = a + (a * m + b * n)  BY <3>3, <3>4, <3>5, <3>8
      <4>4. m \in Int /\ n \in Int /\ Cardinality(s \cap P) = m + 1  BY <3>7, <4>2
      <4>5. a * (m + 1) = a * m + a  BY <4>4
      <4>6. a * m \in Int /\ b * n \in Int  BY <4>4
      <4>7. SumOver(f, S)[s] = a * (m + 1) + b * n  BY <4>3, <4>5, <4>6
      <4> QED BY <4>2, <4>4, <4>7
    <3>9. CASE x \notin P
      <4>1. r \cap P = s \cap P /\ r \ P = (s \ P) \ {x} /\ x \in s \ P  BY <3>1, <3>9
      <4>2. m = Cardinality(s \cap P) /\ n = Cardinality(s \ P) - 1
        <5> DEFINE T == s \ P
        <5>1. Cardinality(T \ {x}) = Cardinality(T) - 1
          <6>1. IsFiniteSet(T) /\ x \in T  BY <3>6, <4>1
          <6> HIDE DEF T, x
          <6> QED BY <6>1, FS_RemoveElement
        <5>2. T \ {x} = r \ P  BY <4>1
        <5> QED BY <4>1, <5>1, <5>2
      <4> HIDE DEF f, x, r, m, n
      <4>3. SumOver(f, S)[s] = b + (a * m + b * n)  BY <3>3, <3>4, <3>5, <3>9
      <4>4. m \in Int /\ n \in Int /\ Cardinality(s \ P) = n + 1  BY <3>7, <4>2
      <4>5. b * (n + 1) = b * n + b  BY <4>4
      <4>6. a * m \in Int /\ b * n \in Int  BY <4>4
      <4>7. SumOver(f, S)[s] = a * m + b * (n + 1)  BY <4>3, <4>5, <4>6
      <4> QED BY <4>2, <4>4, <4>7
    <3> QED BY <3>8, <3>9
  <2> QED BY <2>1, <2>2
<1>2. F = SUBSET S
  <2> HIDE DEF F
  <2>1. F \in SUBSET SUBSET S  BY DEF F
  <2> QED BY <1>1, <2>1, SubsetsInduct
<1>3. S \in F /\ S \cap P = P  BY <1>2
<1>4. Total(f) = SumOver(f, S)[S]  BY TotalIsSum
<1> HIDE DEF f
<1> QED BY <1>3, <1>4 DEF f

-----------------------------------------------------------------------------
(***************************************************************************)
(* Scoring: costs, and what the order of the candidates gives.             *)
(***************************************************************************)
\* Costs of one level for all steps are whole numbers, and to raise it by one costs
\* one for every step it covers and saves the weight for every other.
LEMMA CostOfLevels ==
  ASSUME NEW actual, IsFiniteSet(DOMAIN actual), \A s \in DOMAIN actual : actual[s] \in Nat,
         NEW w \in Nat, NEW c \in Nat
  PROVE  LET steps == DOMAIN actual
             level(d) == [s \in steps |-> d]
             below == {s \in steps : actual[s] <= c}
         IN /\ Cost(steps, actual, level(c), w) \in Int
            /\ Cardinality(below) \in Nat /\ Cardinality(steps) \in Nat
            /\ Cost(steps, actual, level(c + 1), w) =
                 Cost(steps, actual, level(c), w)
                   + (1 + w) * Cardinality(below) - w * Cardinality(steps)
<1> DEFINE S == DOMAIN actual
           P == {s \in S : actual[s] <= c}
           f == [s \in S |-> w * Largest(actual[s] - [x \in S |-> c][s], 0)
                               + Largest([x \in S |-> c][s] - actual[s], 0)]
           h == [s \in S |-> w * Largest(actual[s] - [x \in S |-> c + 1][s], 0)
                               + Largest([x \in S |-> c + 1][s] - actual[s], 0)]
           g == [s \in S |-> IF s \in P THEN 1 ELSE -w]
<1>1. /\ Cost(S, actual, [x \in S |-> c], w) = Total(f)
      /\ Cost(S, actual, [x \in S |-> c + 1], w) = Total(h)
  BY DEF Cost
<1>2. ASSUME NEW s \in S
      PROVE  f[s] \in Int /\ g[s] \in Int /\ h[s] \in Int /\ h[s] = f[s] + g[s]
  <2> DEFINE a == actual[s]
  <2>1. a \in Nat  OBVIOUS
  <2>2. /\ f[s] = w * Largest(a - c, 0) + Largest(c - a, 0)
        /\ h[s] = w * Largest(a - (c + 1), 0) + Largest((c + 1) - a, 0)
        /\ g[s] = IF a <= c THEN 1 ELSE -w
    OBVIOUS
  <2> HIDE DEF a, f, g, h
  <2>3. CASE a <= c
    <3>1. /\ Largest(a - c, 0) = 0 /\ Largest(c - a, 0) = c - a
          /\ Largest(a - (c + 1), 0) = 0 /\ Largest((c + 1) - a, 0) = c - a + 1
      BY <2>1, <2>3 DEF Largest
    <3>2. w * 0 = 0  OBVIOUS
    <3>3. f[s] = c - a /\ h[s] = c - a + 1 /\ g[s] = 1  BY <2>1, <2>2, <2>3, <3>1, <3>2
    <3> QED BY <2>1, <3>3
  <2>4. CASE ~(a <= c)
    <3>1. /\ Largest(a - c, 0) = a - c /\ Largest(c - a, 0) = 0
          /\ Largest(a - (c + 1), 0) = a - c - 1 /\ Largest((c + 1) - a, 0) = 0
      BY <2>1, <2>4 DEF Largest
    <3>2. w * (a - c - 1) = w * (a - c) - w /\ w * (a - c) \in Int
      BY <2>1
    <3>3. f[s] = w * (a - c) /\ h[s] = w * (a - c) - w /\ g[s] = -w
      BY <2>2, <2>4, <3>1, <3>2
    <3> QED BY <3>2, <3>3
  <2> QED BY <2>3, <2>4
<1>3. f \in [S -> Int] /\ g \in [S -> Int] /\ h \in [S -> Int]
  <2>1. \A s \in S : f[s] \in Int /\ g[s] \in Int /\ h[s] \in Int  BY <1>2
  <2>2. f = [s \in S |-> f[s]] /\ g = [s \in S |-> g[s]] /\ h = [s \in S |-> h[s]]  OBVIOUS
  <2> HIDE DEF f, g, h
  <2> QED BY <2>1, <2>2
<1>4. Total(h) = Total(f) + Total(g)
  <2> HIDE DEF f, g, h
  <2> QED BY <1>2, <1>3, TotalAdds
<1>5. Total(g) = 1 * Cardinality(P) + (-w) * Cardinality(S \ P)
  <2> HIDE DEF S
  <2>1. IsFiniteSet(S)  BY DEF S
  <2>2. P \in SUBSET S /\ 1 \in Int /\ -w \in Int  OBVIOUS
  <2> HIDE DEF P
  <2> QED BY <2>1, <2>2, TotalOfTwo
<1>6. Total(f) \in Int
  <2>1. \A s \in S : f[s] <= f[s]  BY <1>2
  <2> HIDE DEF f
  <2> QED BY <1>3, <2>1, TotalMonotone
<1>7. /\ Cardinality(P) \in Nat /\ Cardinality(S) \in Nat
      /\ Cardinality(S \ P) = Cardinality(S) - Cardinality(P)
  <2>1. P \subseteq S /\ IsFiniteSet(S)  OBVIOUS
  <2>2. IsFiniteSet(P) /\ S \cap P = P
    <3> HIDE DEF P, S
    <3> QED BY <2>1, FS_Subset
  <2>3. Cardinality(S \ P) = Cardinality(S) - Cardinality(S \cap P)
    <3> HIDE DEF P, S
    <3> QED BY <2>1, <2>2, FS_Difference
  <2> HIDE DEF P, S
  <2> QED BY <2>1, <2>2, <2>3, FS_CardinalityType
<1>8. Total(h) = Total(f) + (1 + w) * Cardinality(P) - w * Cardinality(S)
  <2> DEFINE n == Cardinality(S)
             k == Cardinality(P)
  <2>1. n \in Int /\ k \in Int  BY <1>7
  <2>2. (-w) * (n - k) = w * k - w * n /\ (1 + w) * k = k + w * k /\ w * k \in Int /\ w * n \in Int
    <3> HIDE DEF n, k
    <3> QED BY <2>1
  <2>3. Total(g) = k + (w * k - w * n)
    <3>1. 1 * k = k  BY <2>1
    <3> HIDE DEF g
    <3> QED BY <1>5, <1>7, <2>2, <3>1
  <2> HIDE DEF f, g, h, n, k
  <2>4. Total(h) = Total(f) + (k + (w * k - w * n))  BY <1>4, <2>3
  <2>5. Total(h) = Total(f) + (1 + w) * k - w * n
    BY <1>6, <2>1, <2>2, <2>4
  <2> QED BY <2>5 DEF n, k
<1> HIDE DEF f, g, h
<1> QED BY <1>1, <1>6, <1>7, <1>8

\* A finite set of numbers that is not empty has a largest and a smallest one.
LEMMA Extremes ==
  ASSUME NEW S \in SUBSET Int, IsFiniteSet(S), S # {}
  PROVE  /\ Max(S) \in S /\ \A y \in S : y <= Max(S)
         /\ Min(S) \in S /\ \A y \in S : Min(S) <= y
<1> DEFINE F == {s \in SUBSET S : s = {} \/ /\ \E x \in s : \A y \in s : x >= y
                                            /\ \E x \in s : \A y \in s : x <= y}
<1>1. ASSUME NEW s \in SUBSET S, \A t \in SUBSET S : t \subseteq s /\ t # s => t \in F
      PROVE  s \in F
  <2>1. CASE s = {}  BY <2>1
  <2>2. CASE s # {}
    <3>1. PICK a \in s : TRUE  BY <2>2
    <3> DEFINE r == s \ {a}
    <3>2. r \in F
      <4>1. r \in SUBSET S /\ r \subseteq s /\ r # s  BY <3>1
      <4> HIDE DEF F, r
      <4> QED BY <1>1, <4>1
    <3>3. \E x \in s : \A y \in s : x >= y
      <4>1. CASE r = {}  BY <3>1, <4>1
      <4>2. CASE r # {}
        <5>1. PICK x \in r : \A y \in r : x >= y  BY <3>2, <4>2
        <5>2. CASE a >= x
          <6>1. \A y \in s : a >= y  BY <3>1, <5>1, <5>2
          <6> QED BY <3>1, <6>1
        <5>3. CASE ~(a >= x)
          <6>1. \A y \in s : x >= y  BY <3>1, <5>1, <5>3
          <6> QED BY <5>1, <6>1
        <5> QED BY <5>2, <5>3
      <4> QED BY <4>1, <4>2
    <3>4. \E x \in s : \A y \in s : x <= y
      <4>1. CASE r = {}  BY <3>1, <4>1
      <4>2. CASE r # {}
        <5>1. PICK x \in r : \A y \in r : x <= y  BY <3>2, <4>2
        <5>2. CASE a <= x
          <6>1. \A y \in s : a <= y  BY <3>1, <5>1, <5>2
          <6> QED BY <3>1, <6>1
        <5>3. CASE ~(a <= x)
          <6>1. \A y \in s : x <= y  BY <3>1, <5>1, <5>3
          <6> QED BY <5>1, <6>1
        <5> QED BY <5>2, <5>3
      <4> QED BY <4>1, <4>2
    <3> QED BY <3>3, <3>4
  <2> QED BY <2>1, <2>2
<1>2. F = SUBSET S
  <2> HIDE DEF F
  <2>1. F \in SUBSET SUBSET S  BY DEF F
  <2> QED BY <1>1, <2>1, SubsetsInduct
<1>3. S \in F  BY <1>2
<1>4. /\ \E x \in S : \A y \in S : x >= y
      /\ \E x \in S : \A y \in S : x <= y
  BY <1>3
<1>5. /\ Max(S) \in S /\ \A y \in S : Max(S) >= y
      /\ Min(S) \in S /\ \A y \in S : Min(S) <= y
  BY <1>4 DEF Max, Min
<1> QED BY <1>5

\* A function on a finite set has finitely many values.
LEMMA ValuesAreFinite ==
  ASSUME NEW f, IsFiniteSet(DOMAIN f)
  PROVE  IsFiniteSet({f[s] : s \in DOMAIN f})
<1> DEFINE S == DOMAIN f
           T == {f[s] : s \in DOMAIN f}
           g == [s \in S |-> f[s]]
<1>1. g \in Surjection(S, T)  BY DEF Surjection
<1>2. IsFiniteSet(S)  OBVIOUS
<1> HIDE DEF S, T, g
<1>3. IsFiniteSet(T)  BY <1>1, <1>2, FS_Surjection
<1> QED BY <1>3 DEF T

\* score(): of the levels that could be forecast for any holdout the cheapest covers
\* a share of w / (1 + w) of the steps, and what is below it no more than that.
THEOREM CheapestIsQuantile ==
  ASSUME NEW actual, IsFiniteSet(DOMAIN actual), DOMAIN actual # {},
         \A s \in DOMAIN actual : actual[s] \in Nat,
         NEW w \in Nat
  PROVE  QuantileIn(actual, w)
<1> DEFINE S == DOMAIN actual
           level(c) == [s \in S |-> c]
           cost(c) == Cost(S, actual, level(c), w)
           top == Max({actual[s] : s \in S})
           at(c) == {s \in S : actual[s] <= c}
           n == Cardinality(S)
<1>1. /\ top \in Nat /\ \A s \in S : actual[s] <= top
  <2> DEFINE T == {actual[s] : s \in S}
  <2>1. T \in SUBSET Int /\ T \in SUBSET Nat /\ T # {}  OBVIOUS
  <2>2. IsFiniteSet(T)  BY ValuesAreFinite
  <2>3. Max(T) \in T /\ \A y \in T : y <= Max(T)
    <3> HIDE DEF T
    <3> QED BY <2>1, <2>2, Extremes
  <2> QED BY <2>1, <2>3
<1>2. n \in Nat  BY FS_CardinalityType
<1>3. ASSUME NEW c \in Nat
      PROVE  /\ cost(c) \in Int /\ Cardinality(at(c)) \in Nat
             /\ cost(c + 1) = cost(c) + (1 + w) * Cardinality(at(c)) - w * n
  BY <1>3, CostOfLevels
<1> HIDE DEF cost, top
<1> SUFFICES ASSUME NEW c \in 0..top, \A d \in 0..top : cost(c) <= cost(d)
             PROVE  /\ (1 + w) * Cardinality(Covered(S, actual, level(c))) >= w * n
                    /\ (1 + w) * Cardinality({s \in S : actual[s] < c}) <= w * n
  BY DEF QuantileIn, cost, top
<1>4. c \in Nat /\ c <= top  BY <1>1
<1>5. Covered(S, actual, level(c)) = at(c)  BY <1>4 DEF Covered
<1>6. w * n \in Nat /\ \A k \in Nat : (1 + w) * k \in Nat /\ (1 + w) * k >= w * k
  <2>1. ASSUME NEW k \in Nat  PROVE (1 + w) * k \in Nat /\ (1 + w) * k >= w * k
    <3>1. (1 + w) * k = k + w * k /\ w * k \in Nat  OBVIOUS
    <3> QED BY <3>1
  <2> HIDE DEF n
  <2> QED BY <1>2, <2>1
<1>7. (1 + w) * Cardinality(at(c)) >= w * n
  <2>1. CASE c = top
    <3>1. at(c) = S  BY <1>1, <2>1
    <3> HIDE DEF at
    <3> QED BY <1>2, <1>6, <3>1
  <2>2. CASE c # top
    <3>1. c + 1 \in 0..top  BY <1>1, <1>4, <2>2
    <3>2. cost(c) <= cost(c + 1)  BY <3>1
    <3> DEFINE k == (1 + w) * Cardinality(at(c))
    <3>3. k \in Int /\ cost(c) \in Int /\ cost(c + 1) = cost(c) + k - w * n  BY <1>3, <1>4, <1>6
    <3> HIDE DEF k, n
    <3>4. k >= w * n  BY <1>6, <3>2, <3>3
    <3> QED BY <3>4 DEF k
  <2> QED BY <2>1, <2>2
<1>8. (1 + w) * Cardinality({s \in S : actual[s] < c}) <= w * n
  <2>1. CASE c = 0
    <3>1. {s \in S : actual[s] < c} = {}  BY <2>1
    <3>2. Cardinality({s \in S : actual[s] < c}) = 0  BY <3>1, FS_EmptySet
    <3>3. (1 + w) * 0 = 0  OBVIOUS
    <3> HIDE DEF n
    <3> QED BY <1>6, <3>2, <3>3
  <2>2. CASE c # 0
    <3> DEFINE d == c - 1
               k == (1 + w) * Cardinality(at(d))
    <3>1. d \in Nat /\ d \in 0..top /\ c = d + 1  BY <1>1, <1>4, <2>2
    <3>2. {s \in S : actual[s] < c} = at(d)  BY <3>1
    <3> HIDE DEF d
    <3>3. k \in Int /\ cost(d) \in Int /\ cost(c) = cost(d) + k - w * n  BY <1>3, <1>6, <3>1
    <3>4. cost(c) <= cost(d)  BY <3>1
    <3> HIDE DEF k, n
    <3>5. k <= w * n  BY <1>6, <3>3, <3>4
    <3> QED BY <3>2, <3>5 DEF k
  <2> QED BY <2>1, <2>2
<1> QED BY <1>5, <1>7, <1>8

\* Of finitely many there is a first one: by rank, then by cost, then by place.
LEMMA FirstOfBest ==
  ASSUME NEW K \in SUBSET Int, IsFiniteSet(K), K # {},
         NEW r \in [K -> Int], NEW c \in [K -> Int]
  PROVE  \E j \in K : \A k \in K : \/ r[j] < r[k]
                                   \/ r[j] = r[k] /\ c[j] < c[k]
                                   \/ r[j] = r[k] /\ c[j] = c[k] /\ j <= k
<1> DEFINE R == {r[k] : k \in K}
           A == {k \in K : r[k] = Min(R)}
           C == {c[k] : k \in A}
           B == {k \in A : c[k] = Min(C)}
<1>1. Min(R) \in R /\ \A y \in R : Min(R) <= y
  <2>1. R \in SUBSET Int /\ R # {}  OBVIOUS
  <2>2. IsFiniteSet(R)  BY ValuesAreFinite
  <2> HIDE DEF R
  <2> QED BY <2>1, <2>2, Extremes
<1>2. A \subseteq K /\ A # {} /\ IsFiniteSet(A)
  <2>1. A \subseteq K /\ A # {}
    <3>1. PICK k \in K : Min(R) = r[k]  BY <1>1
    <3> QED BY <3>1
  <2> HIDE DEF A
  <2> QED BY <2>1, FS_Subset
<1>3. Min(C) \in C /\ \A y \in C : Min(C) <= y
  <2> DEFINE d == [k \in A |-> c[k]]
  <2>1. C \in SUBSET Int /\ C # {}  BY <1>2
  <2>2. IsFiniteSet(C)
    <3>1. DOMAIN d = A /\ C = {d[k] : k \in DOMAIN d}  OBVIOUS
    <3> HIDE DEF d, A, C
    <3> QED BY <1>2, <3>1, ValuesAreFinite
  <2> HIDE DEF C
  <2> QED BY <2>1, <2>2, Extremes
<1>4. B \subseteq A /\ B # {} /\ IsFiniteSet(B)
  <2>1. B \subseteq A /\ B # {}
    <3>1. PICK k \in A : Min(C) = c[k]  BY <1>3
    <3> QED BY <3>1
  <2> HIDE DEF A, B
  <2> QED BY <1>2, <2>1, FS_Subset
<1>5. Min(B) \in B /\ \A y \in B : Min(B) <= y
  <2>1. B \in SUBSET Int  BY <1>2, <1>4
  <2> HIDE DEF B
  <2> QED BY <1>4, <2>1, Extremes
<1> DEFINE j == Min(B)
<1>6. j \in K /\ r[j] = Min(R) /\ c[j] = Min(C) /\ j \in Int  BY <1>5
<1>7. ASSUME NEW k \in K
      PROVE  \/ r[j] < r[k]
             \/ r[j] = r[k] /\ c[j] < c[k]
             \/ r[j] = r[k] /\ c[j] = c[k] /\ j <= k
  <2>1. r[j] <= r[k]  BY <1>1, <1>6
  <2>2. r[j] \in Int /\ r[k] \in Int /\ c[j] \in Int /\ c[k] \in Int  BY <1>6
  <2>3. r[j] = r[k] => c[j] <= c[k]  BY <1>3, <1>6
  <2>4. r[j] = r[k] /\ c[j] = c[k] => j <= k
    <3>1. r[j] = r[k] /\ c[j] = c[k] => k \in B  BY <1>6
    <3> HIDE DEF B
    <3> QED BY <1>5, <3>1
  <2> HIDE DEF j
  <2> QED BY <2>1, <2>2, <2>3, <2>4
<1> HIDE DEF j
<1> QED BY <1>6, <1>7

\* A holdout: finitely many steps, each with a value to forecast and one before it.
LEMMA HoldoutSteps ==
  ASSUME NEW n \in Nat, NEW values \in [0..(n - 1) -> Nat], NEW split \in Nat \ {0},
         NEW m \in Sizes, MetaAccepted(m)
  PROVE  /\ IsFiniteSet(Steps(values, split, m))
         /\ \A s \in Steps(values, split, m) :
              Actual(values, m, s) \in Nat /\ Last(values, m, s) \in Nat
<1> DEFINE l == InputLength(m)
           h == m.horizon
<1>1. l \in Nat /\ h \in Nat /\ l >= 2 /\ h >= 1
  BY DEF Sizes, MetaAccepted, InputLength
<1>2. Samples(values) = n
  <2>1. DOMAIN values = 0..(n - 1)  OBVIOUS
  <2>2. Cardinality(0..(n - 1)) = IF 0 > n - 1 THEN 0 ELSE (n - 1) - 0 + 1  BY FS_Interval
  <2> QED BY <2>1, <2>2 DEF Samples
<1>3. Steps(values, split, m) = HoldoutRows(n, split, m) \X (0..(h - 1))  BY <1>2 DEF Steps
<1>4. HoldoutRows(n, split, m) = Largest(0, split - l)..(n - l - h)  BY HoldoutInterval
<1> HIDE DEF l, h
<1>5. IsFiniteSet(Steps(values, split, m))
  <2>1. IsFiniteSet(0..(h - 1))  BY <1>1, FS_Interval
  <2>2. IsFiniteSet(Largest(0, split - l)..(n - l - h))
    <3>1. Largest(0, split - l) \in Int /\ n - l - h \in Int  BY <1>1 DEF Largest
    <3> QED BY <3>1, FS_Interval
  <2> DEFINE A == Largest(0, split - l)..(n - l - h)
             B == 0..(h - 1)
  <2>3. Steps(values, split, m) = A \X B  BY <1>3, <1>4
  <2> HIDE DEF A, B
  <2>4. IsFiniteSet(A) /\ IsFiniteSet(B)  BY <2>1, <2>2 DEF A, B
  <2> QED BY <2>3, <2>4, FS_Product
<1>6. ASSUME NEW s \in Steps(values, split, m)
      PROVE  Actual(values, m, s) \in Nat /\ Last(values, m, s) \in Nat
  <2> DEFINE a == s[1]
             b == s[2]
  <2>1. a \in Largest(0, split - l)..(n - l - h) /\ b \in 0..(h - 1)  BY <1>3, <1>4
  <2>2. FirstTarget(a, m) = a + l  BY DEF FirstTarget, l
  <2>3. Actual(values, m, s) = values[a + l + b] /\ Last(values, m, s) = values[a + l - 1]
    <3>1. /\ Actual(values, m, s) = values[FirstTarget(a, m) + b]
          /\ Last(values, m, s) = values[FirstTarget(a, m) - 1]
      BY DEF Actual, Last
    <3>2. a \in Int /\ b \in Int /\ l \in Int  BY <1>1, <2>1 DEF Largest
    <3> HIDE DEF a, b
    <3> QED BY <2>2, <3>1, <3>2
  <2> HIDE DEF a, b
  <2>4. a + l + b \in 0..(n - 1) /\ a + l - 1 \in 0..(n - 1)
    BY <1>1, <2>1 DEF Largest
  <2> QED BY <2>3, <2>4
<1> QED BY <1>5, <1>6

LEMMA LiftIsNat ==
  ASSUME NEW n \in Nat, NEW values \in [0..(n - 1) -> Nat], NEW split \in Nat \ {0}, split < n
  PROVE  Lift(values, split) \in Nat
<1> DEFINE f == [x \in 0..(split - 1) |-> values[x]]
           T == {f[x] : x \in DOMAIN f}
<1>1. Lift(values, split) = Max(T)
  <2>1. {values[x] : x \in 0..(split - 1)} = T  OBVIOUS
  <2> HIDE DEF T
  <2> QED BY <2>1 DEF Lift
<1>2. T \in SUBSET Nat /\ T \in SUBSET Int
  <2>1. \A x \in 0..(split - 1) : x \in 0..(n - 1) /\ values[x] \in Nat  OBVIOUS
  <2> QED BY <2>1
<1>3. T # {}
  <2>1. 0 \in DOMAIN f  OBVIOUS
  <2> HIDE DEF f
  <2> QED BY <2>1
<1>4. IsFiniteSet(T)
  <2>1. IsFiniteSet(DOMAIN f)  BY FS_Interval
  <2> HIDE DEF f
  <2> QED BY <2>1, ValuesAreFinite
<1>5. Max(T) \in T
  <2> HIDE DEF T
  <2> QED BY <1>2, <1>3, <1>4, Extremes
<1> HIDE DEF T
<1> QED BY <1>1, <1>2, <1>5

\* level_tracking(): lifted beyond all that a tree was trained on, a forecast of the
\* change follows every lift, and a forecast of the level none.
LEMMA MovesOfTree ==
  ASSUME NEW n \in Nat, NEW values \in [0..(n - 1) -> Nat], NEW split \in Nat \ {0}, split < n,
         NEW m \in Sizes, MetaAccepted(m), NEW tree \in Trees,
         Lift(values, split) > 0, SplitsInside(tree, values, split)
  PROVE  Moves(tree, values, split, m) =
           IF tree.target = "delta"
             THEN Lift(values, split) * Cardinality(Steps(values, split, m)) ELSE 0
<1> DEFINE S == Steps(values, split, m)
           L == Lift(values, split)
           d == IF tree.target = "delta" THEN L ELSE 0
           f == [s \in S |-> Predict(tree, Last(values, m, s) + 2 * L)
                               - Predict(tree, Last(values, m, s) + L)]
           g == [s \in S |-> IF s \in S THEN d ELSE 0]
<1>1. L \in Nat /\ tree.at \in Int /\ tree.at < L /\ tree.high \in Int /\ L > 0
  BY LiftIsNat DEF SplitsInside, Trees
<1>2. ASSUME NEW s \in S
      PROVE  f[s] = g[s]
  <2> DEFINE x == Last(values, m, s)
  <2>1. x \in Nat  BY HoldoutSteps
  <2>2. f[s] = Predict(tree, x + 2 * L) - Predict(tree, x + L)  OBVIOUS
  <2> HIDE DEF x, L, f
  <2>3. x + 2 * L > tree.at /\ x + L > tree.at  BY <1>1, <2>1
  <2>4. CASE tree.target = "delta"
    <3>1. Predict(tree, x + 2 * L) = x + 2 * L + tree.high  BY <2>3, <2>4 DEF Predict
    <3>2. Predict(tree, x + L) = x + L + tree.high  BY <2>3, <2>4 DEF Predict
    <3>3. (x + 2 * L + tree.high) - (x + L + tree.high) = L  BY <1>1, <2>1
    <3> QED BY <2>2, <2>4, <3>1, <3>2, <3>3
  <2>5. CASE tree.target # "delta"
    <3>1. Predict(tree, x + 2 * L) = 0 + tree.high /\ Predict(tree, x + L) = 0 + tree.high
      BY <2>3, <2>5 DEF Predict
    <3>2. (0 + tree.high) - (0 + tree.high) = 0  BY <1>1
    <3> QED BY <2>2, <2>5, <3>1, <3>2
  <2> QED BY <2>4, <2>5
<1>3. f = g
  <2>1. DOMAIN f = S /\ DOMAIN g = S  OBVIOUS
  <2>2. f = [s \in S |-> f[s]] /\ g = [s \in S |-> g[s]]  OBVIOUS
  <2> HIDE DEF f, g
  <2> QED BY <1>2, <2>2
<1>4. Moves(tree, values, split, m) = Total(f)  BY DEF Moves
<1>5. Total(g) = d * Cardinality(S) + 0 * Cardinality(S \ S)
  <2>1. IsFiniteSet(S)  BY HoldoutSteps
  <2>2. d \in Int /\ 0 \in Int /\ S \in SUBSET S  BY <1>1
  <2> HIDE DEF S, d
  <2> QED BY <2>1, <2>2, TotalOfTwo
<1>6. Cardinality(S) \in Nat /\ Cardinality(S \ S) \in Nat
  <2>1. IsFiniteSet(S) /\ IsFiniteSet(S \ S)
    <3>1. IsFiniteSet(S)  BY HoldoutSteps
    <3>2. S \ S = {}  OBVIOUS
    <3> HIDE DEF S
    <3> QED BY <3>1, <3>2, FS_EmptySet
  <2> HIDE DEF S
  <2> QED BY <2>1, FS_CardinalityType
<1>7. Total(f) = d * Cardinality(S)
  <2> HIDE DEF f, g, S
  <2>1. Total(f) = d * Cardinality(S) + 0 * Cardinality(S \ S)  BY <1>3, <1>5
  <2>2. d \in Int  BY <1>1
  <2>3. 0 * Cardinality(S \ S) = 0 /\ d * Cardinality(S) \in Int
    <3> HIDE DEF d
    <3> QED BY <1>6, <2>2
  <2> HIDE DEF d
  <2> QED BY <2>1, <2>3
<1>8. d * Cardinality(S) = IF tree.target = "delta" THEN L * Cardinality(S) ELSE 0
  <2> HIDE DEF S, L
  <2>1. 0 * Cardinality(S) = 0  BY <1>6
  <2> QED BY <2>1
<1> HIDE DEF f, g, d
<1> QED BY <1>4, <1>7, <1>8 DEF S, L

\* The cost of a tree on a holdout is a whole number.
LEMMA EvaluateIsInt ==
  ASSUME NEW n \in Nat, NEW values \in [0..(n - 1) -> Nat], NEW split \in Nat \ {0},
         NEW m \in Sizes, MetaAccepted(m), NEW tree \in Trees, NEW w \in Nat
  PROVE  Evaluate(tree, values, split, m, w) \in Int
<1> DEFINE S == Steps(values, split, m)
           actual == [s \in S |-> Actual(values, m, s)]
           forecast == [s \in S |-> Predict(tree, Last(values, m, s))]
           f == [s \in S |-> w * Largest(actual[s] - forecast[s], 0)
                               + Largest(forecast[s] - actual[s], 0)]
<1>1. Evaluate(tree, values, split, m, w) = Total(f)  BY DEF Evaluate, Cost
<1>2. ASSUME NEW s \in S  PROVE f[s] \in Int
  <2>1. actual[s] \in Nat /\ Last(values, m, s) \in Nat  BY HoldoutSteps
  <2>2. forecast[s] \in Int
    <3>1. forecast[s] = Predict(tree, Last(values, m, s))  OBVIOUS
    <3>2. tree.low \in Int /\ tree.high \in Int  BY DEF Trees
    <3> HIDE DEF forecast
    <3> QED BY <2>1, <3>1, <3>2 DEF Predict
  <2>3. f[s] = w * Largest(actual[s] - forecast[s], 0) + Largest(forecast[s] - actual[s], 0)
    OBVIOUS
  <2> HIDE DEF actual, forecast, f
  <2>4. /\ Largest(actual[s] - forecast[s], 0) \in Int
        /\ Largest(forecast[s] - actual[s], 0) \in Int
    BY <2>1, <2>2 DEF Largest
  <2>5. w * Largest(actual[s] - forecast[s], 0) \in Int  BY <2>4
  <2> QED BY <2>3, <2>4, <2>5
<1>3. f \in [S -> Int]  BY <1>2
<1>4. Total(f) \in Int
  <2>1. IsFiniteSet(S)  BY HoldoutSteps
  <2>2. \A s \in S : f[s] <= f[s]  BY <1>2
  <2> HIDE DEF f, S
  <2> QED BY <1>3, <2>1, <2>2, TotalMonotone
<1> QED BY <1>1, <1>4

\* level_tracking() and the order of results: for every series and holdout and any
\* candidates that split inside what they were trained on, the winner follows the
\* level of the demand if any of them does, is the cheapest of those, and costs no
\* more than the last value repeated if a candidate does just that.
THEOREM FollowerWins ==
  ASSUME NEW n \in Nat, NEW values \in [0..(n - 1) -> Nat], NEW split \in Nat \ {0}, split < n,
         NEW m \in Sizes, MetaAccepted(m), NEW trees \in Seq(Trees), NEW w \in Nat,
         NEW min_tracking \in 1..100
  PROVE  WinnerFollowsIn(trees, values, split, m, w, min_tracking)
<1> DEFINE S == Steps(values, split, m)
           L == Lift(values, split)
           K == DOMAIN trees
           followers == {k \in K : trees[k].target = "delta"}
           unchanged == {k \in followers : trees[k].low = 0 /\ trees[k].high = 0}
           eligible(k) == Eligible(trees[k], values, split, m, min_tracking)
           rank == [k \in K |-> IF eligible(k) THEN 0 ELSE 1]
           cost == [k \in K |-> Evaluate(trees[k], values, split, m, w)]
           winner == Winner(trees, values, split, m, w, min_tracking)
<1> SUFFICES ASSUME S # {}, L > 0, followers # {},
                    \A k \in K : SplitsInside(trees[k], values, split)
             PROVE  /\ winner \in followers
                    /\ \A k \in followers :
                         Evaluate(trees[winner], values, split, m, w)
                           <= Evaluate(trees[k], values, split, m, w)
                    /\ unchanged # {} =>
                         Evaluate(trees[winner], values, split, m, w)
                           <= Naive(values, split, m, w)
  BY DEF WinnerFollowsIn
<1>1. K \in SUBSET Int /\ IsFiniteSet(K) /\ K # {} /\ \A k \in K : trees[k] \in Trees
  <2>1. K = 1..Len(trees) /\ Len(trees) \in Nat  OBVIOUS
  <2>2. IsFiniteSet(K)  BY <2>1, FS_Interval
  <2>3. \A k \in K : trees[k] \in Trees  BY <2>1
  <2> QED BY <2>1, <2>2, <2>3
<1>2. L \in Nat /\ L >= 1 /\ Cardinality(S) \in Nat /\ Cardinality(S) >= 1
  <2>1. L \in Nat  BY LiftIsNat
  <2>2. IsFiniteSet(S)  BY HoldoutSteps
  <2>3. Cardinality(S) \in Nat /\ Cardinality(S) # 0
    <3> HIDE DEF S
    <3> QED BY <2>2, FS_CardinalityType, FS_EmptySet
  <2> HIDE DEF S, L
  <2> QED BY <2>1, <2>3
<1>3. ASSUME NEW k \in K  PROVE eligible(k) <=> k \in followers
  <2> DEFINE c == Cardinality(S)
             moves == Moves(trees[k], values, split, m)
  <2>1. moves = IF trees[k].target = "delta" THEN L * c ELSE 0  BY <1>1, MovesOfTree
  <2>2. eligible(k) <=> L <= 0 \/ 100 * moves >= min_tracking * L * c
    BY DEF Eligible
  <2>3. L * c \in Nat /\ L * c >= 1 /\ min_tracking * L * c = min_tracking * (L * c)
    <3> HIDE DEF L, c
    <3>1. L \in Nat /\ c \in Nat /\ L >= 1 /\ c >= 1 /\ min_tracking \in Int  BY <1>2 DEF c
    <3> QED BY <3>1
  <2>4. /\ min_tracking * (L * c) >= 1
        /\ 100 * (L * c) >= min_tracking * (L * c)
    <3> DEFINE x == L * c
    <3>1. x \in Nat /\ x >= 1  BY <2>3
    <3> HIDE DEF x
    <3>2. 100 * x = min_tracking * x + (100 - min_tracking) * x
      BY <3>1
    <3>3. (100 - min_tracking) * x >= 0 /\ min_tracking * x >= 1 /\ min_tracking * x \in Int
          /\ (100 - min_tracking) * x \in Int
      BY <3>1
    <3>4. 100 * x >= min_tracking * x  BY <3>1, <3>2, <3>3
    <3> QED BY <3>3, <3>4 DEF x
  <2>5. k \in followers <=> trees[k].target = "delta"  OBVIOUS
  <2>6. L \in Int /\ ~(L <= 0)  BY <1>2
  <2> HIDE DEF moves, c, L, eligible, followers
  <2>7. CASE trees[k].target = "delta"
    <3>1. 100 * moves >= min_tracking * L * c  BY <2>1, <2>3, <2>4, <2>7
    <3> QED BY <2>2, <2>5, <2>7, <3>1
  <2>8. CASE trees[k].target # "delta"
    <3>1. moves = 0 /\ 100 * 0 = 0  BY <2>1, <2>8
    <3>2. min_tracking * (L * c) \in Int  BY <2>3
    <3>3. ~(100 * moves >= min_tracking * L * c)  BY <2>3, <2>4, <3>1, <3>2
    <3> QED BY <2>2, <2>5, <2>6, <2>8, <3>3
  <2> QED BY <2>7, <2>8
<1>4. rank \in [K -> Int] /\ cost \in [K -> Int]
  <2>1. \A k \in K : Evaluate(trees[k], values, split, m, w) \in Int  BY <1>1, EvaluateIsInt
  <2>2. cost \in [K -> Int]  BY <2>1
  <2>3. rank \in [K -> Int]
    <3> HIDE DEF eligible
    <3> QED OBVIOUS
  <2> QED BY <2>2, <2>3
<1> DEFINE before(j, k) == \/ rank[j] < rank[k]
                           \/ rank[j] = rank[k] /\ cost[j] < cost[k]
                           \/ rank[j] = rank[k] /\ cost[j] = cost[k] /\ j <= k
<1>5. \E j \in K : \A k \in K : before(j, k)
  <2> HIDE DEF K, rank, cost
  <2> QED BY <1>1, <1>4, FirstOfBest
<1>6. winner = CHOOSE j \in K : \A k \in K : before(j, k)
  BY DEF Winner
<1>7. winner \in K /\ \A k \in K : before(winner, k)
  <2> HIDE DEF winner, before, K
  <2> QED BY <1>5, <1>6
<1>8. \A k \in K : rank[k] = IF k \in followers THEN 0 ELSE 1
  <2> HIDE DEF followers
  <2>1. \A k \in K : rank[k] = IF eligible(k) THEN 0 ELSE 1  OBVIOUS
  <2> HIDE DEF eligible, rank
  <2> QED BY <1>3, <2>1
<1>9. winner \in followers
  <2>1. PICK k \in followers : TRUE  OBVIOUS
  <2>2. k \in K  OBVIOUS
  <2>3. rank[k] = 0  BY <1>8, <2>2
  <2>4. before(winner, k)  BY <1>7, <2>2
  <2>5. rank[winner] <= 0
    <3>1. rank[winner] \in Int  BY <1>4, <1>7
    <3> HIDE DEF rank, cost, winner
    <3> QED BY <2>3, <2>4, <3>1
  <2> HIDE DEF rank, winner, followers
  <2> QED BY <1>7, <1>8, <2>5
<1>10. ASSUME NEW k \in followers  PROVE cost[winner] <= cost[k]
  <2>1. k \in K  OBVIOUS
  <2>2. rank[k] = 0 /\ rank[winner] = 0  BY <1>7, <1>8, <1>9, <2>1
  <2>3. before(winner, k)  BY <1>7, <2>1
  <2>4. cost[winner] \in Int /\ cost[k] \in Int  BY <1>4, <1>7, <2>1
  <2> HIDE DEF rank, cost, winner
  <2> QED BY <2>2, <2>3, <2>4
<1>11. ASSUME NEW k \in unchanged
       PROVE  Evaluate(trees[k], values, split, m, w) = Naive(values, split, m, w)
  <2>1. \A s \in S : Predict(trees[k], Last(values, m, s)) = Last(values, m, s)
    <3> SUFFICES ASSUME NEW s \in S
                 PROVE  Predict(trees[k], Last(values, m, s)) = Last(values, m, s)
      OBVIOUS
    <3>1. Last(values, m, s) \in Nat  BY HoldoutSteps
    <3>2. trees[k].target = "delta" /\ trees[k].low = 0 /\ trees[k].high = 0  OBVIOUS
    <3> QED BY <3>1, <3>2 DEF Predict
  <2>2. [s \in S |-> Predict(trees[k], Last(values, m, s))] = [s \in S |-> Last(values, m, s)]
    BY <2>1
  <2> HIDE DEF S
  <2> QED BY <2>2 DEF Evaluate, Naive, S
<1>12. \A k \in K : cost[k] = Evaluate(trees[k], values, split, m, w)  OBVIOUS
<1>13. \A k \in followers : k \in K  OBVIOUS
<1>14. \A k \in unchanged : k \in followers  OBVIOUS
<1> HIDE DEF cost, winner, K, followers, unchanged
<1> QED BY <1>7, <1>9, <1>10, <1>11, <1>12, <1>13, <1>14

-----------------------------------------------------------------------------
(***************************************************************************)
(* Grid: slots, what is behind a value, chunks and channels.               *)
(***************************************************************************)
\* Division with a rest.
LEMMA Division ==
  ASSUME NEW a \in Nat, NEW b \in Nat \ {0}
  PROVE  /\ a \div b \in Nat /\ a % b \in 0..(b - 1)
         /\ a = ((a \div b) * b) + (a % b)
OBVIOUS

\* What a factor does to the order of two numbers.
LEMMA Scaled ==
  ASSUME NEW a \in Int, NEW b \in Int, NEW c \in Nat \ {0}
  PROVE  /\ a * c \in Int /\ b * c \in Int
         /\ (a + b) * c = a * c + b * c
         /\ (a - b) * c = a * c - b * c
         /\ a * c <= b * c <=> a <= b
         /\ (-a) * c = -(a * c)
<1>1. /\ a * c \in Int /\ b * c \in Int
      /\ (a + b) * c = a * c + b * c
      /\ (a - b) * c = a * c - b * c
      /\ (-a) * c = -(a * c)
  OBVIOUS
<1>2. a <= b => a * c <= b * c
  <2>1. ASSUME a <= b  PROVE (b - a) * c >= 0
    BY <2>1
  <2>2. (b - a) * c = b * c - a * c  OBVIOUS
  <2> QED BY <1>1, <2>1, <2>2
<1>3. ~(a <= b) => ~(a * c <= b * c)
  <2>1. ASSUME ~(a <= b)  PROVE (a - b) * c >= 1
    <3>1. a - b \in Nat /\ a - b >= 1  BY <2>1
    <3> QED BY <3>1
  <2> QED BY <1>1, <2>1
<1> QED BY <1>1, <1>2, <1>3

\* Rounding to the nearest multiple.
LEMMA RoundedIsNear ==
  ASSUME NEW a \in Nat, NEW b \in Nat \ {0}
  PROVE  /\ Rounded(a, b) \in Nat
         /\ 2 * (a - Rounded(a, b) * b) \in -b..b
         /\ 2 * a <= b => Rounded(a, b) = 0
<1> DEFINE q == a \div b
           r == a % b
<1>1. q \in Nat /\ r \in 0..(b - 1) /\ a = q * b + r  BY Division
<1>2. Rounded(a, b) = IF 2 * r > b \/ (2 * r = b /\ q % 2 = 1) THEN q + 1 ELSE q
  BY DEF Rounded
<1> HIDE DEF q, r
<1>3. (q + 1) * b = q * b + b /\ q * b \in Int  BY <1>1
<1>4. Rounded(a, b) \in Nat  BY <1>1, <1>2
<1>5. 2 * (a - Rounded(a, b) * b) \in -b..b
  <2>1. CASE 2 * r > b \/ (2 * r = b /\ q % 2 = 1)
    <3>1. a - Rounded(a, b) * b = r - b  BY <1>1, <1>2, <1>3, <2>1
    <3> QED BY <1>1, <2>1, <3>1
  <2>2. CASE ~(2 * r > b \/ (2 * r = b /\ q % 2 = 1))
    <3>1. a - Rounded(a, b) * b = r  BY <1>1, <1>2, <1>3, <2>2
    <3> QED BY <1>1, <2>2, <3>1
  <2> QED BY <2>1, <2>2
<1>6. ASSUME 2 * a <= b  PROVE Rounded(a, b) = 0
  <2>1. q = 0
    <3>1. SUFFICES ASSUME q >= 1 PROVE FALSE  BY <1>1
    <3>2. 1 * b <= q * b  BY <1>1, <3>1, Scaled
    <3> QED BY <1>1, <1>3, <1>6, <3>2
  <2>2. r = a /\ 0 % 2 = 0  BY <1>1, <2>1
  <2> QED BY <1>2, <1>6, <2>1, <2>2
<1> QED BY <1>4, <1>5, <1>6

LEMMA RoundedIsMonotone ==
  ASSUME NEW a \in Nat, NEW c \in Nat, NEW b \in Nat \ {0}, a <= c
  PROVE  Rounded(a, b) <= Rounded(c, b)
<1> DEFINE q == a \div b
           r == a % b
           p == c \div b
           s == c % b
<1>1. q \in Nat /\ r \in 0..(b - 1) /\ a = q * b + r  BY Division
<1>2. p \in Nat /\ s \in 0..(b - 1) /\ c = p * b + s  BY Division
<1>3. /\ Rounded(a, b) = IF 2 * r > b \/ (2 * r = b /\ q % 2 = 1) THEN q + 1 ELSE q
      /\ Rounded(c, b) = IF 2 * s > b \/ (2 * s = b /\ p % 2 = 1) THEN p + 1 ELSE p
  BY DEF Rounded
<1> HIDE DEF q, r, p, s
<1>4. q <= p
  <2>1. SUFFICES ASSUME p + 1 <= q PROVE FALSE  BY <1>1, <1>2
  <2>2. (p + 1) * b <= q * b /\ (p + 1) * b = p * b + b /\ p * b \in Int /\ q * b \in Int
    BY <1>1, <1>2, <2>1, Scaled
  <2> QED BY <1>1, <1>2, <2>2
<1>5. CASE q = p
  <2>1. r <= s
    <3>1. q * b \in Int  BY <1>1
    <3> QED BY <1>1, <1>2, <1>5, <3>1
  <2> QED BY <1>1, <1>2, <1>3, <1>5, <2>1
<1>6. CASE q < p
  BY <1>1, <1>2, <1>3, <1>6
<1> QED BY <1>1, <1>2, <1>4, <1>5, <1>6

\* regularize(): the grid starts at a multiple of the step, and the slot of a
\* stamp is one whose instant is nearest to it.
LEMMA SlotIsNear ==
  ASSUME NEW points \in SUBSET Nat, IsFiniteSet(points), points # {},
         NEW step \in Nat \ {0}, NEW ts \in points
  PROVE  /\ FirstInstant(points, step) = Rounded(Min(points), step) * step
         /\ Rounded(Min(points), step) \in Nat /\ FirstInstant(points, step) \in Nat
         /\ Slot(ts, points, step) \in Int
         /\ 2 * (ts - Instant(Slot(ts, points, step), points, step)) \in -step..step
<1> DEFINE R == Rounded(Min(points), step)
           F == FirstInstant(points, step)
           d == ts - F
           k == Slot(ts, points, step)
<1>1. Min(points) \in Nat
  <2>1. points \in SUBSET Int  OBVIOUS
  <2> QED BY <2>1, Extremes
<1>2. R \in Nat /\ F = R * step  BY <1>1, RoundedIsNear DEF FirstInstant
<1>3. F \in Nat
  <2> HIDE DEF F, R
  <2> QED BY <1>2
<1>4. k = IF d >= 0 THEN Rounded(d, step) ELSE -Rounded(-d, step)  BY DEF Slot
<1>5. ts - Instant(k, points, step) = d - k * step
  <2>1. Instant(k, points, step) = F + k * step  BY DEF Instant
  <2>2. k \in Int
    <3>1. CASE d >= 0
      <4>1. d \in Nat  BY <1>3, <3>1
      <4> HIDE DEF d
      <4> QED BY <1>4, <3>1, <4>1, RoundedIsNear
    <3>2. CASE ~(d >= 0)
      <4>1. -d \in Nat  BY <1>3, <3>2
      <4>2. Rounded(-d, step) \in Nat
        <5> HIDE DEF d
        <5> QED BY <4>1, RoundedIsNear
      <4> HIDE DEF d
      <4> QED BY <1>4, <3>2, <4>2
    <3> QED BY <3>1, <3>2
  <2>3. k * step \in Int
    <3> HIDE DEF k
    <3> QED BY <2>2
  <2> HIDE DEF k, F
  <2> QED BY <1>3, <2>1, <2>3
<1>6. k \in Int /\ 2 * (d - k * step) \in -step..step
  <2>1. CASE d >= 0
    <3>1. d \in Nat  BY <1>3, <2>1
    <3> HIDE DEF d, k
    <3>2. k = Rounded(d, step)  BY <1>4, <2>1
    <3> QED BY <3>1, <3>2, RoundedIsNear
  <2>2. CASE ~(d >= 0)
    <3> DEFINE e == -d
               q == Rounded(e, step)
    <3>1. e \in Nat /\ d = -e  BY <1>3, <2>2
    <3>2. k = -q  BY <1>4, <2>2
    <3> HIDE DEF d, k, e
    <3>3. q \in Nat /\ 2 * (e - q * step) \in -step..step  BY <3>1, RoundedIsNear
    <3> HIDE DEF q
    <3>4. k * step = -(q * step) /\ q * step \in Int  BY <3>2, <3>3
    <3>5. 2 * (d - k * step) = -(2 * (e - q * step))  BY <3>1, <3>4
    <3> QED BY <3>2, <3>3, <3>4, <3>5
  <2> QED BY <2>1, <2>2
<1> HIDE DEF F, R, d, k
<1> QED BY <1>2, <1>3, <1>5, <1>6 DEF F, R, k

\* The oldest stamp is in the first slot, and every other between the first and
\* that of the newest.
LEMMA SlotInGrid ==
  ASSUME NEW points \in SUBSET Nat, IsFiniteSet(points), points # {},
         NEW step \in Nat \ {0}, NEW ts \in points
  PROVE  /\ Slot(Min(points), points, step) = 0
         /\ Slot(Max(points), points, step) \in Nat
         /\ Slot(ts, points, step) \in Slots(points, step)
<1> DEFINE R == Rounded(Min(points), step)
           F == FirstInstant(points, step)
<1>1. /\ Min(points) \in points /\ Max(points) \in points
      /\ \A x \in points : Min(points) <= x /\ x <= Max(points)
      /\ Min(points) \in Nat /\ Max(points) \in Nat /\ ts \in Nat
  <2>1. points \in SUBSET Int  OBVIOUS
  <2> QED BY <2>1, Extremes
<1>2. F = R * step /\ F \in Nat  BY SlotIsNear
<1>3. 2 * (Min(points) - F) \in -step..step
  <2>1. Min(points) \in Nat  BY <1>1
  <2> HIDE DEF F
  <2> QED BY <1>2, <2>1, RoundedIsNear DEF F
<1>4. \A x : Slot(x, points, step) =
               IF x - F >= 0 THEN Rounded(x - F, step) ELSE -Rounded(-(x - F), step)
  BY DEF Slot
<1> HIDE DEF F, R
<1>5. ASSUME NEW x \in points
      PROVE  /\ Slot(x, points, step) \in Nat
             /\ x - F <= 0 => Slot(x, points, step) = 0
             /\ x - F >= 0 => Slot(x, points, step) = Rounded(x - F, step)
  <2>1. x \in Nat /\ Min(points) \in Nat /\ Min(points) <= x  BY <1>1
  <2>2. CASE x - F >= 0
    <3> DEFINE d == x - F
    <3>1. d \in Nat  BY <1>2, <2>1, <2>2
    <3>2. Slot(x, points, step) = Rounded(d, step)  BY <1>4, <2>2
    <3>3. d <= 0 => 2 * d <= step  BY <3>1
    <3> HIDE DEF d
    <3>4. Rounded(d, step) \in Nat /\ (d <= 0 => Rounded(d, step) = 0)
      BY <3>1, <3>3, RoundedIsNear
    <3> QED BY <3>2, <3>4 DEF d
  <2>3. CASE ~(x - F >= 0)
    <3> DEFINE e == -(x - F)
    <3>1. e \in Nat /\ 2 * e <= step  BY <1>2, <1>3, <2>1, <2>3
    <3>2. Slot(x, points, step) = -Rounded(e, step)  BY <1>4, <2>3
    <3> HIDE DEF e
    <3> DEFINE q == Rounded(e, step)
    <3>3. q \in Nat /\ q <= 0  BY <3>1, RoundedIsNear
    <3>4. Slot(x, points, step) = -q  BY <3>2
    <3> HIDE DEF q
    <3>5. Slot(x, points, step) = 0  BY <3>3, <3>4
    <3> QED BY <2>3, <3>5
  <2> QED BY <2>2, <2>3
<1>6. Slot(Min(points), points, step) = 0
  <2> DEFINE d == Min(points) - F
  <2>1. CASE d <= 0  BY <1>1, <1>5, <2>1
  <2>2. CASE ~(d <= 0)
    <3>1. d \in Nat /\ 2 * d <= step /\ d >= 0  BY <1>1, <1>2, <1>3, <2>2
    <3>2. Slot(Min(points), points, step) = Rounded(d, step)  BY <1>1, <1>5, <3>1
    <3> HIDE DEF d
    <3> QED BY <3>1, <3>2, RoundedIsNear
  <2> QED BY <2>1, <2>2
<1>7. Slot(ts, points, step) <= Slot(Max(points), points, step)
  <2> DEFINE d == ts - F
             e == Max(points) - F
  <2>1. d \in Int /\ e \in Int /\ d <= e  BY <1>1, <1>2
  <2>2. CASE d <= 0
    <3>1. Slot(ts, points, step) = 0  BY <1>5, <2>2
    <3> QED BY <1>1, <1>5, <3>1
  <2>3. CASE ~(d <= 0)
    <3>1. d \in Nat /\ e \in Nat /\ d >= 0 /\ e >= 0  BY <2>1, <2>3
    <3>2. Slot(ts, points, step) = Rounded(d, step)  BY <1>5, <3>1
    <3>3. Slot(Max(points), points, step) = Rounded(e, step)  BY <1>1, <1>5, <3>1
    <3> HIDE DEF d, e
    <3> QED BY <2>1, <3>1, <3>2, <3>3, RoundedIsMonotone
  <2> QED BY <2>2, <2>3
<1> QED BY <1>1, <1>5, <1>6, <1>7 DEF Slots

\* breaker_windows(): two sightings of one episode are in one range.
LEMMA OpenIsCovered ==
  ASSUME NEW open \in SUBSET Nat, IsFiniteSet(open), NEW every \in Nat, NEW pad \in Nat,
         NEW first \in open, NEW last \in open, first <= last, 2 * (last - first) <= 3 * every
  PROVE  \E r \in open \X open :
           /\ r[1] <= first /\ last <= r[2]
           /\ <<r[1] - pad, r[2] + pad>> \in BreakerWindows(open, every, pad)
<1> DEFINE joined(a, b) == \A s \in a..(b - 1) : s \in open =>
                             \E t \in open : s < t /\ t <= b /\ 2 * (t - s) <= 3 * every
           ranges == {r \in open \X open : r[1] <= r[2] /\ joined(r[1], r[2])}
           widest == {r \in ranges : \A q \in ranges : q[1] <= r[1] /\ r[2] <= q[2] => q = r}
           here == {r \in ranges : r[1] <= first /\ last <= r[2]}
           lefts == {a \in open : \E r \in here : r[1] = a}
           a == Min(lefts)
           rights == {b \in open : \E r \in here : r[1] = a /\ r[2] = b}
           b == Max(rights)
<1>1. BreakerWindows(open, every, pad) = {<<r[1] - pad, r[2] + pad>> : r \in widest}
  BY DEF BreakerWindows
<1>2. <<first, last>> \in here
  <2>1. joined(first, last)
    <3> SUFFICES ASSUME NEW s \in first..(last - 1)
                 PROVE  s < last /\ last <= last /\ 2 * (last - s) <= 3 * every
      OBVIOUS
    <3>1. first \in Nat /\ last \in Nat  OBVIOUS
    <3> QED BY <3>1
  <2> QED BY <2>1
<1> HIDE DEF joined, here
<1>3. \A r \in here : r \in ranges /\ r[1] \in open /\ r[2] \in open /\ r[1] <= first /\ last <= r[2]
  BY DEF here
<1>0. \A r \in ranges : r[1] \in open /\ r[2] \in open /\ r = <<r[1], r[2]>>
  OBVIOUS
<1> HIDE DEF ranges
<1>4. a \in lefts /\ \A x \in lefts : a <= x
  <2>1. lefts \in SUBSET Int /\ lefts # {}
    <3>1. <<first, last>>[1] = first  OBVIOUS
    <3>2. first \in lefts  BY <1>2, <3>1
    <3>3. lefts \subseteq open /\ open \subseteq Int  OBVIOUS
    <3> HIDE DEF lefts
    <3> QED BY <3>2, <3>3
  <2>2. IsFiniteSet(lefts)
    <3>1. lefts \subseteq open  OBVIOUS
    <3> HIDE DEF lefts
    <3> QED BY <3>1, FS_Subset
  <2> HIDE DEF lefts
  <2> QED BY <2>1, <2>2, Extremes
<1>5. b \in rights /\ \A x \in rights : x <= b
  <2> HIDE DEF a
  <2>1. PICK r \in here : r[1] = a  BY <1>4
  <2>2. rights \in SUBSET Int /\ rights # {}
    <3>1. r[2] \in rights  BY <1>3, <2>1
    <3>2. rights \subseteq open /\ open \subseteq Int  OBVIOUS
    <3> HIDE DEF rights
    <3> QED BY <3>1, <3>2
  <2>3. IsFiniteSet(rights)
    <3>1. rights \subseteq open  OBVIOUS
    <3> HIDE DEF rights
    <3> QED BY <3>1, FS_Subset
  <2> HIDE DEF rights
  <2> QED BY <2>2, <2>3, Extremes
<1>6. PICK r \in here : r[1] = a /\ r[2] = b  BY <1>5
<1>7. r \in ranges /\ r[1] \in Nat /\ r[2] \in Nat /\ r[1] <= first /\ last <= r[2]
      /\ first \in Nat /\ last \in Nat
  BY <1>3
<1>8. ASSUME NEW q \in ranges, q[1] <= r[1], r[2] <= q[2]
      PROVE  q = r
  <2>1. q[1] \in Nat /\ q[2] \in Nat /\ q = <<q[1], q[2]>> /\ q[1] \in open /\ q[2] \in open
    BY <1>0
  <2>2. q[1] <= first /\ last <= q[2]
    BY <1>7, <1>8, <2>1
  <2>3. q \in here  BY <1>8, <2>2 DEF here
  <2>4. q[1] \in lefts  BY <2>1, <2>3
  <2>5. a <= q[1]  BY <1>4, <2>4
  <2>6. q[1] = a
    <3> HIDE DEF a
    <3> QED BY <1>6, <1>7, <1>8, <2>1, <2>5
  <2>7. q[2] \in rights  BY <2>1, <2>3, <2>6
  <2>8. q[2] <= b  BY <1>5, <2>7
  <2>9. q[2] = b
    <3> HIDE DEF b
    <3> QED BY <1>6, <1>7, <1>8, <2>1, <2>8
  <2>10. r = <<r[1], r[2]>>  BY <1>0, <1>7
  <2> HIDE DEF a, b
  <2> QED BY <1>6, <2>1, <2>6, <2>9, <2>10
<1>9. r \in widest  BY <1>7, <1>8
<1>10. r \in open \X open  BY <1>7 DEF ranges
<1> HIDE DEF widest
<1> QED BY <1>1, <1>7, <1>9, <1>10

\* breaker_windows(): a range reaches beyond its episode by no more than the padding.
LEMMA RangesAreNarrow ==
  ASSUME NEW open \in SUBSET Nat, IsFiniteSet(open), NEW every \in Nat, NEW pad \in Nat,
         NEW t \in Int, InRange(t, BreakerWindows(open, every, pad))
  PROVE  \E e \in (t - pad)..(t + pad) : OpenAt(e, open, every)
<1> DEFINE joined(a, b) == \A s \in a..(b - 1) : s \in open =>
                             \E u \in open : s < u /\ u <= b /\ 2 * (u - s) <= 3 * every
<1>1. PICK a \in open, b \in open : a <= b /\ joined(a, b) /\ a - pad <= t /\ t <= b + pad
  <2>1. PICK w \in BreakerWindows(open, every, pad) : w[1] <= t /\ t <= w[2]
    BY DEF InRange
  <2>2. PICK r \in open \X open : r[1] <= r[2] /\ joined(r[1], r[2])
                                 /\ w = <<r[1] - pad, r[2] + pad>>
    BY <2>1 DEF BreakerWindows
  <2> QED BY <2>1, <2>2
<1>2. a \in Nat /\ b \in Nat  OBVIOUS
<1>3. \A s \in open : OpenAt(s, open, every)
  <2> SUFFICES ASSUME NEW s \in open
               PROVE  s <= s /\ 2 * (s - s) <= 3 * every
    BY DEF OpenAt
  <2>1. s \in Nat  OBVIOUS
  <2> QED BY <2>1
<1>4. CASE t < a
  <2>1. a \in (t - pad)..(t + pad)  BY <1>1, <1>2, <1>4
  <2> QED BY <1>3, <2>1
<1>5. CASE b <= t
  <2>1. b \in (t - pad)..(t + pad)  BY <1>1, <1>2, <1>5
  <2> QED BY <1>3, <2>1
<1>6. CASE a <= t /\ t < b
  <2> DEFINE upto == {s \in open : s <= t}
  <2>1. Max(upto) \in upto /\ \A s \in upto : s <= Max(upto)
    <3>0. a \in upto /\ upto \subseteq open  BY <1>6
    <3>1. upto \in SUBSET Int /\ upto # {}
      <4>1. open \subseteq Int  OBVIOUS
      <4> HIDE DEF upto
      <4> QED BY <3>0, <4>1
    <3>2. IsFiniteSet(upto)
      <4>1. upto \subseteq open  OBVIOUS
      <4> HIDE DEF upto
      <4> QED BY <4>1, FS_Subset
    <3> HIDE DEF upto
    <3> QED BY <3>1, <3>2, Extremes
  <2> DEFINE s == Max(upto)
  <2>2. s \in open /\ s \in Nat /\ s <= t /\ a <= s
    <3>1. a \in upto  BY <1>6
    <3> QED BY <2>1, <3>1
  <2>3. \A u \in open : u <= t => u <= s  BY <2>1
  <2> HIDE DEF s
  <2>4. s \in a..(b - 1)  BY <1>2, <1>6, <2>2
  <2> HIDE DEF upto
  <2>5. PICK u \in open : s < u /\ u <= b /\ 2 * (u - s) <= 3 * every  BY <1>1, <2>2, <2>4
  <2>6. t <= u
    <3>1. u \in Nat  OBVIOUS
    <3>2. ~(u <= t)  BY <2>2, <2>3, <2>5, <3>1
    <3> QED BY <3>1, <3>2
  <2>7. OpenAt(t, open, every)  BY <2>2, <2>5, <2>6 DEF OpenAt
  <2>8. t \in (t - pad)..(t + pad)  OBVIOUS
  <2> QED BY <2>7, <2>8
<1> QED BY <1>2, <1>4, <1>5, <1>6

\* regularize(): whatever is missing or excluded, as long as something is kept
\* every slot has a value, and only kept slots are behind it.
LEMMA BehindIsKept ==
  ASSUME NEW points \in SUBSET Nat, IsFiniteSet(points), points # {}, NEW step \in Nat \ {0},
         NEW exclude, Kept(points, step, exclude) # {}, NEW k \in Slots(points, step)
  PROVE  /\ Behind(k, points, step, exclude) # {}
         /\ Behind(k, points, step, exclude) \subseteq Kept(points, step, exclude)
<1> DEFINE kept == Kept(points, step, exclude)
           slots == Slots(points, step)
           known(j) == Known(j, points, step, exclude)
           have == {j \in slots : known(j) # {}}
           before == {j \in have : j < k}
           after == {j \in have : j > k}
<1>1. slots \subseteq Nat /\ IsFiniteSet(slots)
  <2>1. PICK p \in points : TRUE  OBVIOUS
  <2>2. Slot(Max(points), points, step) \in Nat  BY <2>1, SlotInGrid
  <2>3. slots = 0..Slot(Max(points), points, step)  BY DEF Slots
  <2> HIDE DEF slots
  <2> QED BY <2>2, <2>3, FS_Interval
<1>2. \A j : known(j) \subseteq kept  BY DEF Known, Profile
<1>3. PICK q \in kept : TRUE  OBVIOUS
<1>4. q \in slots /\ known(q) # {}  BY <1>3 DEF Kept, Known
<1>5. Behind(k, points, step, exclude) =
        IF k \in have THEN known(k)
        ELSE (IF before = {} THEN {} ELSE known(Max(before)))
               \cup (IF after = {} THEN {} ELSE known(Min(after)))
  BY DEF Behind
<1>6. Behind(k, points, step, exclude) \subseteq kept
  <2> HIDE DEF known, kept, have, before, after
  <2> QED BY <1>2, <1>5
<1>7. before # {} => known(Max(before)) # {}
  <2>1. before \subseteq slots /\ \A j \in before : known(j) # {}  OBVIOUS
  <2> HIDE DEF before, known
  <2>2. before \in SUBSET Int  BY <1>1, <2>1
  <2>3. IsFiniteSet(before)
    <3> HIDE DEF slots
    <3> QED BY <1>1, <2>1, FS_Subset
  <2> QED BY <2>1, <2>2, <2>3, Extremes
<1>8. after # {} => known(Min(after)) # {}
  <2>1. after \subseteq slots /\ \A j \in after : known(j) # {}  OBVIOUS
  <2> HIDE DEF after, known
  <2>2. after \in SUBSET Int  BY <1>1, <2>1
  <2>3. IsFiniteSet(after)
    <3> HIDE DEF slots
    <3> QED BY <1>1, <2>1, FS_Subset
  <2> QED BY <2>1, <2>2, <2>3, Extremes
<1>9. k \notin have => before # {} \/ after # {}
  <2>1. q \in have /\ q \in Int /\ k \in Int  BY <1>1, <1>4
  <2> HIDE DEF have
  <2>2. k \notin have => q < k \/ q > k  BY <2>1
  <2> QED BY <2>1, <2>2
<1>10. k \in have => known(k) # {}  OBVIOUS
<1> HIDE DEF known, kept, have, before, after
<1> QED BY <1>5, <1>6, <1>7, <1>8, <1>9, <1>10 DEF kept

\* regularize() on the ranges of breaker_windows(): with a padding of half a step or
\* more no value is computed from a sample taken while the breaker was open, and
\* nothing is given up for an episode that is not within the padding of it,
\* whatever the stamps, the step, the episodes and how often they were looked for.
THEOREM EpisodesStayOut ==
  ASSUME NEW points \in SUBSET Nat, IsFiniteSet(points), points # {}, NEW step \in Nat \ {0},
         NEW answered \in BOOLEAN, NEW open \in SUBSET Nat, IsFiniteSet(open),
         NEW every \in Nat \ {0}, NEW pad \in Nat
  PROVE  OpenNeverUsedIn(points, step, answered, open, every, pad)
<1> DEFINE exclude == Exclusions(answered, open, every, pad)
<1> SUFFICES ASSUME Kept(points, step, exclude) # {}
             PROVE  /\ \A k \in Slots(points, step) :
                         /\ Behind(k, points, step, exclude) # {}
                         /\ \A ts \in points :
                              answered /\ 2 * pad >= step /\ OpenAt(ts, open, every) =>
                                Slot(ts, points, step) \notin Behind(k, points, step, exclude)
                    /\ \A t \in Instants(points, step) :
                         InRange(t, exclude) =>
                           \E e \in (t - pad)..(t + pad) : OpenAt(e, open, every)
  BY DEF OpenNeverUsedIn, NoSeries
<1>0. /\ answered => exclude = BreakerWindows(open, every, pad)
      /\ ~answered => exclude = {}
  BY DEF Exclusions
<1> HIDE DEF exclude
<1>1. ASSUME NEW k \in Slots(points, step)
      PROVE  /\ Behind(k, points, step, exclude) # {}
             /\ Behind(k, points, step, exclude) \subseteq Kept(points, step, exclude)
  BY BehindIsKept
<1>2. ASSUME NEW k \in Slots(points, step), NEW ts \in points,
             answered, 2 * pad >= step, OpenAt(ts, open, every),
             Slot(ts, points, step) \in Behind(k, points, step, exclude)
      PROVE  FALSE
  <2> DEFINE t == Instant(Slot(ts, points, step), points, step)
  <2>1. ~InRange(t, exclude)  BY <1>1, <1>2 DEF Kept
  <2>2. PICK first \in open, last \in open :
          first <= ts /\ ts <= last /\ 2 * (last - first) <= 3 * every
    BY <1>2 DEF OpenAt
  <2>3. first \in Nat /\ last \in Nat /\ ts \in Nat /\ first <= last  BY <2>2
  <2>4. PICK r \in open \X open : /\ r[1] <= first /\ last <= r[2]
                                  /\ <<r[1] - pad, r[2] + pad>> \in exclude
    BY <1>0, <1>2, <2>2, <2>3, OpenIsCovered
  <2>5. t \in Int /\ 2 * (ts - t) \in -step..step
    <3>1. /\ Slot(ts, points, step) \in Int /\ FirstInstant(points, step) \in Nat
          /\ 2 * (ts - t) \in -step..step
      BY SlotIsNear
    <3>2. t \in Int  BY <3>1 DEF Instant
    <3> HIDE DEF t
    <3> QED BY <3>1, <3>2
  <2>6. r[1] \in Nat /\ r[2] \in Nat  BY <2>4
  <2>7. r[1] - pad <= t /\ t <= r[2] + pad
    <3> DEFINE a == r[1]
               b == r[2]
    <3>1. a \in Nat /\ b \in Nat /\ a <= ts /\ ts <= b  BY <2>2, <2>3, <2>4, <2>6
    <3> HIDE DEF a, b, t
    <3>2. a - pad <= t /\ t <= b + pad  BY <1>2, <2>3, <2>5, <3>1
    <3> QED BY <3>2 DEF a, b
  <2>8. InRange(t, exclude)
    <3> DEFINE w == <<r[1] - pad, r[2] + pad>>
    <3>1. w[1] = r[1] - pad /\ w[2] = r[2] + pad /\ w \in exclude  BY <2>4
    <3> HIDE DEF t, w
    <3> QED BY <2>7, <3>1 DEF InRange
  <2> QED BY <2>1, <2>8
<1>3. ASSUME NEW t \in Instants(points, step), InRange(t, exclude)
      PROVE  \E e \in (t - pad)..(t + pad) : OpenAt(e, open, every)
  <2>1. answered  BY <1>0, <1>3 DEF InRange
  <2>2. t \in Int
    <3>1. PICK p \in points : TRUE  OBVIOUS
    <3>2. FirstInstant(points, step) \in Nat  BY <3>1, SlotIsNear
    <3>3. PICK k \in Slots(points, step) : t = FirstInstant(points, step) + k * step
      BY DEF Instants, Instant
    <3>4. k \in Int  BY DEF Slots
    <3> QED BY <3>2, <3>3, <3>4
  <2> QED BY <1>0, <1>3, <2>1, <2>2, RangesAreNarrow
<1> QED BY <1>1, <1>2, <1>3

-----------------------------------------------------------------------------
\* align_series(): the instants of a channel are the multiples of the step between
\* its first and its last.
LEMMA InstantsAreMultiples ==
  ASSUME NEW points \in SUBSET Nat, IsFiniteSet(points), points # {}, NEW step \in Nat \ {0}
  PROVE  \E a \in Nat, b \in Nat :
           /\ FirstInstant(points, step) = a * step
           /\ Max(Instants(points, step)) = b * step
           /\ Instants(points, step) = {c * step : c \in a..b}
<1> DEFINE a == Rounded(Min(points), step)
           n == Slot(Max(points), points, step)
           b == a + n
           T == Instants(points, step)
<1>1. a \in Nat /\ n \in Nat /\ FirstInstant(points, step) = a * step
  <2>1. PICK p \in points : TRUE  OBVIOUS
  <2> QED BY <2>1, SlotIsNear, SlotInGrid
<1>2. T = {FirstInstant(points, step) + c * step : c \in 0..n}
  BY DEF Instants, Instant, Slots
<1> HIDE DEF a, n, T
<1>3. T = {c * step : c \in a..b}
  <2>1. ASSUME NEW c \in 0..n
        PROVE  \E d \in a..b : FirstInstant(points, step) + c * step = d * step
    <3>1. a + c \in a..b /\ (a + c) * step = a * step + c * step  BY <1>1
    <3> QED BY <1>1, <3>1
  <2>2. ASSUME NEW d \in a..b
        PROVE  \E c \in 0..n : d * step = FirstInstant(points, step) + c * step
    <3>1. d - a \in 0..n /\ (d - a) * step = d * step - a * step  BY <1>1
    <3>2. d * step \in Int /\ a * step \in Int /\ (d - a) * step \in Int  BY <1>1
    <3>3. d * step = a * step + (d - a) * step  BY <3>1, <3>2
    <3> QED BY <1>1, <3>1, <3>3
  <2> HIDE DEF b
  <2> QED BY <1>2, <2>1, <2>2
<1>4. b \in Nat /\ a <= b  BY <1>1
<1>5. b * step \in T /\ \A t \in T : t \in Int /\ t <= b * step
  <2>1. b \in a..b  BY <1>1, <1>4
  <2>2. ASSUME NEW c \in a..b  PROVE c * step \in Int /\ c * step <= b * step
    <3>1. c \in Int /\ b \in Int /\ c <= b  BY <1>1, <1>4
    <3> HIDE DEF b
    <3> QED BY <3>1, Scaled
  <2> HIDE DEF b
  <2> QED BY <1>3, <2>1, <2>2
<1>6. Max(T) = b * step
  <2> DEFINE top == b * step
  <2>1. top \in T /\ \A t \in T : t \in Int /\ t <= top  BY <1>5
  <2> HIDE DEF top
  <2>2. \E x \in T : \A y \in T : x >= y  BY <2>1
  <2>3. Max(T) \in T /\ \A y \in T : Max(T) >= y  BY <2>2 DEF Max
  <2>4. Max(T) = top  BY <2>1, <2>3
  <2> QED BY <2>4 DEF top
<1> HIDE DEF b
<1> QED BY <1>1, <1>3, <1>4, <1>6 DEF T

\* Two channels, whatever the instants of their samples, have the same instants
\* where they overlap.
LEMMA OverlapsAgree ==
  ASSUME NEW points \in SUBSET Nat, IsFiniteSet(points), points # {},
         NEW other \in SUBSET Nat, IsFiniteSet(other), other # {}, NEW step \in Nat \ {0}
  PROVE  Aligned(points, other, step) \subseteq Aligned(other, points, step)
<1>1. PICK a \in Nat, b \in Nat :
        /\ FirstInstant(points, step) = a * step
        /\ Max(Instants(points, step)) = b * step
        /\ Instants(points, step) = {c * step : c \in a..b}
  BY InstantsAreMultiples
<1>2. PICK d \in Nat, e \in Nat :
        /\ FirstInstant(other, step) = d * step
        /\ Max(Instants(other, step)) = e * step
        /\ Instants(other, step) = {c * step : c \in d..e}
  BY InstantsAreMultiples
<1> SUFFICES ASSUME NEW t \in Aligned(points, other, step)
             PROVE  t \in Aligned(other, points, step)
  OBVIOUS
<1>3. a * step \in Int /\ b * step \in Int /\ d * step \in Int /\ e * step \in Int  OBVIOUS
<1>4. /\ t \in Instants(points, step)
      /\ t \in Largest(a * step, d * step)..Smallest(b * step, e * step)
  BY <1>1, <1>2 DEF Aligned, Common
<1>5. PICK c \in a..b : t = c * step  BY <1>1, <1>4
<1>6. c \in Int /\ t \in Int  BY <1>5
<1>7. d * step <= t /\ t <= e * step /\ a * step <= t /\ t <= b * step
  BY <1>3, <1>4, <1>6 DEF Largest, Smallest
<1>8. d <= c /\ c <= e
  <2>1. d * step <= c * step /\ c * step <= e * step  BY <1>5, <1>7
  <2>2. d \in Int /\ e \in Int  OBVIOUS
  <2> QED BY <1>6, <2>1, <2>2, Scaled
<1>9. t \in Instants(other, step)
  <2>1. c \in d..e  BY <1>6, <1>8
  <2> QED BY <1>2, <1>5, <2>1
<1>10. t \in Largest(d * step, a * step)..Smallest(e * step, b * step)
  BY <1>3, <1>6, <1>7 DEF Largest, Smallest
<1> QED BY <1>1, <1>2, <1>9, <1>10 DEF Aligned, Common

\* regularize() and align_series(): channels sampled at any instants have the same grid
\* where they overlap, and every sample is in the slot nearest to it.
THEOREM GridsOfChannelsAgree ==
  ASSUME NEW points \in SUBSET Nat, IsFiniteSet(points), points # {},
         NEW other \in SUBSET Nat, IsFiniteSet(other), other # {}, NEW step \in Nat \ {0}
  PROVE  GridsAgreeIn(points, other, step)
<1>1. Aligned(points, other, step) = Aligned(other, points, step)
  <2>1. Aligned(points, other, step) \subseteq Aligned(other, points, step)  BY OverlapsAgree
  <2>2. Aligned(other, points, step) \subseteq Aligned(points, other, step)  BY OverlapsAgree
  <2> QED BY <2>1, <2>2
<1>2. ASSUME NEW ts \in points
      PROVE  /\ Slot(ts, points, step) \in Slots(points, step)
             /\ 2 * (ts - Instant(Slot(ts, points, step), points, step)) \in -step..step
  BY SlotIsNear, SlotInGrid
<1>3. Slot(Min(points), points, step) = 0
  <2>1. PICK p \in points : TRUE  OBVIOUS
  <2> QED BY <2>1, SlotInGrid
<1> QED BY <1>1, <1>2, <1>3 DEF GridsAgreeIn

\* A division with a rest smaller than the divisor is the division.
LEMMA DivisionIsUnique ==
  ASSUME NEW a \in Nat, NEW b \in Nat \ {0}, NEW q \in Int, NEW r \in 0..(b - 1), a = q * b + r
  PROVE  a \div b = q /\ a % b = r
<1> DEFINE p == a \div b
           s == a % b
<1>1. p \in Nat /\ s \in 0..(b - 1) /\ a = p * b + s  BY Division
<1> HIDE DEF p, s
<1>2. (q - p) * b = q * b - p * b /\ q * b \in Int /\ p * b \in Int  BY <1>1
<1>3. (q - p) * b = s - r  BY <1>1, <1>2
<1>4. q = p
  <2> DEFINE d == q - p
  <2>1. d \in Int /\ d * b < b /\ d * b > -b  BY <1>1, <1>3
  <2> HIDE DEF d
  <2>2. ~(d >= 1)
    <3>1. SUFFICES ASSUME d >= 1 PROVE FALSE  OBVIOUS
    <3>2. 1 * b <= d * b  BY <2>1, <3>1, Scaled
    <3> QED BY <2>1, <3>2
  <2>3. ~(d <= -1)
    <3>1. SUFFICES ASSUME d <= -1 PROVE FALSE  OBVIOUS
    <3>2. d * b <= (-1) * b  BY <2>1, <3>1, Scaled
    <3> QED BY <2>1, <3>2
  <2>4. d = 0  BY <2>1, <2>2, <2>3
  <2> QED BY <1>1, <2>4 DEF d
<1>5. s = r  BY <1>1, <1>2, <1>4
<1> QED BY <1>4, <1>5 DEF p, s

\* query_prometheus(): whatever range is asked for in chunks of whole steps, no stamp
\* of it is asked for twice, and none left out between two chunks.
THEOREM ChunksCover ==
  ASSUME NEW start \in Nat, NEW end \in Nat, NEW step \in Nat \ {0}, NEW per_chunk \in Nat
  PROVE  ChunksCoverIn(start, end, per_chunk * step, step)
<1> DEFINE size == per_chunk * step
           w == size + step
           starts == ChunkStarts(start, end, size, step)
<1>1. /\ size \in Nat /\ w \in Nat \ {0} /\ w = (per_chunk + 1) * step /\ size < w
  <2>1. per_chunk * step \in Nat /\ (per_chunk + 1) * step = per_chunk * step + step  OBVIOUS
  <2> QED BY <2>1
<1>2. starts = {t \in start..(end - 1) : (t - start) % w = 0}  BY DEF ChunkStarts
<1>3. \A t : Chunk(t, end, size, step) = {x \in t..Smallest(end, t + size) : (x - t) % step = 0}
  BY DEF Chunk
<1> HIDE DEF size, w, starts
<1> SUFFICES ASSUME NEW s \in start..(end - 1), (s - start) % step = 0
             PROVE  \E t \in starts : {u \in starts : s \in Chunk(u, end, size, step)} = {t}
  BY DEF ChunksCoverIn, starts, size
<1> DEFINE d == s - start
           e == d \div step
           q == d \div w
           r == d % w
           t == start + q * w
<1>4. s \in Nat /\ d \in Nat /\ s = start + d  OBVIOUS
<1>5. e \in Nat /\ d = e * step
  <2> HIDE DEF d
  <2>1. e \in Nat /\ d = (e * step) + (d % step)  BY <1>4, Division
  <2>2. d % step = 0  BY DEF d
  <2> HIDE DEF e
  <2>3. e * step \in Int  BY <2>1
  <2> QED BY <2>1, <2>2, <2>3
<1>6. q \in Nat /\ r \in 0..(w - 1) /\ d = q * w + r
  <2> HIDE DEF d
  <2>1. w \in Nat \ {0} /\ d \in Nat  BY <1>1, <1>4
  <2> QED BY <2>1, Division
<1> HIDE DEF d, e, q, r
<1>7. q * w \in Nat  BY <1>1, <1>6
<1> DEFINE f == e - q * (per_chunk + 1)
<1>8. f \in Int /\ r = f * step
  <2>1. q * (per_chunk + 1) \in Int  BY <1>6
  <2>2. q * w = (q * (per_chunk + 1)) * step
    <3> DEFINE p == per_chunk + 1
    <3>1. p \in Int /\ w = p * step  BY <1>1
    <3> HIDE DEF p
    <3>2. q * (p * step) = (q * p) * step  BY <1>6, <3>1
    <3> QED BY <3>1, <3>2 DEF p
  <2> DEFINE g == q * (per_chunk + 1)
  <2>3. g \in Int /\ q * w = g * step /\ f = e - g  BY <2>1, <2>2
  <2> HIDE DEF f, g
  <2>4. (e - g) * step = e * step - g * step  BY <1>5, <2>3
  <2> QED BY <1>1, <1>5, <1>6, <1>7, <2>3, <2>4
<1> HIDE DEF f
<1>9. f \in Nat /\ r <= size
  <2>1. 0 * step <= f * step /\ 0 * step = 0  BY <1>6, <1>8
  <2>2. 0 <= f  BY <1>8, <2>1, Scaled
  <2>3. ~(per_chunk + 1 <= f)
    <3>1. SUFFICES ASSUME per_chunk + 1 <= f PROVE FALSE  OBVIOUS
    <3>2. (per_chunk + 1) * step <= f * step  BY <1>8, <3>1, Scaled
    <3> QED BY <1>1, <1>6, <1>8, <3>2
  <2>4. f <= per_chunk  BY <1>8, <2>3
  <2>5. f * step <= per_chunk * step  BY <1>8, <2>4, Scaled
  <2> QED BY <1>8, <2>2, <2>5 DEF size
<1>10. t \in starts
  <2>1. t - start = q * w /\ t \in start..(end - 1)  BY <1>4, <1>6, <1>7
  <2>2. (q * w) % w = 0
    <3> DEFINE a == q * w
    <3>1. a \in Nat /\ a = q * w + 0 /\ 0 \in 0..(w - 1) /\ q \in Int  BY <1>1, <1>6, <1>7
    <3> HIDE DEF a
    <3>2. a % w = 0  BY <1>1, <3>1, DivisionIsUnique
    <3> QED BY <3>2 DEF a
  <2> HIDE DEF t
  <2> QED BY <1>2, <2>1, <2>2
<1>11. s \in Chunk(t, end, size, step)
  <2>1. s - t = r /\ s \in t..Smallest(end, t + size)
    BY <1>1, <1>4, <1>6, <1>7, <1>9 DEF Smallest
  <2>2. r % step = 0
    <3>1. r \in Nat /\ r = f * step + 0 /\ 0 \in 0..(step - 1)  BY <1>6, <1>8
    <3> QED BY <1>8, <3>1, DivisionIsUnique
  <2> HIDE DEF t
  <2> QED BY <1>3, <2>1, <2>2
<1>12. ASSUME NEW u \in starts, s \in Chunk(u, end, size, step)  PROVE u = t
  <2>1. u \in start..(end - 1) /\ (u - start) % w = 0  BY <1>2
  <2>2. u \in Nat /\ u - start \in Nat  BY <2>1
  <2> DEFINE a == u - start
             v == a \div w
  <2>3. v \in Nat /\ a = (v * w) + (a % w)
    <3> HIDE DEF a
    <3> QED BY <1>1, <2>2, Division DEF a
  <2>4. a % w = 0  BY <2>1
  <2>5. s \in u..Smallest(end, u + size)  BY <1>3, <1>12
  <2>6. a \in Nat /\ u = start + a  BY <2>2
  <2> HIDE DEF a, v
  <2>7. v * w \in Int /\ a = v * w  BY <1>1, <2>3, <2>4
  <2> DEFINE x == s - u
  <2>8. x \in 0..(w - 1) /\ d = v * w + x
    BY <1>1, <1>4, <2>2, <2>5, <2>6, <2>7 DEF Smallest
  <2> HIDE DEF x
  <2>9. d \div w = v  BY <1>1, <1>4, <2>3, <2>8, DivisionIsUnique
  <2>10. v = q  BY <2>9 DEF q
  <2> QED BY <2>6, <2>7, <2>10
<1> HIDE DEF t
<1> QED BY <1>10, <1>11, <1>12

-----------------------------------------------------------------------------
(***************************************************************************)
(* Requests: what the scaler sends, and serving accepts.                   *)
(***************************************************************************)
\* parse_metadata(): metadata without a ConfigError gives whole lengths, of which the
\* history is the longer one.
LEMMA AcceptedLengths ==
  ASSUME NEW meta \in [DOMAIN Floats \cup DOMAIN Ints \cup {"historySteps"} -> Int],
         MetadataAccepted(meta)
  PROVE  /\ Config(meta).timeSteps \in Nat \ {0}
         /\ Config(meta).historySteps \in Nat
         /\ Config(meta).historySteps >= Config(meta).timeSteps
<1> DEFINE D == DOMAIN Floats \cup DOMAIN Ints \cup {"historySteps"}
<1>1. "timeSteps" \in DOMAIN Ints /\ "timeSteps" \notin DOMAIN Floats  BY DEF Ints, Floats
<1>2. "historySteps" \notin DOMAIN Ints /\ "historySteps" \notin DOMAIN Floats  BY DEF Ints, Floats
<1>3. meta["timeSteps"] \in Int /\ meta["historySteps"] \in Int  BY <1>1
<1>4. Ints["timeSteps"] = [default |-> 10, zero |-> FALSE]  BY DEF Ints, Key
<1>5. Config(meta)["timeSteps"] = Number(meta["timeSteps"], Ints["timeSteps"])
  <2> HIDE DEF D
  <2> QED BY <1>1 DEF Config
<1>6. Config(meta)["historySteps"] = Number(meta["historySteps"], HistoryKey(meta))
  BY <1>2 DEF Config
<1>7. NumberAccepted(meta["timeSteps"], Ints["timeSteps"])  BY <1>1 DEF MetadataAccepted
<1>8. Config(meta)["timeSteps"] \in Nat \ {0}
  BY <1>3, <1>4, <1>5, <1>7 DEF Number, NumberAccepted, Absent, NotANumber, Required
<1>9. HistoryKey(meta) = [default |-> Config(meta)["timeSteps"], zero |-> FALSE]
  BY <1>5 DEF HistoryKey, Key
<1>10. Config(meta)["historySteps"] \in Int
  BY <1>3, <1>6, <1>8, <1>9 DEF Number
<1>11. Config(meta).historySteps >= Config(meta).timeSteps  BY DEF MetadataAccepted
<1> QED BY <1>8, <1>10, <1>11

\* The grid of a history: its length and its last instant.
LEMMA GridOf ==
  ASSUME NEW n \in Int, NEW p \in Nat \ {0}
  PROVE  /\ GridEnding(n, p) = (n - p + 1)..n
         /\ IsFiniteSet(GridEnding(n, p)) /\ Cardinality(GridEnding(n, p)) = p
         /\ Max(GridEnding(n, p)) = n
<1> DEFINE a == n - p + 1
           G == a..n
<1>1. GridEnding(n, p) = G  BY DEF GridEnding
<1>2. a \in Int /\ a <= n /\ n - a + 1 = p /\ ~(a > n)  OBVIOUS
<1>3. IsFiniteSet(G) /\ Cardinality(G) = p
  <2> HIDE DEF a
  <2> QED BY <1>2, FS_Interval
<1>4. n \in G /\ G \in SUBSET Int /\ \A x \in G : x <= n
  <2> HIDE DEF a
  <2> QED BY <1>2
<1>5. Max(G) = n
  <2> HIDE DEF G
  <2>1. Max(G) \in G /\ \A y \in G : y <= Max(G)  BY <1>3, <1>4, Extremes
  <2>2. Max(G) \in Int  BY <1>4, <2>1
  <2> QED BY <1>4, <2>1, <2>2
<1> QED BY <1>1, <1>3, <1>5

LEMMA NewestIsInt ==
  ASSUME NEW samples, IsSampling(samples), Sampled(samples) # {}
  PROVE  Newest(samples) \in Int
<1>1. Sampled(samples) \subseteq DOMAIN samples  BY DEF Sampled
<1>2. Sampled(samples) \in SUBSET Int /\ IsFiniteSet(Sampled(samples))
  BY <1>1, FS_Subset DEF IsSampling
<1> QED BY <1>2, Extremes DEF Newest

\* _compute(): a forecast is asked for when the last timeSteps samples are there.
LEMMA AsksWhenThere ==
  ASSUME NEW cfg, cfg.timeSteps \in Nat \ {0}, cfg.historySteps \in Nat,
         cfg.historySteps >= cfg.timeSteps,
         NEW samples, IsSampling(samples), Sampled(samples) # {}
  PROVE  Asks(cfg, samples) <=>
           GridEnding(Newest(samples), cfg.timeSteps) \subseteq Values(samples, cfg.historySteps)
<1> DEFINE n == Newest(samples)
           t == cfg.timeSteps
           h == cfg.historySteps
           V == Values(samples, h)
           R == {k \in 0..h : (n - k + 1)..n \subseteq V}
<1>1. n \in Int  BY NewestIsInt
<1>2. Asks(cfg, samples) <=> Max(R) >= t  BY DEF Asks, Run
<1>3. GridEnding(n, t) = (n - t + 1)..n  BY DEF GridEnding
<1>4. t \in Nat /\ h \in Nat /\ t <= h  OBVIOUS
<1> HIDE DEF n, t, h, V
<1>5. Max(R) \in R /\ \A y \in R : y <= Max(R)
  <2>1. R \in SUBSET Int  BY <1>4
  <2>2. 0 \in R  BY <1>1, <1>4
  <2>3. IsFiniteSet(R)
    <3>1. IsFiniteSet(0..h)  BY <1>4, FS_Interval
    <3>2. R \subseteq 0..h  OBVIOUS
    <3> HIDE DEF R
    <3> QED BY <3>1, <3>2, FS_Subset
  <2> HIDE DEF R
  <2> QED BY <2>1, <2>2, <2>3, Extremes
<1>6. ASSUME Max(R) >= t  PROVE (n - t + 1)..n \subseteq V
  <2> DEFINE k == Max(R)
  <2>1. k \in 0..h /\ (n - k + 1)..n \subseteq V  BY <1>5
  <2> HIDE DEF R
  <2>2. k >= t /\ k \in Int  BY <1>6, <2>1
  <2> HIDE DEF k
  <2> QED BY <1>1, <1>4, <2>1, <2>2
<1>7. ASSUME (n - t + 1)..n \subseteq V  PROVE Max(R) >= t
  <2>1. t \in R  BY <1>4, <1>7
  <2>2. t <= Max(R) /\ Max(R) \in Int
    <3>1. Max(R) \in Int  BY <1>5
    <3> HIDE DEF R
    <3> QED BY <1>5, <2>1, <3>1
  <2> QED BY <1>4, <2>2
<1> HIDE DEF R
<1> QED BY <1>2, <1>3, <1>6, <1>7 DEF n, t, h, V

\* The names of the channels sent are those the model was trained with.
LEMMA WrittenNames ==
  ASSUME NEW cfg, NEW channels, NEW model, NEW strict,
         IsFiniteSet(DOMAIN channels), "target" \notin DOMAIN channels,
         WrittenFor(cfg, channels, model, strict)
  PROVE  NamesAccepted(IF DOMAIN channels = {} THEN {} ELSE {"target"} \cup DOMAIN channels, model)
<1> DEFINE D == DOMAIN channels
           N == {"target"} \cup D
<1>1. CASE D = {}
  <2>1. model.channels = {}  BY <1>1 DEF WrittenFor
  <2>2. Cardinality({}) = 0 /\ ~(0 > 1)  BY FS_EmptySet
  <2> QED BY <1>1, <2>1, <2>2 DEF NamesAccepted
<1>2. CASE D # {}
  <2>1. model.channels = N  BY <1>2 DEF WrittenFor
  <2>2. Cardinality(N) > 1
    <3>1. IsFiniteSet(D) /\ "target" \notin D  OBVIOUS
    <3> HIDE DEF D
    <3>2. Cardinality(D) \in Nat /\ Cardinality(D) # 0
      BY <1>2, <3>1, FS_CardinalityType, FS_EmptySet
    <3>3. Cardinality(D \cup {"target"}) = Cardinality(D) + 1  BY <3>1, FS_AddElement
    <3>4. N = D \cup {"target"}  OBVIOUS
    <3> QED BY <3>2, <3>3, <3>4
  <2> QED BY <1>2, <2>1, <2>2 DEF NamesAccepted
<1> QED BY <1>1, <1>2

\* Serving accepts a row over the grid it is sent when its last time_steps instants have
\* values, whatever else is missing.
LEMMA RowNeedsWindow ==
  ASSUME NEW cfg, cfg.timeSteps \in Nat \ {0}, cfg.historySteps \in Nat,
         cfg.historySteps >= cfg.timeSteps,
         NEW samples, IsSampling(samples), Sampled(samples) # {},
         NEW channels, NEW model, model.season_steps \in Nat, NEW strict \in BOOLEAN,
         WrittenFor(cfg, channels, model, strict), NEW row
  PROVE  RowAccepted(row, SentGrid(cfg, samples), model, strict) <=>
           GridEnding(Newest(samples), cfg.timeSteps) \subseteq row
<1> DEFINE n == Newest(samples)
           t == cfg.timeSteps
           h == cfg.historySteps
           G == SentGrid(cfg, samples)
<1>1. n \in Int  BY NewestIsInt
<1>2. h \in Nat \ {0} /\ t \in Nat \ {0} /\ h >= t  OBVIOUS
<1>3. G = GridEnding(n, h)
  <2>1. G = GridEnding(n, IF h > t THEN h ELSE t)  BY DEF SentGrid
  <2>2. (IF h > t THEN h ELSE t) = h  BY <1>2
  <2> QED BY <2>1, <2>2
<1>4. Max(G) = n /\ Cardinality(G) = h
  <2> HIDE DEF n, h, G
  <2> QED BY <1>1, <1>2, <1>3, GridOf
<1>5. model.time_steps = t  BY DEF WrittenFor
<1>6. h >= ModelLength(model) /\ (strict => h = ModelLength(model))
  <2>1. ModelLength(model) = t + model.season_steps  BY <1>5 DEF ModelLength
  <2>2. /\ model.season_steps > 0 => h >= ModelLength(model)
        /\ strict => h = ModelLength(model)
    BY DEF WrittenFor
  <2>3. ~(model.season_steps > 0) => model.season_steps = 0  OBVIOUS
  <2> QED BY <1>2, <2>1, <2>2, <2>3
<1>7. n \in GridEnding(n, t)
  <2> HIDE DEF n, t
  <2> QED BY <1>1, <1>2 DEF GridEnding
<1> HIDE DEF n, t, h, G
<1>8. RowAccepted(row, G, model, strict) <=> n \in row /\ GridEnding(n, t) \subseteq row
  BY <1>4, <1>5, <1>6 DEF RowAccepted
<1> QED BY <1>7, <1>8 DEF n, t, G

\* _channels(): a row carried forward over its trailing gap covers the window unless
\* something is missing before its last value.
LEMMA ChannelCovers ==
  ASSUME NEW cfg, cfg.timeSteps \in Nat \ {0}, cfg.historySteps \in Nat,
         cfg.historySteps >= cfg.timeSteps,
         NEW samples, IsSampling(samples), Sampled(samples) # {}, NEW channel
  PROVE  GridEnding(Newest(samples), cfg.timeSteps) \subseteq ChannelRow(cfg, samples, channel)
           <=> OnlyLags(cfg, samples, channel)
<1> DEFINE n == Newest(samples)
           t == cfg.timeSteps
           h == cfg.historySteps
           G == SentGrid(cfg, samples)
           W == GridEnding(n, t)
           row == IF Sampled(channel) = {} THEN {} ELSE Values(channel, h) \cap G
<1>1. n \in Int  BY NewestIsInt
<1>2. h \in Nat \ {0} /\ t \in Nat \ {0} /\ h >= t  OBVIOUS
<1>3. G = (n - h + 1)..n
  <2>1. G = GridEnding(n, IF h > t THEN h ELSE t)  BY DEF SentGrid
  <2>2. (IF h > t THEN h ELSE t) = h  BY <1>2
  <2> QED BY <2>1, <2>2 DEF GridEnding
<1>4. W = (n - t + 1)..n  BY DEF GridEnding
<1>5. ChannelRow(cfg, samples, channel) =
        IF row = {} THEN {} ELSE row \cup {x \in G : x > Max(row)}
  BY DEF ChannelRow
<1>6. OnlyLags(cfg, samples, channel) <=> row # {} /\ \A x \in W : x \in row \/ x > Max(row)
  BY DEF OnlyLags
<1> HIDE DEF n, t, h, G, W, row
<1>7. W \subseteq G /\ W # {}
  <2>1. n \in W  BY <1>1, <1>2, <1>4
  <2> QED BY <1>1, <1>2, <1>3, <1>4, <2>1
<1>8. W \subseteq ChannelRow(cfg, samples, channel) <=>
        row # {} /\ \A x \in W : x \in row \/ x > Max(row)
  BY <1>5, <1>7
<1> QED BY <1>6, <1>8 DEF W, n, t

\* The scaler's requests: for any metadata, samples, channels and model, a forecast is
\* asked for when the last timeSteps samples are there, and answered when no channel
\* has a hole inside the window.
THEOREM RequestsAreAnswered ==
  ASSUME NEW meta, NEW samples, NEW channels, NEW model, NEW strict \in BOOLEAN,
         IsPoll(meta, samples, channels, model)
  PROVE  AnsweredIn(meta, samples, channels, model, strict)
<1> DEFINE cfg == Config(meta)
           W == GridEnding(Newest(samples), cfg.timeSteps)
           missing == \E t \in W : t \notin DOMAIN samples \/ samples[t] # "value"
           lags == \A c \in DOMAIN channels : OnlyLags(cfg, samples, channels[c])
           accepted == RequestAccepted(cfg, samples, channels, model, strict)
<1> SUFFICES ASSUME MetadataAccepted(meta), ChannelsAccepted(channels),
                    WrittenFor(cfg, channels, model, strict), Sampled(samples) # {}
             PROVE  Outcome(cfg, samples, channels, model, strict) =
                      IF missing THEN "not asked" ELSE IF lags THEN "none" ELSE "bad_response"
  BY DEF AnsweredIn
<1>1. /\ cfg.timeSteps \in Nat \ {0} /\ cfg.historySteps \in Nat
      /\ cfg.historySteps >= cfg.timeSteps
  BY AcceptedLengths DEF IsPoll
<1>2. IsSampling(samples) /\ model.season_steps \in Nat /\ IsFiniteSet(DOMAIN channels)
  BY DEF IsPoll
<1> HIDE DEF cfg
<1>3. Newest(samples) \in Int  BY <1>2, NewestIsInt
<1>4. W \subseteq GridEnding(Newest(samples), cfg.historySteps)
  <2>1. W = (Newest(samples) - cfg.timeSteps + 1)..Newest(samples)  BY DEF GridEnding
  <2> QED BY <1>1, <1>3, <2>1 DEF GridEnding
<1>5. Values(samples, cfg.historySteps) =
        {t \in GridEnding(Newest(samples), cfg.historySteps) :
           t \in DOMAIN samples /\ samples[t] = "value"}
  BY DEF Values
<1>6. Asks(cfg, samples) <=> W \subseteq Values(samples, cfg.historySteps)
  BY <1>1, <1>2, AsksWhenThere
<1>7. Asks(cfg, samples) <=> ~missing
  <2> HIDE DEF W
  <2> QED BY <1>4, <1>5, <1>6
<1>8. Outcome(cfg, samples, channels, model, strict) =
        IF ~Asks(cfg, samples) THEN "not asked" ELSE IF accepted THEN "none" ELSE "bad_response"
  BY DEF Outcome, Reason
<1>9. ASSUME Asks(cfg, samples)  PROVE accepted <=> lags
  <2>1. NamesAccepted(IF DOMAIN channels = {} THEN {} ELSE {"target"} \cup DOMAIN channels, model)
    BY <1>2, WrittenNames DEF ChannelsAccepted
  <2>2. accepted <=> \A row \in RowsSent(cfg, samples, channels) :
                       RowAccepted(row, SentGrid(cfg, samples), model, strict)
    BY <2>1 DEF RequestAccepted
  <2>3. \A row : RowAccepted(row, SentGrid(cfg, samples), model, strict) <=> W \subseteq row
    BY <1>1, <1>2, RowNeedsWindow
  <2>4. W \subseteq TargetRow(cfg, samples)
    <3>1. W \subseteq Values(samples, cfg.historySteps)  BY <1>6, <1>9
    <3>2. SentGrid(cfg, samples) = GridEnding(Newest(samples), cfg.historySteps)
      <4>1. (IF cfg.historySteps > cfg.timeSteps THEN cfg.historySteps ELSE cfg.timeSteps)
              = cfg.historySteps
        BY <1>1
      <4> QED BY <4>1 DEF SentGrid
    <3> HIDE DEF W
    <3> QED BY <1>4, <3>1, <3>2 DEF TargetRow
  <2>5. \A c \in DOMAIN channels :
          W \subseteq ChannelRow(cfg, samples, channels[c]) <=> OnlyLags(cfg, samples, channels[c])
    BY <1>1, <1>2, ChannelCovers
  <2>6. RowsSent(cfg, samples, channels) =
          {TargetRow(cfg, samples)}
            \cup {ChannelRow(cfg, samples, channels[c]) : c \in DOMAIN channels}
    BY DEF RowsSent
  <2>7. accepted <=> \A row \in RowsSent(cfg, samples, channels) : W \subseteq row
    BY <2>2, <2>3
  <2> HIDE DEF W, accepted
  <2> QED BY <2>4, <2>5, <2>6, <2>7
<1> HIDE DEF missing, lags, accepted
<1> QED BY <1>7, <1>8, <1>9

-----------------------------------------------------------------------------
(***************************************************************************)
(* The cases of Algorithms: each property for every set of cases.          *)
(***************************************************************************)
\* A case is one of its set, and stays what it is.
Given ==
  /\ case.topic = "training" => case.of \in Trainings
  /\ case.topic = "comparison" => case.of \in Comparisons
  /\ case.topic = "retraining" => case.of \in Retrainings
  /\ case.topic = "channels" => case.of \in Channels
  /\ case.topic = "cost" => case.of \in Holdouts
  /\ case.topic = "ranking" => case.of \in Rankings
  /\ case.topic = "poll" => case.of \in Polls

LEMMA GivenAlways == CaseSpec => []Given
<1>1. CaseInit => Given
  <2> SUFFICES ASSUME CaseInit PROVE Given  OBVIOUS
  <2>1. ASSUME NEW topic, NEW cases, Case(topic, cases)
        PROVE  case.topic = topic /\ case.of \in cases
    BY <2>1 DEF Case
  <2>2. CASE case = [topic |-> "gate"]
    <3>1. case.topic = "gate"  BY <2>2
    <3> QED BY <3>1 DEF Given
  <2>3. CASE Case("training", Trainings)  BY <2>1, <2>3 DEF Given
  <2>4. CASE Case("comparison", Comparisons)  BY <2>1, <2>4 DEF Given
  <2>5. CASE Case("retraining", Retrainings)  BY <2>1, <2>5 DEF Given
  <2>6. CASE Case("channels", Channels)  BY <2>1, <2>6 DEF Given
  <2>7. CASE Case("cost", Holdouts)  BY <2>1, <2>7 DEF Given
  <2>8. CASE Case("ranking", Rankings)  BY <2>1, <2>8 DEF Given
  <2>9. CASE Case("poll", Polls)  BY <2>1, <2>9 DEF Given
  <2> QED BY <2>2, <2>3, <2>4, <2>5, <2>6, <2>7, <2>8, <2>9 DEF CaseInit
<1>2. Given /\ [CaseNext]_<<vars, case>> => Given'
  BY DEF Given, CaseNext
<1> QED BY <1>1, <1>2, PTL DEF CaseSpec

\* seasonal_lags() reads the stretch that is forecast, one season earlier.
THEOREM CasesAreAligned == CaseSpec => []SeasonAligned
<1>1. Given => SeasonAligned
  <2> SUFFICES ASSUME Given, case.topic = "comparison"
               PROVE  SeasonAlignedIn(case.of.n, case.of.a)
    BY DEF SeasonAligned
  <2>1. case.of.n \in Nat /\ case.of.a \in Sizes  BY CasesAssumption DEF Given
  <2> QED BY <2>1, LagsAreAligned
<1> QED BY <1>1, GivenAlways, PTL

\* Candidates that a run goes on with are fitted before, and scored on, one holdout.
THEOREM CasesShareHoldout == CaseSpec => []SameHoldout
<1>1. Given => SameHoldout
  <2> SUFFICES ASSUME Given, case.topic = "training"  PROVE SameHoldoutIn(case.of)
    BY DEF SameHoldout
  <2>1. case.of \in Options  BY CasesAssumption DEF Given
  <2> QED BY <2>1, HoldoutIsShared
<1> QED BY <1>1, GivenAlways, PTL

\* The windows _decide() counts before it compares are there for both models.
THEOREM CasesAreFresh == CaseSpec => []FreshCount
<1>1. Given => FreshCount
  <2> SUFFICES ASSUME Given, case.topic = "comparison"
               PROVE  FreshCountIn(case.of.n, case.of.compare_from, case.of.a, case.of.b)
    BY DEF FreshCount
  <2>1. case.of.n \in Nat /\ case.of.compare_from \in Nat /\ case.of.a \in Sizes /\ case.of.b \in Sizes
    BY CasesAssumption DEF Given
  <2> QED BY <2>1, FreshIsThere
<1> QED BY <1>1, GivenAlways, PTL

\* A series never contains what was measured while the breaker was open, once the
\* receiver has learned when that was.
THEOREM CasesStayOut == CaseSpec => []OpenNeverUsed
<1>1. Given => OpenNeverUsed
  <2> SUFFICES ASSUME Given, case.topic = "retraining"
               PROVE  OpenNeverUsedIn(case.of.points, case.of.step, case.of.answered,
                                      case.of.open, case.of.every, case.of.pad)
    BY DEF OpenNeverUsed
  <2>1. /\ case.of.points \in SUBSET Nat /\ IsFiniteSet(case.of.points) /\ case.of.points # {}
        /\ case.of.open \in SUBSET Nat /\ IsFiniteSet(case.of.open)
        /\ case.of.step \in Nat \ {0} /\ case.of.every \in Nat \ {0} /\ case.of.pad \in Nat
        /\ case.of.answered \in BOOLEAN
    BY CasesAssumption DEF Given
  <2> QED BY <2>1, EpisodesStayOut
<1> QED BY <1>1, GivenAlways, PTL

\* The stamps asked for lie in the range.
LEMMA FetchedBetween ==
  ASSUME NEW start \in Nat, NEW end \in Nat, NEW size \in Nat, NEW step
  PROVE  Fetched(start, end, size, step) \subseteq start..end
<1> SUFFICES ASSUME NEW t \in ChunkStarts(start, end, size, step),
                    NEW s \in Chunk(t, end, size, step)
             PROVE  s \in start..end
  BY DEF Fetched
<1>1. t \in start..(end - 1)  BY DEF ChunkStarts
<1>2. s \in t..Smallest(end, t + size)  BY DEF Chunk
<1>3. t \in Int /\ start <= t /\ s \in Int /\ t <= s /\ s <= Smallest(end, t + size)
  BY <1>1, <1>2
<1>4. s <= end  BY <1>3 DEF Smallest
<1> QED BY <1>3, <1>4

\* Chunks cover the range that is asked for, and channels agree on their grid.
THEOREM CasesAgree == CaseSpec => []GridsAgree
<1>1. Given => GridsAgree
  <2> SUFFICES ASSUME Given, case.topic = "channels"  PROVE GridsAgree
    BY DEF GridsAgree
  <2> DEFINE c == case.of
             size == c.per_chunk * c.step
             points(start) == {s \in Fetched(start, start + c.length, size, c.step) :
                                 (s - start) \div c.step \notin c.missing}
  <2>1. /\ c.step \in Nat \ {0} /\ c.per_chunk \in Nat /\ c.start \in Nat
        /\ c.length \in Nat /\ c.lag \in Nat
    BY CasesAssumption DEF Given
  <2> HIDE DEF c
  <2>2. ChunksCoverIn(c.start, c.start + c.length, size, c.step)
    <3>1. c.start + c.length \in Nat  BY <2>1
    <3> QED BY <2>1, <3>1, ChunksCover
  <2>3. ASSUME NEW start \in Nat
        PROVE  points(start) \in SUBSET Nat /\ IsFiniteSet(points(start))
    <3>1. points(start) \subseteq start..(start + c.length)
      <4>1. start + c.length \in Nat /\ size \in Nat  BY <2>1
      <4>2. points(start) \subseteq Fetched(start, start + c.length, size, c.step)  OBVIOUS
      <4> HIDE DEF points, size
      <4> QED BY <4>1, <4>2, FetchedBetween
    <3>2. IsFiniteSet(start..(start + c.length))
      <4>1. start + c.length \in Int  BY <2>1
      <4> QED BY <4>1, FS_Interval
    <3>3. start..(start + c.length) \subseteq Nat
      <4>1. start \in Nat /\ start + c.length \in Nat  BY <2>1
      <4> QED BY <4>1
    <3> HIDE DEF points
    <3>4. IsFiniteSet(points(start))  BY <3>1, <3>2, FS_Subset
    <3> QED BY <3>1, <3>3, <3>4
  <2>4. c.start \in Nat /\ c.start + c.lag \in Nat  BY <2>1
  <2> HIDE DEF points
  <2>5. points(c.start) # {} /\ points(c.start + c.lag) # {} =>
          GridsAgreeIn(points(c.start), points(c.start + c.lag), c.step)
    BY <2>1, <2>3, <2>4, GridsOfChannelsAgree
  <2> QED BY <2>2, <2>5 DEF GridsAgree, points, c
<1> QED BY <1>1, GivenAlways, PTL

\* The cheapest level is the quantile the weight of a shortfall stands for.
THEOREM CasesCover == CaseSpec => []CostCovers
<1>1. Given => CostCovers
  <2> SUFFICES ASSUME Given, case.topic = "cost"
               PROVE  QuantileIn(case.of.actual, case.of.under_weight)
    BY DEF CostCovers
  <2>1. /\ IsFiniteSet(DOMAIN case.of.actual) /\ DOMAIN case.of.actual # {}
        /\ \A s \in DOMAIN case.of.actual : case.of.actual[s] \in Nat
        /\ case.of.under_weight \in Nat
    BY CasesAssumption DEF Given
  <2> QED BY <2>1, CheapestIsQuantile
<1> QED BY <1>1, GivenAlways, PTL

\* The winner follows the level of the demand if any candidate does.
THEOREM CasesFollow == CaseSpec => []WinnerFollows
<1>1. Given => WinnerFollows
  <2> SUFFICES ASSUME Given, case.topic = "ranking"
               PROVE  WinnerFollowsIn(case.of.trees, case.of.values, case.of.split, case.of.m,
                                      case.of.under_weight, case.of.min_tracking)
    BY DEF WinnerFollows
  <2>1. /\ case.of.split \in Nat \ {0} /\ case.of.n \in Nat /\ case.of.split < case.of.n
        /\ case.of.values \in [0..(case.of.n - 1) -> Nat]
        /\ case.of.m \in Sizes /\ MetaAccepted(case.of.m)
        /\ case.of.under_weight \in Nat /\ case.of.min_tracking \in 1..100
        /\ case.of.trees \in Seq(Trees)
    BY CasesAssumption DEF Given
  <2> QED BY <2>1, FollowerWins
<1> QED BY <1>1, GivenAlways, PTL

\* A request whose window is complete is answered.
THEOREM CasesAreAnswered == CaseSpec => []Answered
<1>1. Given => Answered
  <2> SUFFICES ASSUME Given, case.topic = "poll"
               PROVE  AnsweredIn(case.of.meta, case.of.samples, case.of.channels, case.of.model,
                                 case.of.strict)
    BY DEF Answered
  <2>1. /\ IsPoll(case.of.meta, case.of.samples, case.of.channels, case.of.model)
        /\ case.of.strict \in BOOLEAN
    BY CasesAssumption DEF Given
  <2> QED BY <2>1, RequestsAreAnswered
<1> QED BY <1>1, GivenAlways, PTL
\* The gate's loop runs as it does alone.
THEOREM CasesAreJudged == CaseSpec => []Judged
<1>1. CaseInit => Init
  <2> SUFFICES ASSUME GateIdle PROVE Init  BY DEF CaseInit
  <2>1. <<>> \in [1..0 -> 0..MaxDemand]  OBVIOUS
  <2>2. 0 \in 0..MaxSteps /\ 0 \in 0..MaxDemand  BY ConstantsAssumption
  <2> QED BY <2>1, <2>2 DEF GateIdle, Init
<1>2. [CaseNext]_<<vars, case>> => [Next]_vars  BY DEF CaseNext, Next
<1>3. CaseSpec => Spec  BY <1>1, <1>2, PTL DEF CaseSpec, Spec
<1> QED BY <1>3, VerdictIsDocumented

=============================================================================
