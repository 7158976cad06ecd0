------------------------------ MODULE SpikeGate ------------------------------
(***************************************************************************)
(* The hysteresis gate (smoothing.py, spike_gate): a pure function of a    *)
(* forecast horizon, the observed demand and spikeMinSteps, as the loop    *)
(* that computes it.  Demands are whole numbers here.                      *)
(***************************************************************************)
EXTENDS Integers, Sequences

CONSTANTS
  Target,     \* target_value: demand one replica serves
  MaxDemand,  \* largest demand considered
  MaxSteps    \* longest horizon considered, and the largest spikeMinSteps

ASSUME ConstantsAssumption ==
  /\ Target \in Nat \ {0}
  /\ MaxDemand \in Nat
  /\ MaxSteps \in Nat

VARIABLES
  horizon,    \* the forecast, a sequence of demands
  observed,   \* the demand now
  min_steps,  \* spikeMinSteps
  i,          \* steps of the horizon the loop has seen
  rise_steps, \* of these, how many rise
  run,        \* length of the run of rising steps that ends at i
  longest,    \* length of the longest run so far
  verdict     \* "none" until the function returns

inputs == <<horizon, observed, min_steps>>
vars == <<horizon, observed, min_steps, i, rise_steps, run, longest, verdict>>

\* _replicas(): what KEDA will compute.
Replicas(demand) == (demand + Target - 1) \div Target

Rises(h) == Replicas(h) > Replicas(observed)

Greater(a, b) == IF a >= b THEN a ELSE b

-----------------------------------------------------------------------------
Init ==
  /\ \E n \in 0..MaxSteps : horizon \in [1..n -> 0..MaxDemand]
  /\ observed \in 0..MaxDemand
  /\ min_steps \in 0..MaxSteps
  /\ i = 0
  /\ rise_steps = 0
  /\ run = 0
  /\ longest = 0
  /\ verdict = "none"

\* The gate is switched off, or the horizon too short to judge.
Inactive ==
  /\ verdict = "none"
  /\ min_steps <= 1 \/ Len(horizon) < min_steps
  /\ verdict' = "passed"
  /\ UNCHANGED <<inputs, i, rise_steps, run, longest>>

\* Faulty variant: a step that does not rise does not end the run.
StepUnbroken ==
  /\ verdict = "none"
  /\ min_steps > 1 /\ Len(horizon) >= min_steps
  /\ i < Len(horizon)
  /\ i' = i + 1
  /\ rise_steps' = rise_steps + (IF Rises(horizon[i + 1]) THEN 1 ELSE 0)
  /\ run' = IF Rises(horizon[i + 1]) THEN run + 1 ELSE run
  /\ longest' = Greater(longest, run')
  /\ UNCHANGED <<inputs, verdict>>

Step ==
  /\ verdict = "none"
  /\ min_steps > 1 /\ Len(horizon) >= min_steps
  /\ i < Len(horizon)
  /\ i' = i + 1
  /\ rise_steps' = rise_steps + (IF Rises(horizon[i + 1]) THEN 1 ELSE 0)
  /\ run' = IF Rises(horizon[i + 1]) THEN run + 1 ELSE 0
  /\ longest' = Greater(longest, run')
  /\ UNCHANGED <<inputs, verdict>>

Judge ==
  /\ verdict = "none"
  /\ min_steps > 1 /\ Len(horizon) >= min_steps
  /\ i = Len(horizon)
  /\ verdict' = IF rise_steps # 0 /\ longest < min_steps THEN "suppressed" ELSE "passed"
  /\ UNCHANGED <<inputs, i, rise_steps, run, longest>>

Next == Inactive \/ Step \/ Judge

Spec == Init /\ [][Next]_vars

-----------------------------------------------------------------------------
(***************************************************************************)
(* Properties.                                                             *)
(***************************************************************************)

RisesAt(j) == Rises(horizon[j])

\* min_steps consecutive steps of the horizon rise.
Sustained ==
  \E a \in 1..(Len(horizon) - min_steps + 1) :
    \A j \in a..(a + min_steps - 1) : RisesAt(j)

\* "If the steps that need more replicas than observed do not form a run of at
\* least min_steps consecutive steps, the rise is classified as noise; a
\* horizon shorter than min_steps cannot be judged and passes": the loop
\* computes this of every horizon.
Judged ==
  verdict # "none" =>
    (verdict = "suppressed" <=>
       /\ min_steps > 1
       /\ Len(horizon) >= min_steps
       /\ \E j \in 1..Len(horizon) : RisesAt(j)
       /\ ~Sustained)

-----------------------------------------------------------------------------
(***************************************************************************)
(* The loop invariant: run is the longest run that ends at i, longest the  *)
(* longest of all up to i.                                                 *)
(***************************************************************************)
TypeOK ==
  /\ horizon \in Seq(0..MaxDemand)
  /\ observed \in 0..MaxDemand
  /\ min_steps \in 0..MaxSteps
  /\ i \in 0..Len(horizon)
  /\ rise_steps \in 0..i
  /\ run \in 0..i
  /\ longest \in run..i
  /\ verdict \in {"none", "passed", "suppressed"}

RunEndsHere ==
  /\ \A j \in (i - run + 1)..i : RisesAt(j)
  /\ run < i => ~RisesAt(i - run)

LongestIsReached ==
  \E a \in 1..(i - longest + 1) : \A j \in a..(a + longest - 1) : RisesAt(j)

LongestIsLongest ==
  \A a \in 1..i : \A b \in a..i :
    (\A j \in a..b : RisesAt(j)) => b - a + 1 <= longest

RisesCounted == rise_steps = 0 <=> \A j \in 1..i : ~RisesAt(j)

LoopInv ==
  /\ TypeOK
  /\ RunEndsHere
  /\ LongestIsReached
  /\ LongestIsLongest
  /\ RisesCounted
  /\ Judged

=============================================================================
