------------------------------ MODULE Algorithms ------------------------------
(***************************************************************************)
(* The computations without a state of their own, each on every case of a  *)
(* set: the gate's loop (SpikeGate), the series a run trains on (Grid),    *)
(* the windows models are trained and compared on (Windows), their scores  *)
(* (Scoring) and the requests of the scaler (Requests).  A case is chosen  *)
(* in the initial state.                                                   *)
(***************************************************************************)
EXTENDS SpikeGate, Grid, Scoring, Requests

CONSTANTS
  Trainings,    \* runs: what they are started with
  Comparisons,  \* a series, where the comparison begins, and two models
  Retrainings,  \* stamps of a series, and when the breaker was seen open
  Channels,     \* two channels asked for one after the other
  Holdouts,     \* what came, and the weight of a shortfall
  Rankings,     \* candidates and the series they are scored on
  Polls         \* metadata, samples and the model that is served

ASSUME CasesAssumption ==
  /\ \A c \in Trainings : c \in Options
  /\ \A c \in Comparisons : c \in [n : Nat, compare_from : Nat, a : Sizes, b : Sizes]
  /\ \A c \in Retrainings :
       /\ c.points \subseteq Nat /\ IsFiniteSet(c.points) /\ c.points # {}
       /\ c.open \subseteq Nat /\ IsFiniteSet(c.open)
       /\ c.step \in Nat \ {0} /\ c.every \in Nat \ {0} /\ c.pad \in Nat
       /\ c.answered \in BOOLEAN
  /\ \A c \in Channels :
       c \in [step : Nat \ {0}, per_chunk : Nat, start : Nat, length : Nat, lag : Nat,
              missing : SUBSET Nat]
  /\ \A c \in Holdouts :
       /\ IsFiniteSet(DOMAIN c.actual) /\ DOMAIN c.actual # {}
       /\ \A s \in DOMAIN c.actual : c.actual[s] \in Nat
       /\ c.under_weight \in Nat
  /\ \A c \in Rankings :
       /\ c.split \in Nat \ {0} /\ c.n \in Nat /\ c.split < c.n
       /\ c.values \in [0..(c.n - 1) -> Nat]
       /\ c.m \in Sizes /\ MetaAccepted(c.m)
       /\ c.under_weight \in Nat
       /\ c.min_tracking \in 1..100
       /\ c.trees \in Seq(Trees)
  /\ \A c \in Polls : IsPoll(c.meta, c.samples, c.channels, c.model) /\ c.strict \in BOOLEAN

VARIABLE case

Case(topic, cases) == \E c \in cases : case = [topic |-> topic, of |-> c]

\* The gate, while the other computations are looked at.
GateIdle ==
  /\ horizon = <<>> /\ observed = 0 /\ min_steps = 0 /\ i = 0
  /\ rise_steps = 0 /\ run = 0 /\ longest = 0 /\ verdict = "none"

CaseInit ==
  \/ Init /\ case = [topic |-> "gate"]
  \/ /\ GateIdle
     /\ \/ Case("training", Trainings) \/ Case("comparison", Comparisons)
        \/ Case("retraining", Retrainings) \/ Case("channels", Channels)
        \/ Case("cost", Holdouts) \/ Case("ranking", Rankings) \/ Case("poll", Polls)

CaseNext ==
  \/ case.topic = "gate" /\ Inactive /\ UNCHANGED case
  \/ case.topic = "gate" /\ Step /\ UNCHANGED case
  \/ case.topic = "gate" /\ Judge /\ UNCHANGED case

CaseSpec == CaseInit /\ [][CaseNext]_<<vars, case>>

-----------------------------------------------------------------------------
(***************************************************************************)
(* Properties.                                                             *)
(***************************************************************************)

\* features.py, seasonal_lags(): see SeasonAlignedIn.
SeasonAligned ==
  case.topic = "comparison" => SeasonAlignedIn(case.of.n, case.of.a)

\* model.py, train_and_select(): see SameHoldoutIn.
SameHoldout ==
  case.topic = "training" => SameHoldoutIn(case.of)

\* registry.py, _decide(): see FreshCountIn.
FreshCount ==
  case.topic = "comparison" =>
    FreshCountIn(case.of.n, case.of.compare_from, case.of.a, case.of.b)

\* data.py, regularize(), on the ranges of trigger.py, breaker_windows() and
\* handle_alerts(): see OpenNeverUsedIn.
OpenNeverUsed ==
  case.topic = "retraining" =>
    OpenNeverUsedIn(case.of.points, case.of.step, case.of.answered, case.of.open,
                    case.of.every, case.of.pad)

\* data.py, query_prometheus(), regularize() and align_series(): see ChunksCoverIn
\* and GridsAgreeIn.
GridsAgree ==
  case.topic = "channels" =>
    LET c == case.of
        size == c.per_chunk * c.step
        points(start) == {s \in Fetched(start, start + c.length, size, c.step) :
                            (s - start) \div c.step \notin c.missing}
    IN /\ ChunksCoverIn(c.start, c.start + c.length, size, c.step)
       /\ points(c.start) # {} /\ points(c.start + c.lag) # {} =>
            GridsAgreeIn(points(c.start), points(c.start + c.lag), c.step)

\* model.py, score(): see QuantileIn.
CostCovers ==
  case.topic = "cost" => QuantileIn(case.of.actual, case.of.under_weight)

\* model.py, level_tracking() and train_and_select(): see WinnerFollowsIn.
WinnerFollows ==
  case.topic = "ranking" =>
    WinnerFollowsIn(case.of.trees, case.of.values, case.of.split, case.of.m,
                    case.of.under_weight, case.of.min_tracking)

\* The scaler's requests to serving: see AnsweredIn.
Answered ==
  case.topic = "poll" =>
    AnsweredIn(case.of.meta, case.of.samples, case.of.channels, case.of.model, case.of.strict)

=============================================================================
