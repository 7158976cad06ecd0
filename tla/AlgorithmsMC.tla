----------------------------- MODULE AlgorithmsMC -----------------------------
(***************************************************************************)
(* Small sets of cases for Algorithms.                                     *)
(***************************************************************************)
EXTENDS Algorithms

TrainingCases ==
  [n : 6..13, test_percent : {20, 35, 50}, time_steps : {2, 3}, horizon : {1, 2}, step : {2},
   period : {2, 3, 5, 8}, timestamps : BOOLEAN, candidates : {FeatureKinds}]

Contracts ==
  {Meta("window", t, h, 0) : t \in {2, 3}, h \in 1..3}
    \cup {Meta("anchored_season", t, h, s) : t \in {2}, h \in 1..2, s \in 2..3}

ComparisonCases == [n : 4..12, compare_from : 0..12, a : Contracts, b : Contracts]

\* The breaker looked at every instant, or at every second one, with a gap that
\* does not join; or Prometheus not there to be asked.
RetrainingCases ==
  UNION {[points : SUBSET (1..7) \ {{}}, step : {2, 3}, pad : {1, 2}, answered : {answered},
          every : {every}, open : open] :
           <<answered, every, open>> \in {<<TRUE, 1, SUBSET {2, 3, 5, 6}>>,
                                         <<TRUE, 2, SUBSET {2, 4, 6}>>,
                                         <<FALSE, 1, {{2, 3}}>>}}

\* Two channels asked for at different times, some samples of each missing.
ChannelCases ==
  [step : {2, 3}, per_chunk : {2}, start : 0..2, length : 6..12, lag : 0..2,
   missing : SUBSET (0..3)]

HoldoutCases == [actual : [1..4 -> 0..3] \cup [1..5 -> 0..2], under_weight : 1..3]

Tree(target, at, low, high) == [target |-> target, at |-> at, low |-> low, high |-> high]

\* Five samples, the last two of them held out.
RankingCases ==
  [values : [0..4 -> 0..2], n : {5}, split : {3}, m : {Meta("anchored", 2, 1, 0)},
   under_weight : {1, 3}, min_tracking : {50},
   trees : {<<Tree("level", 0, a, b), Tree("delta", at, c, d), Tree("delta", 0, 0, 0)>> :
              a \in {0, 1}, b \in {1, 2}, at \in {0, 1}, c \in -1..1, d \in -1..1}]

\* Metadata that gives the two lengths, and any one other key.
MetadataOf(times, history, key, raw) ==
  [k \in DOMAIN Floats \cup DOMAIN Ints \cup {"historySteps"} |->
     IF k = "timeSteps" THEN times
     ELSE IF k = "historySteps" THEN history
     ELSE IF k = key THEN raw
     ELSE IF k = "targetValue" THEN 10 ELSE Absent]

SampleStates == {"value", "nan", "none"}

OneSeries == [time_steps : {2}, season_steps : 0..2, channels : {{}}]
TwoSeries == [time_steps : {2}, season_steps : 0..1, channels : {{"target", "rps"}}]

\* Every history of one series, and of a second channel; every key of the metadata.
PollCases ==
  UNION {[meta : {MetadataOf(2, h, "smoothingAlpha", Absent)}, samples : [0..h -> SampleStates],
          channels : {<<>>}, model : OneSeries, strict : BOOLEAN] : h \in 1..4}
  \cup
    [meta : {MetadataOf(2, h, "smoothingAlpha", Absent) : h \in {2, 3}},
     samples : {[t \in 0..3 |-> IF t = 0 THEN x ELSE "value"] : x \in SampleStates},
     channels : {[c \in {"rps"} |-> s] : s \in [0..3 -> SampleStates]},
     model : TwoSeries, strict : BOOLEAN]
  \cup
    [meta : {MetadataOf(times, history, key, raw) :
               times \in {NotANumber, 0, 2}, history \in {Absent, -1, 1, 3},
               key \in DOMAIN Floats \cup DOMAIN Ints, raw \in {NotANumber, -1, 0, 1, 10, 11}},
     samples : {[t \in 0..3 |-> "value"]}, channels : {<<>>}, model : OneSeries, strict : BOOLEAN]

=============================================================================
