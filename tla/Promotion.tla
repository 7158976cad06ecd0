------------------------------ MODULE Promotion ------------------------------
(***************************************************************************)
(* Training runs and the registry (training/forecast_training/registry.py, *)
(* run_pipeline).  A run trains on the newest points of the series, asks   *)
(* the registry for the champion, decides, and registers, aliases and tags *)
(* its model one call after another; it can end between any two calls.     *)
(*                                                                         *)
(* A model has one cost on data it was not fitted to; on data it was       *)
(* fitted to it looks any better.  Instants are counted in grid points.    *)
(***************************************************************************)
EXTENDS Integers, Sequences

CONSTANTS
  Runs,            \* training processes
  Costs,           \* costs of a model
  Persistence,     \* cost of the persistence baseline
  Seasonal,        \* cost of the seasonal baseline; NoCost without a season of history
  NoCost,
  baseline,        \* TRAIN_BASELINE
  Channels,        \* lists of channels a model can take
  Contract,        \* the channels each run trains on
  Legacy,          \* the channels of LEGACY_META, the contract taken when none is to be had
  MinImprovement,  \* relative improvement a run asks for, in percent
  DryRun,          \* runs started with --dry-run
  Refit,           \* register the model fitted on all points
  Points,          \* points a run trains on
  Holdout,         \* of these, the points from the split on
  Length,          \* input length of every model
  Horizon,
  MinFresh,        \* min_fresh_windows
  MaxTime,         \* bound: newest instant of the series
  MaxVersions      \* bound: versions after which no run begins

ASSUME ConstantsAssumption ==
  /\ Costs \subseteq Nat
  /\ Persistence \in Nat
  /\ Seasonal \in Nat \cup {NoCost}
  /\ NoCost \notin Nat
  /\ baseline \in {"persistence", "seasonal", "best"}
  /\ Contract \in [Runs -> Channels]
  /\ Legacy \in Channels
  /\ MinImprovement \in [Runs -> 0..100]
  /\ DryRun \subseteq Runs
  /\ Refit \in BOOLEAN
  /\ Points \in Nat /\ Holdout \in 1..Points
  /\ Length \in Nat /\ Horizon \in Nat \ {0} /\ MinFresh \in Nat \ {0}
  /\ MaxTime \in Nat /\ MaxVersions \in Nat

VARIABLES
  newest,    \* newest instant of the series
  versions,  \* registered versions; number v is versions[v]
  alias,     \* the version @champion points to, 0 without one
  run        \* the training runs

registry == <<versions, alias>>
vars == <<newest, versions, alias, run>>

NoTag == -1

Version ==
  [fitted_until : Int, cost : Costs, contract : Channels, data_end_ts : Int]

Idle ==
  [pc |-> "off", end |-> 0, cost |-> 0, champ |-> 0, tag |-> NoTag, model |-> 0,
   from |-> NoTag, why |-> "none", version |-> 0]

Done == [Idle EXCEPT !.pc = "done"]

Running(r) == run[r].pc \notin {"off", "done"}

-----------------------------------------------------------------------------
\* There is no champion, or one an earlier configuration or the notebook left,
\* which has no tags.
Init ==
  /\ newest = Points
  /\ \/ versions = <<>> /\ alias = 0
     \/ /\ alias = 1
        /\ \E cost \in Costs, contract \in Channels :
             versions = <<[fitted_until |-> Points + 1, cost |-> cost, contract |-> contract,
                           data_end_ts |-> NoTag]>>
  /\ run = [r \in Runs |-> Idle]

\* Another sample of the series.
NewData ==
  /\ newest < MaxTime
  /\ newest' = newest + 1
  /\ UNCHANGED <<registry, run>>

(***************************************************************************)
(* The candidates are trained; the winner is held against the baseline.    *)
(***************************************************************************)
Split(r) == run[r].end - Holdout + 1

BaselineCost ==
  IF Seasonal # NoCost /\ (baseline = "seasonal" \/ (baseline = "best" /\ Seasonal < Persistence))
    THEN Seasonal
    ELSE Persistence

\* The winner of train_and_select(), if a candidate is eligible.  A winner no
\* better than the baseline is rejected before the champion is looked at.
Train(r) ==
  /\ ~Running(r)
  /\ Len(versions) < MaxVersions
  /\ \E cost \in Costs, eligible \in BOOLEAN :
       run' = [run EXCEPT ![r] =
                 IF eligible /\ cost < BaselineCost
                   THEN [Idle EXCEPT !.pc = "resolving", !.end = newest, !.cost = cost]
                   ELSE Done]
  /\ UNCHANGED <<newest, registry>>

(***************************************************************************)
(* load_champion() and _decide().                                          *)
(***************************************************************************)

\* "No champion yet": there is none, or the lookup of the alias failed, for
\* whatever reason.
NoChampion(r) ==
  run' = [run EXCEPT ![r].pc = IF r \in DryRun THEN "done" ELSE "registering",
                     ![r].why = "first"]

\* The version behind the alias and its tags.
Found(r) ==
  /\ alias # 0
  /\ run' = [run EXCEPT ![r].pc = "loading", ![r].champ = alias,
                        ![r].tag = versions[alias].data_end_ts]

Resolve(r) ==
  /\ run[r].pc = "resolving"
  /\ NoChampion(r) \/ Found(r)
  /\ UNCHANGED <<newest, registry>>

Later(a, b) == IF a >= b THEN a ELSE b

\* Faulty variant: the last point the champion was fitted on is compared on.
CompareFromLast(r) ==
  IF run[r].tag = NoTag THEN Split(r) ELSE Later(Split(r), run[r].tag)

\* searchsorted(timestamps, data_end, side="right"), not before the split.
CompareFrom(r) ==
  IF run[r].tag = NoTag THEN Split(r) ELSE Later(Split(r), run[r].tag + 1)

\* Windows all of whose targets lie from there on.
FreshWindows(r) ==
  run[r].end - Later(CompareFrom(r), run[r].end - Points + 1 + Length) - Horizon + 2

\* The costs the bundle fetched may show on these windows.  One put together of
\* two versions, or of a version and a contract that is not its own, has model 0
\* and may show any.
Shown(r, model) ==
  IF model = 0
    THEN Costs
    ELSE {c \in Costs : IF versions[model].fitted_until > CompareFrom(r)
                          THEN c <= versions[model].cost
                          ELSE c = versions[model].cost}

\* Faulty variant: a model as good as the champion replaces it.
ImprovesOrEqual(r, old) == 100 * run[r].cost <= old * (100 - MinImprovement[r])

Improves(r, old) == 100 * run[r].cost < old * (100 - MinImprovement[r])

Keep(r, model) == [run[r] EXCEPT !.pc = "done", !.model = model]

Promoted(r, model, why) ==
  [run[r] EXCEPT !.pc = IF r \in DryRun THEN "done" ELSE "registering",
                 !.model = model, !.why = why]

\* The model is fetched by the alias, whatever that is by now, the scalers and
\* the metadata by the version resolved.  Metadata that cannot be downloaded is
\* taken for that of the notebook's models, which have none.
Decide(r) ==
  /\ run[r].pc = "loading"
  /\ \E lost \in BOOLEAN :
       LET champ == run[r].champ
           contract == IF lost THEN Legacy ELSE versions[champ].contract
           model == IF lost \/ alias # champ THEN 0 ELSE champ
       IN  IF contract # Contract[r]
             THEN run' = [run EXCEPT ![r] = Promoted(r, model, "channels")]
             ELSE \/ run' = [run EXCEPT ![r] = Promoted(r, model, "tracking")]
                  \/ /\ FreshWindows(r) < MinFresh
                     /\ run' = [run EXCEPT ![r] = Done]
                  \/ /\ FreshWindows(r) >= MinFresh
                     /\ \E old \in Shown(r, model) :
                          run' = [run EXCEPT ![r] =
                                    [(IF Improves(r, old) THEN Promoted(r, model, "cost")
                                                          ELSE Keep(r, model))
                                       EXCEPT !.from = CompareFrom(r)]]
  /\ UNCHANGED <<newest, registry>>

(***************************************************************************)
(* The winner becomes the champion.                                        *)
(***************************************************************************)
FittedUntil(r) == IF Refit THEN run[r].end + 1 ELSE Split(r)

\* The artifacts are logged, then the version is registered.
Register(r) ==
  /\ run[r].pc = "registering"
  /\ versions' = Append(versions,
       [fitted_until |-> FittedUntil(r), cost |-> run[r].cost, contract |-> Contract[r],
        data_end_ts |-> NoTag])
  /\ run' = [run EXCEPT ![r].pc = "aliasing", ![r].version = Len(versions) + 1]
  /\ UNCHANGED <<newest, alias>>

\* Of what the run knew, the tags need no more of the champion.
Aliased(x) ==
  [Idle EXCEPT !.pc = "tagging", !.end = x.end, !.cost = x.cost, !.version = x.version]

MoveAlias(r) ==
  /\ run[r].pc = "aliasing"
  /\ alias' = run[r].version
  /\ run' = [run EXCEPT ![r] = Aliased(run[r])]
  /\ UNCHANGED <<newest, versions>>

\* The tags, data_end_ts the last of them: a run that ends before it has set none
\* of them or some of the others.
Tag(r) ==
  /\ run[r].pc = "tagging"
  /\ versions' = [versions EXCEPT ![run[r].version].data_end_ts = FittedUntil(r) - 1]
  /\ run' = [run EXCEPT ![r] = Done]
  /\ UNCHANGED <<newest, alias>>

\* The process is gone: it has ended, a call to the registry failed, or its pod
\* was killed.
Leave(r) ==
  /\ run[r].pc # "off"
  /\ run' = [run EXCEPT ![r] = Idle]
  /\ UNCHANGED <<newest, registry>>

RunNext(r) ==
  \/ Resolve(r) \/ Decide(r) \/ Register(r) \/ MoveAlias(r) \/ Tag(r)

Next == NewData \/ \E r \in Runs : Train(r) \/ RunNext(r) \/ Leave(r)

Spec == Init /\ [][Next]_vars

-----------------------------------------------------------------------------
(***************************************************************************)
(* Properties.                                                             *)
(***************************************************************************)
TypeOK ==
  /\ newest \in Nat
  /\ versions \in Seq(Version)
  /\ alias \in 0..Len(versions)
  /\ run \in [Runs ->
       [pc : {"off", "resolving", "loading", "registering", "aliasing", "tagging", "done"},
        end : Nat, cost : Costs \cup {0}, champ : 0..Len(versions), tag : Int,
        model : 0..Len(versions), from : Int,
        why : {"none", "first", "channels", "tracking", "cost"}, version : 0..Len(versions)]]

\* "On data neither model was trained on": a comparison that found the
\* champion's data_end_ts, and the champion's own model, begins after the last
\* point either of the two was fitted on, whichever run wrote the tag and
\* however it ended.
Fair ==
  \A r \in Runs :
    run[r].from # NoTag /\ run[r].tag # NoTag /\ run[r].model = run[r].champ =>
      /\ run[r].from >= Split(r)
      /\ run[r].from >= versions[run[r].champ].fitted_until

\* A run that compared its winner with a champion, that champion's own model
\* under its own contract, moves the alias only to a model that is better than
\* this champion, even when another run has moved the alias in between; and a
\* run that replaces it for its channels replaces one with other channels.  What
\* remains is a promotion without a comparison: for the level tracking, and
\* where load_champion() found no champion or put together a bundle of two.
BeatsCompared ==
  [][alias' # alias =>
       \E r \in Runs :
         /\ run[r].version = alias'
         /\ \/ run[r].why \in {"first", "tracking"}
            \/ run[r].model = 0
            \/ /\ run[r].why = "channels"
               /\ versions[run[r].champ].contract # versions[alias'].contract
            \/ versions[alias'].cost < versions[run[r].champ].cost]_vars

=============================================================================
