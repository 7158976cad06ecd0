--------------------------- MODULE RetrainingProofs ---------------------------
(***************************************************************************)
(* Proofs about Promotion, for any number of training runs, and about      *)
(* Retraining, whose steps are steps of Promotion.                         *)
(***************************************************************************)
EXTENDS Retraining, TLAPS

\* The state of a run when there are n versions.
RunType(n) ==
  [pc : {"off", "resolving", "loading", "registering", "aliasing", "tagging", "done"},
   end : Nat, cost : Costs \cup {0}, champ : 0..n, tag : Int, model : 0..n, from : Int,
   why : {"none", "first", "channels", "tracking", "cost"}, version : 0..n]

-----------------------------------------------------------------------------
(***************************************************************************)
(* The inductive invariant: what a run with contract c holds, against the  *)
(* versions as they are by now.                                            *)
(***************************************************************************)

\* A run that goes on has a winner; what it knows of the champion is of its stage.
Stage(x) ==
  /\ x.pc \notin {"off", "done"} => x.cost \in Costs
  /\ x.pc = "resolving" => x.champ = 0 /\ x.tag = NoTag
  /\ x.pc = "loading" => x.champ # 0
  /\ x.pc \in {"resolving", "loading"} => x.model = 0 /\ x.from = NoTag /\ x.why = "none"
  /\ x.pc \in {"registering", "aliasing"} => x.why # "none"

\* The tag a run has read is the end of what the champion was fitted on, and its
\* comparison began after it.
Remembered(x, vs) ==
  /\ x.tag # NoTag => x.champ # 0 /\ vs[x.champ].fitted_until = x.tag + 1
  /\ x.from # NoTag /\ x.tag # NoTag =>
       x.from >= x.end - Holdout + 1 /\ x.from >= x.tag + 1

\* A winner over the champion's own bundle is better than it, or takes other
\* channels.
Won(x, vs, c) ==
  x.model # 0 =>
    /\ x.champ # 0
    /\ x.why = "cost" => x.cost < vs[x.champ].cost
    /\ x.why = "channels" => vs[x.champ].contract # c

\* The version a run has registered is its winner.
Registered(x, vs, c) ==
  x.pc \in {"aliasing", "tagging"} =>
    /\ x.version # 0
    /\ vs[x.version].cost = x.cost
    /\ vs[x.version].contract = c
    /\ vs[x.version].fitted_until = IF Refit THEN x.end + 1 ELSE x.end - Holdout + 1

GoodRun(x, vs, c) ==
  /\ x \in RunType(Len(vs))
  /\ Stage(x)
  /\ Remembered(x, vs)
  /\ Won(x, vs, c)
  /\ Registered(x, vs, c)

Tagged ==
  \A v \in 1..Len(versions) :
    versions[v].data_end_ts # NoTag => versions[v].fitted_until = versions[v].data_end_ts + 1

RegistryType ==
  /\ newest \in Nat
  /\ versions \in Seq(Version)
  /\ alias \in 0..Len(versions)
  /\ run \in [Runs -> RunType(Len(versions))]

PromotionInv ==
  /\ RegistryType
  /\ Tagged
  /\ \A r \in Runs : GoodRun(run[r], versions, Contract[r])

-----------------------------------------------------------------------------
(***************************************************************************)
(* Lemmas.                                                                 *)
(***************************************************************************)

\* A relative improvement is an improvement.
LEMMA CheaperBy ==
  ASSUME NEW c \in Nat, NEW old \in Nat, NEW m \in 0..100, 100 * c < old * (100 - m)
  PROVE  c < old
<1>1. old * (100 - m) = 100 * old - old * m  OBVIOUS
<1>2. old * m \in Nat  OBVIOUS
<1>3. 100 * c < 100 * old  BY <1>1, <1>2
<1> QED BY <1>3

LEMMA IdleIsGood ==
  ASSUME NEW vs \in Seq(Version), NEW c
  PROVE  GoodRun(Idle, vs, c) /\ GoodRun(Done, vs, c)
<1>1. Len(vs) \in Nat  OBVIOUS
<1>2. Idle \in RunType(Len(vs)) /\ Done \in RunType(Len(vs))
  BY <1>1 DEF Idle, Done, RunType, NoTag
<1> QED BY <1>2 DEF GoodRun, Stage, Remembered, Won, Registered, Idle, Done, NoTag

\* What a run holds stays good when versions are added or tagged.
LEMMA GoodStays ==
  ASSUME NEW vs \in Seq(Version), NEW ws \in Seq(Version), Len(vs) <= Len(ws),
         \A v \in 1..Len(vs) : /\ ws[v].fitted_until = vs[v].fitted_until
                               /\ ws[v].cost = vs[v].cost
                               /\ ws[v].contract = vs[v].contract,
         NEW c, NEW x, GoodRun(x, vs, c)
  PROVE  GoodRun(x, ws, c)
<1>0. Len(vs) \in Nat /\ Len(ws) \in Nat  OBVIOUS
<1>1. x \in RunType(Len(vs))  BY DEF GoodRun
<1>2. x.champ \in 0..Len(vs) /\ x.version \in 0..Len(vs)  BY <1>1 DEF RunType
<1>3. x \in RunType(Len(ws))  BY <1>0, <1>1 DEF RunType
<1>4. Stage(x)  BY DEF GoodRun
<1>5. Remembered(x, ws)
  <2>1. Remembered(x, vs)  BY DEF GoodRun
  <2> QED BY <2>1, <1>2, <1>0 DEF Remembered
<1>6. Won(x, ws, c)
  <2>1. Won(x, vs, c)  BY DEF GoodRun
  <2> QED BY <2>1, <1>2, <1>0 DEF Won
<1>7. Registered(x, ws, c)
  <2>1. Registered(x, vs, c)  BY DEF GoodRun
  <2> QED BY <2>1, <1>2, <1>0 DEF Registered
<1> QED BY <1>3, <1>4, <1>5, <1>6, <1>7 DEF GoodRun

\* A step of one run that leaves the registry as it is.
LEMMA LocalStep ==
  ASSUME PromotionInv, UNCHANGED <<newest, versions, alias>>,
         NEW r \in Runs, NEW x, run' = [run EXCEPT ![r] = x],
         GoodRun(x, versions, Contract[r])
  PROVE  PromotionInv'
<1>1. RegistryType'
  <2>1. x \in RunType(Len(versions))  BY DEF GoodRun
  <2> QED BY <2>1 DEF PromotionInv, RegistryType
<1>2. \A s \in Runs : run'[s] = IF s = r THEN x ELSE run[s]
  BY DEF PromotionInv, RegistryType
<1>3. Tagged'  BY DEF PromotionInv, Tagged
<1>4. \A s \in Runs : GoodRun(run'[s], versions', Contract[s])
  BY <1>2 DEF PromotionInv
<1> QED BY <1>1, <1>3, <1>4 DEF PromotionInv

-----------------------------------------------------------------------------
(***************************************************************************)
(* Every step keeps the invariant.                                         *)
(***************************************************************************)
LEMMA InitStep == ASSUME Init PROVE PromotionInv
<1> USE ConstantsAssumption
<1>1. versions \in Seq(Version) /\ alias \in 0..Len(versions)
  <2>1. CASE versions = <<>> /\ alias = 0  BY <2>1
  <2>2. CASE alias = 1 /\ \E cost \in Costs, contract \in Channels :
               versions = <<[fitted_until |-> Points + 1, cost |-> cost, contract |-> contract,
                             data_end_ts |-> NoTag]>>
    <3>1. PICK cost \in Costs, contract \in Channels :
            versions = <<[fitted_until |-> Points + 1, cost |-> cost, contract |-> contract,
                          data_end_ts |-> NoTag]>>
      BY <2>2
    <3>2. [fitted_until |-> Points + 1, cost |-> cost, contract |-> contract,
           data_end_ts |-> NoTag] \in Version
      BY DEF Version, NoTag
    <3> QED BY <3>1, <3>2, <2>2
  <2> QED BY <2>1, <2>2 DEF Init
<1>2. Tagged
  <2>1. \A v \in 1..Len(versions) : versions[v].data_end_ts = NoTag
    BY DEF Init
  <2> QED BY <2>1 DEF Tagged
<1>3. \A r \in Runs : run[r] = Idle  BY DEF Init
<1>4. \A r \in Runs : GoodRun(run[r], versions, Contract[r])
  BY <1>1, <1>3, IdleIsGood
<1>5. RegistryType
  <2>1. run \in [Runs -> RunType(Len(versions))]
    <3>1. Idle \in RunType(Len(versions))  BY <1>1, IdleIsGood DEF GoodRun
    <3> QED BY <3>1 DEF Init
  <2> QED BY <2>1, <1>1 DEF RegistryType, Init
<1> QED BY <1>2, <1>4, <1>5 DEF PromotionInv

LEMMA SplitIsInt ==
  ASSUME PromotionInv, NEW r \in Runs
  PROVE  /\ run[r].end \in Nat /\ run[r].tag \in Int /\ run[r].cost \in Costs \cup {0}
         /\ Split(r) \in Int /\ CompareFrom(r) \in Int /\ FittedUntil(r) \in Int
         /\ run[r] \in RunType(Len(versions))
<1>1. run[r] \in RunType(Len(versions))  BY DEF PromotionInv, RegistryType
<1>2. run[r].end \in Nat /\ run[r].tag \in Int /\ run[r].cost \in Costs \cup {0}
  BY <1>1 DEF RunType
<1>3. Holdout \in Int  BY ConstantsAssumption
<1> QED BY <1>1, <1>2, <1>3 DEF Split, CompareFrom, Later, FittedUntil

LEMMA TrainStep == ASSUME PromotionInv, NEW r \in Runs, Train(r) PROVE PromotionInv'
<1>0. newest \in Nat /\ versions \in Seq(Version) /\ alias \in 0..Len(versions)
  BY DEF PromotionInv, RegistryType
<1>1. PICK cost \in Costs, eligible \in BOOLEAN :
        run' = [run EXCEPT ![r] =
                  IF eligible /\ cost < BaselineCost
                    THEN [Idle EXCEPT !.pc = "resolving", !.end = newest, !.cost = cost]
                    ELSE Done]
  BY DEF Train
<1>2. UNCHANGED <<newest, versions, alias>>  BY DEF Train, registry
<1>3. CASE eligible /\ cost < BaselineCost
  <2> DEFINE x == [Idle EXCEPT !.pc = "resolving", !.end = newest, !.cost = cost]
  <2>1. /\ x \in RunType(Len(versions))
        /\ x.pc = "resolving" /\ x.cost \in Costs /\ x.champ = 0 /\ x.tag = NoTag
        /\ x.from = NoTag /\ x.why = "none" /\ x.model = 0
    <3>1. Idle \in RunType(Len(versions))  BY <1>0, IdleIsGood DEF GoodRun
    <3>2. /\ Idle.champ = 0 /\ Idle.tag = NoTag /\ Idle.from = NoTag /\ Idle.why = "none"
          /\ Idle.model = 0
      BY DEF Idle
    <3> QED BY <1>0, <3>1, <3>2 DEF RunType
  <2>2. run' = [run EXCEPT ![r] = x]  BY <1>1, <1>3
  <2> HIDE DEF x
  <2>4. GoodRun(x, versions, Contract[r])
    BY <2>1 DEF GoodRun, Stage, Remembered, Won, Registered, NoTag
  <2>5. x.pc # "aliasing" /\ x.champ = 0  BY <2>1
  <2> QED BY <1>2, <2>2, <2>4, <2>5, LocalStep
<1>4. CASE ~(eligible /\ cost < BaselineCost)
  <2>1. run' = [run EXCEPT ![r] = Done]  BY <1>1, <1>4
  <2>2. GoodRun(Done, versions, Contract[r])  BY <1>0, IdleIsGood
  <2>3. Done.pc # "aliasing" /\ Done.champ = 0  BY DEF Done, Idle
  <2> QED BY <1>2, <2>1, <2>2, <2>3, LocalStep
<1> QED BY <1>3, <1>4

LEMMA LeaveStep == ASSUME PromotionInv, NEW r \in Runs, Leave(r) PROVE PromotionInv'
<1>1. run' = [run EXCEPT ![r] = Idle] /\ UNCHANGED <<newest, versions, alias>>
  BY DEF Leave, registry
<1>2. GoodRun(Idle, versions, Contract[r])  BY IdleIsGood DEF PromotionInv, RegistryType
<1>3. Idle.pc # "aliasing" /\ Idle.champ = 0  BY DEF Idle
<1> QED BY <1>1, <1>2, <1>3, LocalStep

LEMMA ResolveStep == ASSUME PromotionInv, NEW r \in Runs, Resolve(r) PROVE PromotionInv'
<1>0. UNCHANGED <<newest, versions, alias>> /\ run[r].pc = "resolving"
  BY DEF Resolve, registry
<1>1. run[r] \in RunType(Len(versions))  BY SplitIsInt
<1>2. GoodRun(run[r], versions, Contract[r]) /\ RegistryType /\ Tagged  BY DEF PromotionInv
<1>3. /\ run[r].champ = 0 /\ run[r].tag = NoTag /\ run[r].from = NoTag /\ run[r].why = "none"
      /\ run[r].cost \in Costs /\ run[r].model = 0
  BY <1>0, <1>2 DEF GoodRun, Stage
<1>4. CASE NoChampion(r)
  <2> DEFINE x == [run[r] EXCEPT !.pc = IF r \in DryRun THEN "done" ELSE "registering",
                                 !.why = "first"]
  <2>1. run' = [run EXCEPT ![r] = x]  BY <1>4 DEF NoChampion
  <2>2. /\ x \in RunType(Len(versions))
        /\ x.pc \in {"done", "registering"} /\ x.why = "first" /\ x.model = 0
        /\ x.champ = 0 /\ x.tag = NoTag /\ x.from = NoTag /\ x.cost \in Costs
    BY <1>1, <1>3 DEF RunType
  <2> HIDE DEF x
  <2>3. GoodRun(x, versions, Contract[r])
    BY <2>2 DEF GoodRun, Stage, Remembered, Won, Registered
  <2> QED BY <1>0, <2>1, <2>2, <2>3, LocalStep
<1>5. CASE Found(r)
  <2>0. alias # 0  BY <1>5 DEF Found
  <2> DEFINE x == [run[r] EXCEPT !.pc = "loading", !.champ = alias,
                                 !.tag = versions[alias].data_end_ts]
  <2>1. run' = [run EXCEPT ![r] = x]  BY <1>5 DEF Found
  <2>2. alias \in 1..Len(versions) /\ versions[alias] \in Version
    BY <1>2, <2>0 DEF RegistryType
  <2>3. versions[alias].data_end_ts \in Int  BY <2>2 DEF Version
  <2>4. /\ x \in RunType(Len(versions))
        /\ x.pc = "loading" /\ x.why = "none" /\ x.from = NoTag /\ x.cost \in Costs
        /\ x.champ = alias /\ x.tag = versions[alias].data_end_ts /\ x.model = 0
    BY <1>1, <1>2, <1>3, <2>2, <2>3 DEF RunType, RegistryType
  <2> HIDE DEF x
  <2>5. x.tag # NoTag => versions[x.champ].fitted_until = x.tag + 1
    BY <1>2, <2>2, <2>4 DEF Tagged
  <2>6. GoodRun(x, versions, Contract[r])
    BY <2>0, <2>4, <2>5 DEF GoodRun, Stage, Remembered, Won, Registered
  <2> QED BY <1>0, <2>1, <2>4, <2>6, LocalStep
<1> QED BY <1>4, <1>5 DEF Resolve

\* The data a comparison uses is new to the champion and to the winner.
LEMMA ComparesLater ==
  ASSUME PromotionInv, NEW r \in Runs, run[r].tag # NoTag
  PROVE  CompareFrom(r) >= run[r].end - Holdout + 1 /\ CompareFrom(r) >= run[r].tag + 1
<1>1. run[r].end \in Nat /\ run[r].tag \in Int /\ Split(r) \in Int  BY SplitIsInt
<1>2. Holdout \in Int  BY ConstantsAssumption
<1> QED BY <1>1, <1>2 DEF CompareFrom, Later, Split

LEMMA DecideStep == ASSUME PromotionInv, NEW r \in Runs, Decide(r) PROVE PromotionInv'
<1>0. UNCHANGED <<newest, versions, alias>> /\ run[r].pc = "loading"
  BY DEF Decide, registry
<1>1. run[r] \in RunType(Len(versions)) /\ alias \in 0..Len(versions) /\ versions \in Seq(Version)
  BY SplitIsInt DEF PromotionInv, RegistryType
<1>2. GoodRun(run[r], versions, Contract[r])  BY DEF PromotionInv
<1>3. /\ run[r].cost \in Costs /\ run[r].champ # 0 /\ run[r].from = NoTag
      /\ run[r].model = 0 /\ run[r].why = "none"
  BY <1>0, <1>2 DEF GoodRun, Stage
<1>v. run[r].champ \in 1..Len(versions) /\ versions[run[r].champ] \in Version
  <2>1. run[r].champ \in 0..Len(versions)  BY <1>1 DEF RunType
  <2>2. run[r].champ \in 1..Len(versions)  BY <2>1, <1>3
  <2> QED BY <2>2, <1>1
<1>4. run[r].tag # NoTag => versions[run[r].champ].fitted_until = run[r].tag + 1
  BY <1>2 DEF GoodRun, Remembered
<1>5. ASSUME NEW why \in {"channels", "tracking"}, NEW model \in {0, run[r].champ},
             model # 0 /\ why = "channels" => versions[run[r].champ].contract # Contract[r],
             run' = [run EXCEPT ![r] = Promoted(r, model, why)]
      PROVE  PromotionInv'
  <2> DEFINE x == Promoted(r, model, why)
  <2>1. /\ x \in RunType(Len(versions))
        /\ x.pc \in {"done", "registering"} /\ x.why = why /\ x.cost \in Costs
        /\ x.champ = run[r].champ /\ x.tag = run[r].tag /\ x.from = NoTag /\ x.model = model
    <3>1. model \in 0..Len(versions)  BY <1>1, <1>v
    <3> QED BY <1>1, <1>3, <3>1 DEF RunType, Promoted
  <2>2. run' = [run EXCEPT ![r] = x]  BY <1>5
  <2> HIDE DEF x
  <2>3. GoodRun(x, versions, Contract[r])
    BY <1>3, <1>4, <1>5, <2>1 DEF GoodRun, Stage, Remembered, Won, Registered
  <2>4. x.pc # "aliasing" /\ x.champ \in {0, alias, run[r].champ}  BY <2>1
  <2> QED BY <1>0, <2>2, <2>3, <2>4, LocalStep
<1>6. ASSUME run' = [run EXCEPT ![r] = Done] PROVE PromotionInv'
  <2>1. GoodRun(Done, versions, Contract[r])  BY <1>1, IdleIsGood
  <2>2. Done.pc # "aliasing" /\ Done.champ = 0  BY DEF Done, Idle
  <2> QED BY <1>0, <1>6, <2>1, <2>2, LocalStep
<1>7. ASSUME NEW model \in {0, run[r].champ}, NEW old \in Shown(r, model),
             run' = [run EXCEPT ![r] =
                       [(IF Improves(r, old) THEN Promoted(r, model, "cost") ELSE Keep(r, model))
                          EXCEPT !.from = CompareFrom(r)]]
      PROVE  PromotionInv'
  <2>0. CompareFrom(r) \in Int /\ model \in 0..Len(versions)  BY SplitIsInt, <1>1, <1>v
  <2> DEFINE x == [(IF Improves(r, old) THEN Promoted(r, model, "cost") ELSE Keep(r, model))
                     EXCEPT !.from = CompareFrom(r)]
  <2>1. /\ x \in RunType(Len(versions))
        /\ x.pc \in {"done", "registering"} /\ x.cost = run[r].cost /\ x.end = run[r].end
        /\ x.champ = run[r].champ /\ x.tag = run[r].tag /\ x.from = CompareFrom(r)
        /\ x.model = model /\ x.why = IF Improves(r, old) THEN "cost" ELSE "none"
        /\ x.pc = "registering" => x.why # "none"
    <3>1. CASE Improves(r, old)
      <4> DEFINE y == Promoted(r, model, "cost")
      <4>1. /\ y \in RunType(Len(versions)) /\ y.pc \in {"done", "registering"}
            /\ y.cost = run[r].cost /\ y.end = run[r].end /\ y.champ = run[r].champ
            /\ y.tag = run[r].tag /\ y.model = model /\ y.why = "cost"
        BY <1>1, <2>0 DEF RunType, Promoted
      <4>2. x = [y EXCEPT !.from = CompareFrom(r)]  BY <3>1
      <4> HIDE DEF x, y
      <4> QED BY <2>0, <3>1, <4>1, <4>2 DEF RunType
    <3>2. CASE ~Improves(r, old)
      <4> DEFINE y == Keep(r, model)
      <4>1. /\ y \in RunType(Len(versions)) /\ y.pc = "done"
            /\ y.cost = run[r].cost /\ y.end = run[r].end /\ y.champ = run[r].champ
            /\ y.tag = run[r].tag /\ y.model = model /\ y.why = "none"
        BY <1>1, <1>3, <2>0 DEF RunType, Keep
      <4>2. x = [y EXCEPT !.from = CompareFrom(r)]  BY <3>2
      <4> HIDE DEF x, y
      <4> QED BY <2>0, <3>2, <4>1, <4>2 DEF RunType
    <3> QED BY <3>1, <3>2
  <2>2. run' = [run EXCEPT ![r] = x]  BY <1>7
  <2> HIDE DEF x
  <2>3. Won(x, versions, Contract[r])
    <3> SUFFICES ASSUME x.model # 0, Improves(r, old)
                 PROVE  x.cost < versions[run[r].champ].cost
      BY <1>3, <2>1 DEF Won
    <3>1. versions[run[r].champ].cost \in Costs  BY <1>v DEF Version
    <3>2. model = run[r].champ /\ model # 0  BY <2>1
    <3>3. old \in Costs /\ old <= versions[run[r].champ].cost
      BY <3>1, <3>2, ConstantsAssumption DEF Shown
    <3>4. old \in Nat /\ versions[run[r].champ].cost \in Nat /\ run[r].cost \in Nat
          /\ MinImprovement[r] \in 0..100
      BY <1>3, <3>1, <3>3, ConstantsAssumption
    <3>5. run[r].cost < old  BY <3>4, CheaperBy DEF Improves
    <3> QED BY <2>1, <3>3, <3>4, <3>5
  <2>4. Remembered(x, versions)
    BY <1>3, <1>4, <2>1, ComparesLater DEF Remembered
  <2>5. Stage(x) /\ Registered(x, versions, Contract[r])
    BY <1>3, <2>1 DEF Stage, Registered
  <2>6. GoodRun(x, versions, Contract[r])  BY <2>1, <2>3, <2>4, <2>5 DEF GoodRun
  <2>7. x.pc # "aliasing" /\ x.champ \in {0, alias, run[r].champ}  BY <2>1
  <2> QED BY <1>0, <2>2, <2>6, <2>7, LocalStep
<1>8. PICK lost \in BOOLEAN :
        LET champ == run[r].champ
            contract == IF lost THEN Legacy ELSE versions[champ].contract
            model == IF lost \/ alias # champ THEN 0 ELSE champ
        IN  IF contract # Contract[r]
              THEN run' = [run EXCEPT ![r] = Promoted(r, model, "channels")]
              ELSE \/ run' = [run EXCEPT ![r] = Promoted(r, model, "tracking")]
                   \/ run' = [run EXCEPT ![r] = Done]
                   \/ \E old \in Shown(r, model) :
                        run' = [run EXCEPT ![r] =
                                  [(IF Improves(r, old) THEN Promoted(r, model, "cost")
                                                        ELSE Keep(r, model))
                                     EXCEPT !.from = CompareFrom(r)]]
  BY Zenon DEF Decide
<1> DEFINE contract == IF lost THEN Legacy ELSE versions[run[r].champ].contract
           model == IF lost \/ alias # run[r].champ THEN 0 ELSE run[r].champ
<1>9. /\ model \in {0, run[r].champ}
      /\ model # 0 => contract = versions[run[r].champ].contract
  OBVIOUS
<1>10. CASE contract # Contract[r]
  <2>1. run' = [run EXCEPT ![r] = Promoted(r, model, "channels")]  BY <1>8, <1>10, Zenon
  <2> HIDE DEF model, contract
  <2> QED BY <1>5, <1>9, <1>10, <2>1
<1>11. CASE contract = Contract[r]
  <2>1. \/ run' = [run EXCEPT ![r] = Promoted(r, model, "tracking")]
        \/ run' = [run EXCEPT ![r] = Done]
        \/ \E old \in Shown(r, model) :
             run' = [run EXCEPT ![r] =
                       [(IF Improves(r, old) THEN Promoted(r, model, "cost") ELSE Keep(r, model))
                          EXCEPT !.from = CompareFrom(r)]]
    BY <1>8, <1>11, Zenon
  <2> HIDE DEF model, contract
  <2>2. CASE run' = [run EXCEPT ![r] = Promoted(r, model, "tracking")]
    BY <1>5, <1>9, <2>2
  <2>3. CASE \E old \in Shown(r, model) :
               run' = [run EXCEPT ![r] =
                         [(IF Improves(r, old) THEN Promoted(r, model, "cost")
                                               ELSE Keep(r, model))
                            EXCEPT !.from = CompareFrom(r)]]
    BY <1>7, <1>9, <2>3
  <2> QED BY <1>6, <2>1, <2>2, <2>3
<1> QED BY <1>10, <1>11

LEMMA RegisterStep == ASSUME PromotionInv, NEW r \in Runs, Register(r) PROVE PromotionInv'
<1>0. UNCHANGED <<newest, alias>> /\ run[r].pc = "registering"  BY DEF Register
<1>1. /\ run[r] \in RunType(Len(versions)) /\ alias \in 0..Len(versions)
      /\ versions \in Seq(Version) /\ Len(versions) \in Nat
  BY SplitIsInt DEF PromotionInv, RegistryType
<1>2. GoodRun(run[r], versions, Contract[r])  BY DEF PromotionInv
<1> DEFINE new == [fitted_until |-> FittedUntil(r), cost |-> run[r].cost, contract |-> Contract[r],
                   data_end_ts |-> NoTag]
           x == [run[r] EXCEPT !.pc = "aliasing", !.version = Len(versions) + 1]
<1>3. new \in Version /\ new.data_end_ts = NoTag /\ new.cost = run[r].cost
      /\ new.fitted_until = FittedUntil(r) /\ new.contract = Contract[r]
  <2>1. run[r].cost \in Costs  BY <1>0, <1>2 DEF GoodRun, Stage
  <2>2. FittedUntil(r) \in Int /\ Contract[r] \in Channels /\ NoTag \in Int
    BY SplitIsInt, ConstantsAssumption DEF NoTag
  <2> QED BY <2>1, <2>2 DEF Version
<1>4. versions' = Append(versions, new)  BY DEF Register
<1>5. run' = [run EXCEPT ![r] = x]  BY DEF Register
<1>6. /\ x \in RunType(Len(versions) + 1)
      /\ x.pc = "aliasing" /\ x.version = Len(versions) + 1
      /\ x.end = run[r].end /\ x.cost = run[r].cost /\ x.champ = run[r].champ
      /\ x.tag = run[r].tag /\ x.from = run[r].from /\ x.why = run[r].why
      /\ x.model = run[r].model
  <2>1. run[r] \in RunType(Len(versions) + 1)  BY <1>1 DEF RunType
  <2>2. Len(versions) + 1 \in 0..(Len(versions) + 1)  BY <1>1
  <2> QED BY <2>1, <2>2 DEF RunType
<1> HIDE DEF new, x
<1>7. /\ versions' \in Seq(Version) /\ Len(versions') = Len(versions) + 1
      /\ \A v \in 1..Len(versions) : versions'[v] = versions[v]
      /\ versions'[Len(versions) + 1] = new
  BY <1>1, <1>3, <1>4
<1>8. \A s \in Runs : run'[s] = IF s = r THEN x ELSE run[s]
  BY <1>5 DEF PromotionInv, RegistryType
<1>9. \A s \in Runs : GoodRun(run[s], versions', Contract[s])
  BY <1>0, <1>1, <1>7, GoodStays DEF PromotionInv
<1>10. GoodRun(x, versions', Contract[r])
  <2>1. GoodRun(run[r], versions', Contract[r])  BY <1>9
  <2>2. x \in RunType(Len(versions'))  BY <1>6, <1>7
  <2>3. Stage(x)  BY <1>0, <1>6, <2>1 DEF GoodRun, Stage
  <2>4. Remembered(x, versions')  BY <1>6, <2>1 DEF GoodRun, Remembered
  <2>5. Won(x, versions', Contract[r])  BY <1>6, <2>1 DEF GoodRun, Won
  <2>6. Registered(x, versions', Contract[r])
    BY <1>1, <1>3, <1>6, <1>7 DEF Registered, FittedUntil, Split
  <2> QED BY <2>2, <2>3, <2>4, <2>5, <2>6 DEF GoodRun
<1>11. \A s \in Runs : GoodRun(run'[s], versions', Contract[s])  BY <1>8, <1>9, <1>10
<1>12. RegistryType'
  <2>1. run' \in [Runs -> RunType(Len(versions'))]
    <3>1. \A s \in Runs : run'[s] \in RunType(Len(versions'))  BY <1>11 DEF GoodRun
    <3> QED BY <3>1, <1>5 DEF PromotionInv, RegistryType
  <2> QED BY <2>1, <1>0, <1>1, <1>7 DEF PromotionInv, RegistryType
<1>13. Tagged'
  <2> SUFFICES ASSUME NEW v \in 1..(Len(versions) + 1), versions'[v].data_end_ts # NoTag
               PROVE  versions'[v].fitted_until = versions'[v].data_end_ts + 1
    BY <1>7 DEF Tagged
  <2>1. v \in 1..Len(versions)  BY <1>1, <1>3, <1>7
  <2> QED BY <2>1, <1>7 DEF PromotionInv, Tagged
<1> QED BY <1>11, <1>12, <1>13 DEF PromotionInv

\* A run that has moved the alias keeps its version.
LEMMA AliasMoved ==
  ASSUME PromotionInv, NEW r \in Runs, run[r].pc = "aliasing"
  PROVE  /\ GoodRun(Aliased(run[r]), versions, Contract[r])
         /\ Aliased(run[r]).pc = "tagging" /\ Aliased(run[r]).champ = 0
<1> DEFINE x == Aliased(run[r])
<1>1. run[r] \in RunType(Len(versions)) /\ GoodRun(run[r], versions, Contract[r])
  BY SplitIsInt DEF PromotionInv
<1>2. Idle \in RunType(Len(versions))  BY IdleIsGood DEF PromotionInv, RegistryType, GoodRun
<1>3. Idle.champ = 0 /\ Idle.tag = NoTag /\ Idle.from = NoTag /\ Idle.model = 0
  BY DEF Idle
<1>4. /\ x \in RunType(Len(versions)) /\ x.pc = "tagging"
      /\ x.end = run[r].end /\ x.cost = run[r].cost /\ x.version = run[r].version
      /\ x.champ = 0 /\ x.tag = NoTag /\ x.from = NoTag /\ x.model = 0
  BY <1>1, <1>2, <1>3 DEF Aliased, RunType
<1> HIDE DEF x
<1>5. GoodRun(x, versions, Contract[r])
  BY <1>1, <1>4 DEF GoodRun, Stage, Remembered, Won, Registered
<1> QED BY <1>4, <1>5 DEF x

LEMMA MoveAliasStep == ASSUME PromotionInv, NEW r \in Runs, MoveAlias(r) PROVE PromotionInv'
<1>0. /\ UNCHANGED <<newest, versions>> /\ run[r].pc = "aliasing" /\ alias' = run[r].version
  BY DEF MoveAlias
<1>1. run[r].version \in 0..Len(versions)  BY SplitIsInt DEF RunType
<1> DEFINE x == Aliased(run[r])
<1>2. run' = [run EXCEPT ![r] = x]  BY DEF MoveAlias
<1>3. GoodRun(x, versions, Contract[r]) /\ x.pc = "tagging" /\ x.champ = 0
  BY <1>0, AliasMoved
<1> HIDE DEF x
<1>4. \A s \in Runs : run'[s] = IF s = r THEN x ELSE run[s]
  BY <1>2 DEF PromotionInv, RegistryType
<1>5. \A s \in Runs : GoodRun(run'[s], versions', Contract[s])
  BY <1>0, <1>3, <1>4 DEF PromotionInv
<1>6. RegistryType'
  <2>1. x \in RunType(Len(versions))  BY <1>3 DEF GoodRun
  <2> QED BY <1>0, <1>1, <1>2, <2>1 DEF PromotionInv, RegistryType
<1>7. Tagged'  BY <1>0 DEF PromotionInv, Tagged
<1> QED BY <1>5, <1>6, <1>7 DEF PromotionInv

LEMMA TagStep == ASSUME PromotionInv, NEW r \in Runs, Tag(r) PROVE PromotionInv'
<1>0. UNCHANGED <<newest, alias>> /\ run[r].pc = "tagging"  BY DEF Tag
<1>1. /\ alias \in 0..Len(versions) /\ versions \in Seq(Version) /\ Len(versions) \in Nat
      /\ run[r] \in RunType(Len(versions)) /\ FittedUntil(r) \in Int
  BY SplitIsInt DEF PromotionInv, RegistryType
<1>2. GoodRun(run[r], versions, Contract[r])  BY DEF PromotionInv
<1> DEFINE w == run[r].version
<1>3. w \in 1..Len(versions) /\ versions[w].fitted_until = FittedUntil(r)
  <2>1. w \in 0..Len(versions)  BY <1>1 DEF RunType
  <2>2. w # 0 /\ versions[w].fitted_until = FittedUntil(r)
    BY <1>0, <1>2 DEF GoodRun, Registered, FittedUntil, Split
  <2> QED BY <2>1, <2>2, <1>1
<1>4. versions' = [versions EXCEPT ![w].data_end_ts = FittedUntil(r) - 1]  BY DEF Tag
<1> HIDE DEF w
<1>5. \A v \in 1..Len(versions) : versions[v] \in Version  BY <1>1
<1>6. /\ versions' \in Seq(Version) /\ Len(versions') = Len(versions)
      /\ \A v \in 1..Len(versions) :
           /\ versions'[v].fitted_until = versions[v].fitted_until
           /\ versions'[v].cost = versions[v].cost
           /\ versions'[v].contract = versions[v].contract
           /\ v # w => versions'[v] = versions[v]
      /\ versions'[w].data_end_ts = FittedUntil(r) - 1
  <2> DEFINE new == [versions[w] EXCEPT !.data_end_ts = FittedUntil(r) - 1]
  <2>1. FittedUntil(r) - 1 \in Int  BY <1>1
  <2>2. /\ new \in Version /\ new.fitted_until = versions[w].fitted_until
        /\ new.cost = versions[w].cost /\ new.data_end_ts = FittedUntil(r) - 1
        /\ new.contract = versions[w].contract
    BY <1>3, <1>5, <2>1 DEF Version
  <2>3. versions' = [versions EXCEPT ![w] = new]  BY <1>4
  <2> HIDE DEF new
  <2> QED BY <1>1, <1>3, <2>2, <2>3
<1>7. run' = [run EXCEPT ![r] = Done]  BY DEF Tag
<1>8. \A s \in Runs : run'[s] = IF s = r THEN Done ELSE run[s]
  BY <1>7 DEF PromotionInv, RegistryType
<1>9. ASSUME NEW s \in Runs PROVE GoodRun(run[s], versions', Contract[s])
  <2>1. GoodRun(run[s], versions, Contract[s])  BY DEF PromotionInv
  <2>2. Len(versions) <= Len(versions')  BY <1>1, <1>6
  <2> QED BY <2>1, <2>2, <1>1, <1>6, GoodStays
<1>10. GoodRun(Done, versions', Contract[r])  BY <1>0, <1>1, <1>6, IdleIsGood
<1>11. \A s \in Runs : GoodRun(run'[s], versions', Contract[s])  BY <1>8, <1>9, <1>10
<1>12. RegistryType'
  <2>1. run' \in [Runs -> RunType(Len(versions'))]
    <3>1. \A s \in Runs : run'[s] \in RunType(Len(versions'))  BY <1>11 DEF GoodRun
    <3> QED BY <3>1, <1>7 DEF PromotionInv, RegistryType
  <2> QED BY <2>1, <1>0, <1>1, <1>6 DEF PromotionInv, RegistryType
<1>13. Tagged'
  <2> SUFFICES ASSUME NEW v \in 1..Len(versions), versions'[v].data_end_ts # NoTag
               PROVE  versions'[v].fitted_until = versions'[v].data_end_ts + 1
    BY <1>6 DEF Tagged
  <2>1. CASE v = w  BY <2>1, <1>1, <1>3, <1>6
  <2>2. CASE v # w  BY <2>2, <1>6 DEF PromotionInv, Tagged
  <2> QED BY <2>1, <2>2
<1> QED BY <1>11, <1>12, <1>13 DEF PromotionInv

LEMMA Inductive == ASSUME PromotionInv, [Next]_vars PROVE PromotionInv'
<1>1. CASE NewData
  <2>1. newest' = newest + 1 /\ UNCHANGED <<versions, alias, run>>
    BY <1>1 DEF NewData, registry
  <2> QED BY <2>1 DEF PromotionInv, RegistryType, Tagged
<1>2. ASSUME NEW r \in Runs, Train(r) \/ RunNext(r) \/ Leave(r) PROVE PromotionInv'
  BY <1>2, TrainStep, LeaveStep, ResolveStep, DecideStep, RegisterStep, MoveAliasStep, TagStep
     DEF RunNext
<1>3. CASE UNCHANGED vars
  <2>1. UNCHANGED <<newest, versions, alias, run>>  BY <1>3 DEF vars
  <2> QED BY <2>1 DEF PromotionInv, RegistryType, Tagged
<1> QED BY <1>1, <1>2, <1>3 DEF Next

\* Only MoveAlias moves the alias, and then the run says why.
LEMMA AliasMoves ==
  ASSUME PromotionInv, [Next]_vars, alias' # alias
  PROVE  \E r \in Runs :
           /\ run[r].version = alias'
           /\ \/ run[r].why \in {"first", "tracking"}
              \/ run[r].model = 0
              \/ /\ run[r].why = "channels"
                 /\ versions[run[r].champ].contract # versions[alias'].contract
              \/ versions[alias'].cost < versions[run[r].champ].cost
<1>1. PICK r \in Runs : MoveAlias(r)
  BY DEF Next, NewData, Train, RunNext, Resolve, Decide, Register, Tag, Leave, registry, vars
<1>2. run[r].pc = "aliasing" /\ alias' = run[r].version  BY <1>1 DEF MoveAlias
<1>3. GoodRun(run[r], versions, Contract[r])  BY DEF PromotionInv
<1>4. run[r].why \in {"first", "channels", "tracking", "cost"}
  <2>1. run[r].why \in {"none", "first", "channels", "tracking", "cost"}
    BY <1>3 DEF GoodRun, RunType
  <2>2. run[r].why # "none"  BY <1>2, <1>3 DEF GoodRun, Stage
  <2> QED BY <2>1, <2>2
<1>5. versions[alias'].cost = run[r].cost /\ versions[alias'].contract = Contract[r]
  BY <1>2, <1>3 DEF GoodRun, Registered
<1>6. CASE run[r].why = "cost" /\ run[r].model # 0
  BY <1>2, <1>3, <1>5, <1>6 DEF GoodRun, Won
<1>7. CASE run[r].why = "channels" /\ run[r].model # 0
  BY <1>2, <1>3, <1>5, <1>7 DEF GoodRun, Won
<1>8. CASE run[r].why \in {"first", "tracking"} \/ run[r].model = 0  BY <1>2, <1>8
<1> QED BY <1>4, <1>6, <1>7, <1>8

LEMMA InvImplies == ASSUME PromotionInv PROVE TypeOK /\ Fair
<1>1. TypeOK  BY DEF PromotionInv, RegistryType, TypeOK, RunType
<1>2. Fair
  <2> SUFFICES ASSUME NEW r \in Runs, run[r].from # NoTag, run[r].tag # NoTag
               PROVE  /\ run[r].from >= Split(r)
                      /\ run[r].from >= versions[run[r].champ].fitted_until
    BY DEF Fair
  <2>1. Remembered(run[r], versions)  BY DEF PromotionInv, GoodRun
  <2> QED BY <2>1 DEF Remembered, Split
<1> QED BY <1>1, <1>2

-----------------------------------------------------------------------------
(***************************************************************************)
(* Theorems.                                                               *)
(***************************************************************************)

\* run_pipeline(): the registry and the runs have their types; the alias and all
\* that runs remember are registered versions.
THEOREM TypeCorrect == Spec => []TypeOK
<1> QED BY InitStep, Inductive, InvImplies, PTL DEF Spec

\* _decide(): however runs overlap and end, a champion with a data_end_ts is
\* compared only on data that neither it nor the winner was fitted on.
THEOREM ComparisonsAreFair == Spec => []Fair
<1> QED BY InitStep, Inductive, InvImplies, PTL DEF Spec

\* run_pipeline(), _decide(): whatever other runs do to the alias meanwhile, a run
\* that compared its winner with a champion's own bundle makes it the champion only
\* if it is better than that champion, or takes other channels; what is promoted
\* without a comparison is what the property names.
THEOREM WinnerBeatsCompared == Spec => BeatsCompared
<1>1. PromotionInv /\ [Next]_vars =>
        [alias' # alias =>
           \E r \in Runs :
             /\ run[r].version = alias'
             /\ \/ run[r].why \in {"first", "tracking"}
                \/ run[r].model = 0
                \/ /\ run[r].why = "channels"
                   /\ versions[run[r].champ].contract # versions[alias'].contract
                \/ versions[alias'].cost < versions[run[r].champ].cost]_vars
  BY AliasMoves
<1> QED BY <1>1, InitStep, Inductive, PTL DEF Spec, BeatsCompared

\* The loop of alerts, Jobs and pods (trigger.py, training.yaml) does to the
\* registry what training runs do, and nothing else.
THEOREM RetrainingIsPromotion == RetrainSpec => Spec
<1>1. RetrainInit => Init  BY DEF RetrainInit
<1>2. [RetrainNext]_allVars => [Next]_vars
  <2> SUFFICES ASSUME [RetrainNext]_allVars PROVE [Next]_vars  OBVIOUS
  <2>1. CASE NewData  BY <2>1 DEF Next
  <2>2. ASSUME NEW j \in Jobs, Pod(j) \/ PodStep(j) \/ Exit(j) \/ Fail(j) \/ Expire(j)
        PROVE  [Next]_vars
    <3>1. j \in Runs  BY RunsAreJobs
    <3>2. Train(j) \/ RunNext(j) \/ Leave(j) \/ UNCHANGED vars
      BY <2>2 DEF Pod, PodStep, Exit, Fail, Expire
    <3> QED BY <3>1, <3>2 DEF Next
  <2>3. CASE UNCHANGED vars  BY <2>3
  <2>4. CASE UNCHANGED allVars  BY <2>4 DEF allVars
  <2> QED BY <2>1, <2>2, <2>3, <2>4 DEF RetrainNext
<1> QED BY <1>1, <1>2, PTL DEF RetrainSpec, Spec

\* What is true of any training runs is true of those the Jobs start.
THEOREM RetrainingIsFair == RetrainSpec => []Fair /\ BeatsCompared
<1> QED BY RetrainingIsPromotion, ComparisonsAreFair, WinnerBeatsCompared, PTL

-----------------------------------------------------------------------------
(***************************************************************************)
(* Jobs, their pods and the runs in them.                                  *)
(***************************************************************************)

\* A training run is under way exactly while the pod of its Job is.
PodsAreRuns == \A j \in Jobs : run[j].pc # "off" <=> job[j].phase = "active"

\* The CronJob has one Job at a time.
SingleJob == \A j, k \in CronJobs : Unfinished(j) /\ Unfinished(k) => j = k

\* No two runs of the schedule are under way at once.
SingleRun == \A j, k \in CronJobs : run[j].pc # "off" /\ run[k].pc # "off" => j = k

JobType ==
  [phase : {"none", "new", "active", "backoff", "finished"},
   since : 0..MinGap, failures : 0..BackoffLimit]

\* A step changes the phase of at most one Job, to one that is unfinished only if
\* it was so before, or if no Job of the CronJob is.
LEMMA PhaseStep ==
  ASSUME TriggerTypeOK, SingleJob, NEW j \in Jobs, NEW rec \in JobType,
         job' = [job EXCEPT ![j] = rec],
         \/ Unfinished(j)
         \/ rec.phase = "finished"
         \/ j \notin CronJobs
         \/ \A k \in CronJobs : ~Unfinished(k)
  PROVE  job' \in [Jobs -> JobType] /\ SingleJob'
<1>1. job \in [Jobs -> JobType]  BY DEF TriggerTypeOK, JobType
<1>2. job' \in [Jobs -> JobType]  BY <1>1
<1>3. job'[j] = rec /\ \A k \in Jobs \ {j} : job'[k] = job[k]  BY <1>1
<1>4. \A k \in CronJobs : k \in Jobs  BY DEF Jobs
<1>5. SingleJob'
  BY <1>3, <1>4 DEF SingleJob, Unfinished
<1> QED BY <1>2, <1>5

LEMMA TriggerStep ==
  ASSUME TriggerTypeOK, SingleJob, [TriggerNext]_triggerVars
  PROVE  TriggerTypeOK' /\ SingleJob'
<1> DEFINE Handling == [Handlers -> {"idle", "creating"}]
<1>0. /\ MinGap \in Nat /\ BackoffLimit \in Nat
      /\ firing \in BOOLEAN /\ handler \in Handling /\ job \in [Jobs -> JobType]
  BY JobsAssumption DEF TriggerTypeOK, JobType
<1>1. CASE UNCHANGED triggerVars
  BY <1>1 DEF triggerVars, TriggerTypeOK, SingleJob, Unfinished
<1>2. CASE AlertChange
  BY <1>2 DEF AlertChange, TriggerTypeOK, SingleJob, Unfinished
<1>3. CASE TickJobs
  <2>1. UNCHANGED <<firing, handler>>  BY <1>3 DEF TickJobs
  <2>2. ASSUME NEW j \in Jobs
        PROVE  job'[j] \in JobType /\ job'[j].phase = job[j].phase
    <3>1. job'[j] = IF j \in AlertJobs /\ Finished(j) /\ job[j].since < MinGap
                      THEN [job[j] EXCEPT !.since = @ + 1] ELSE job[j]
      BY <1>3 DEF TickJobs
    <3>2. job[j] \in JobType  BY <1>0
    <3> QED BY <1>0, <3>1, <3>2 DEF JobType
  <2>3. job' = [j \in Jobs |-> job'[j]]  BY <1>3 DEF TickJobs
  <2>4. job' \in [Jobs -> JobType]  BY <2>2, <2>3
  <2>5. SingleJob'
    <3>1. \A j \in CronJobs : j \in Jobs  BY DEF Jobs
    <3> QED BY <2>2, <3>1 DEF SingleJob, Unfinished
  <2> QED BY <1>0, <2>1, <2>4, <2>5 DEF TriggerTypeOK, JobType
<1>4. ASSUME NEW h \in Handlers, Handle(h) PROVE TriggerTypeOK' /\ SingleJob'
  <2>1. CASE Webhook(h)
    BY <1>0, <2>1 DEF Webhook, TriggerTypeOK, SingleJob, Unfinished
  <2>2. CASE CreateFails(h)
    BY <1>0, <2>2 DEF CreateFails, TriggerTypeOK, SingleJob, Unfinished
  <2>3. CASE CreateJob(h)
    <3>1. PICK j \in AlertJobs : NewJob(j)  BY <2>3 DEF CreateJob
    <3>2. j \in Jobs /\ j \notin CronJobs  BY JobsAssumption DEF Jobs
    <3> DEFINE new == [phase |-> "new", since |-> 0, failures |-> 0]
    <3>3. new \in JobType  BY <1>0 DEF JobType
    <3>4. job' = [job EXCEPT ![j] = new]  BY <3>1 DEF NewJob
    <3>5. job' \in [Jobs -> JobType] /\ SingleJob'
      BY <3>2, <3>3, <3>4, PhaseStep
    <3>6. firing' \in BOOLEAN /\ handler' \in Handling  BY <1>0, <2>3 DEF CreateJob
    <3> QED BY <3>5, <3>6 DEF TriggerTypeOK, JobType
  <2> QED BY <1>4, <2>1, <2>2, <2>3 DEF Handle
<1>5. ASSUME NEW j \in Jobs,
             Schedule(j) \/ StartPod(j) \/ PodSucceeds(j) \/ PodFails(j) \/ Deadline(j)
      PROVE  TriggerTypeOK' /\ SingleJob'
  <2>0. job[j] \in JobType  BY <1>0
  <2>1. PICK rec \in JobType :
          /\ job' = [job EXCEPT ![j] = rec]
          /\ \/ Unfinished(j) \/ rec.phase = "finished" \/ j \notin CronJobs
             \/ \A k \in CronJobs : ~Unfinished(k)
    <3>1. CASE Schedule(j)
      <4> DEFINE new == [phase |-> "new", since |-> 0, failures |-> 0]
      <4>1. new \in JobType  BY <1>0 DEF JobType
      <4>2. job' = [job EXCEPT ![j] = new] /\ \A k \in CronJobs : ~Unfinished(k)
        BY <3>1 DEF Schedule, NewJob
      <4> QED BY <4>1, <4>2
    <3>2. CASE StartPod(j)
      <4> DEFINE new == [job[j] EXCEPT !.phase = "active"]
      <4>1. new \in JobType  BY <2>0 DEF JobType
      <4>2. job' = [job EXCEPT ![j] = new] /\ Unfinished(j)
        BY <3>2, <1>0 DEF StartPod, Unfinished
      <4> QED BY <4>1, <4>2
    <3>3. CASE PodSucceeds(j) \/ Deadline(j)
      <4>1. Ended \in JobType /\ Ended.phase = "finished"  BY <1>0 DEF JobType, Ended
      <4>2. job' = [job EXCEPT ![j] = Ended]  BY <3>3 DEF PodSucceeds, Deadline
      <4> QED BY <4>1, <4>2
    <3>4. CASE PodFails(j)
      <4> DEFINE again == [job[j] EXCEPT !.phase = "backoff", !.failures = job[j].failures + 1]
      <4>1. Unfinished(j)  BY <3>4 DEF PodFails, Unfinished
      <4>2. job' = [job EXCEPT ![j] = IF job[j].failures < BackoffLimit THEN again ELSE Ended]
        BY <3>4, Zenon DEF PodFails
      <4>3. CASE job[j].failures < BackoffLimit
        <5>1. job[j].failures + 1 \in 0..BackoffLimit  BY <1>0, <2>0, <4>3 DEF JobType
        <5>2. again \in JobType  BY <2>0, <5>1 DEF JobType
        <5>3. job' = [job EXCEPT ![j] = again]  BY <4>2, <4>3
        <5> QED BY <4>1, <5>2, <5>3
      <4>4. CASE ~(job[j].failures < BackoffLimit)
        <5>1. job' = [job EXCEPT ![j] = Ended]  BY <4>2, <4>4
        <5>2. Ended \in JobType  BY <1>0 DEF JobType, Ended
        <5> QED BY <4>1, <5>1, <5>2
      <4> QED BY <4>3, <4>4
    <3> QED BY <1>5, <3>1, <3>2, <3>3, <3>4
  <2>2. job' \in [Jobs -> JobType] /\ SingleJob'  BY <2>1, PhaseStep
  <2>3. UNCHANGED <<firing, handler>>
    BY <1>5 DEF Schedule, StartPod, PodSucceeds, PodFails, Deadline
  <2> QED BY <1>0, <2>2, <2>3 DEF TriggerTypeOK, JobType
<1> QED BY <1>1, <1>2, <1>3, <1>4, <1>5 DEF TriggerNext

LEMMA TriggerStart == ASSUME TriggerInit PROVE TriggerTypeOK /\ SingleJob
<1>1. 0 \in 0..MinGap /\ 0 \in 0..BackoffLimit  BY JobsAssumption
<1>2. TriggerTypeOK  BY <1>1 DEF TriggerInit, TriggerTypeOK
<1>3. \A j \in CronJobs : job[j].phase = "none"  BY DEF TriggerInit, Jobs
<1> QED BY <1>2, <1>3 DEF SingleJob, Unfinished

\* Jobs, threads and the alert keep to their types: no Job has more failed pods
\* than backoffLimit allows (training.yaml).
THEOREM TriggerTypeCorrect == TriggerSpec => []TriggerTypeOK
<1> QED BY TriggerStart, TriggerStep, PTL DEF TriggerSpec

\* The trigger and Kubernetes do in the composition what they do alone.
LEMMA RetrainingTriggers == RetrainSpec => TriggerInit /\ [][TriggerNext]_triggerVars
<1>1. RetrainInit => TriggerInit  BY DEF RetrainInit
<1>2. [RetrainNext]_allVars => [TriggerNext]_triggerVars
  BY DEF RetrainNext, allVars, Trigger, Pod, PodStep, Exit, Fail, Expire, TriggerNext
<1> QED BY <1>1, <1>2, PTL DEF RetrainSpec

\* A step of one Job's pod and run.
LEMMA OneRun ==
  ASSUME TriggerTypeOK, TypeOK, PodsAreRuns, NEW j \in Jobs,
         NEW rec, job' = [job EXCEPT ![j] = rec],
         NEW r, run' = [run EXCEPT ![j] = r],
         r.pc # "off" <=> rec.phase = "active"
  PROVE  PodsAreRuns'
<1>1. job'[j] = rec /\ \A k \in Jobs \ {j} : job'[k] = job[k]  BY DEF TriggerTypeOK
<1>2. run'[j] = r /\ \A k \in Jobs \ {j} : run'[k] = run[k]  BY RunsAreJobs DEF TypeOK
<1> QED BY <1>1, <1>2 DEF PodsAreRuns

\* A step of a run leaves it a run.
LEMMA RunSteps ==
  ASSUME TypeOK, NEW j \in Runs, RunNext(j)
  PROVE  run[j].pc # "off" /\ \E r : run' = [run EXCEPT ![j] = r] /\ r.pc # "off"
<1>0. run \in [Runs -> RunType(Len(versions))] /\ run[j] \in RunType(Len(versions))
  BY DEF TypeOK, RunType
<1>1. CASE Resolve(j)
  <2>1. [run[j] EXCEPT !.pc = IF j \in DryRun THEN "done" ELSE "registering",
                       !.why = "first"].pc # "off"
    BY <1>0 DEF RunType
  <2>2. [run[j] EXCEPT !.pc = "loading", !.champ = alias,
                       !.tag = versions[alias].data_end_ts].pc # "off"
    BY <1>0 DEF RunType
  <2> QED BY <1>1, <2>1, <2>2 DEF Resolve, NoChampion, Found
<1>2. CASE Decide(j)
  <2>1. Done.pc # "off"  BY DEF Done, Idle
  <2>2. \A m, why : Promoted(j, m, why).pc # "off"  BY <1>0 DEF Promoted, RunType
  <2>3. \A m, t : [Promoted(j, m, "cost") EXCEPT !.from = t].pc # "off"
    BY <1>0 DEF Promoted, RunType
  <2>4. \A m, t : [Keep(j, m) EXCEPT !.from = t].pc # "off"  BY <1>0 DEF Keep, RunType
  <2>5. \A m, t, b :
          [(IF b THEN Promoted(j, m, "cost") ELSE Keep(j, m)) EXCEPT !.from = t].pc # "off"
    BY <2>3, <2>4
  <2>6. run[j].pc # "off"  BY <1>2 DEF Decide
  <2>7. \/ \E m, why : run' = [run EXCEPT ![j] = Promoted(j, m, why)]
        \/ run' = [run EXCEPT ![j] = Done]
        \/ \E m, b, t : run' = [run EXCEPT ![j] =
             [(IF b THEN Promoted(j, m, "cost") ELSE Keep(j, m)) EXCEPT !.from = t]]
    BY <1>2, Zenon DEF Decide
  <2>8. CASE \E m, why : run' = [run EXCEPT ![j] = Promoted(j, m, why)]
    BY <2>2, <2>6, <2>8, Zenon
  <2>9. CASE \E m, b, t : run' = [run EXCEPT ![j] =
               [(IF b THEN Promoted(j, m, "cost") ELSE Keep(j, m)) EXCEPT !.from = t]]
    <3>1. PICK m, b, t : run' = [run EXCEPT ![j] =
               [(IF b THEN Promoted(j, m, "cost") ELSE Keep(j, m)) EXCEPT !.from = t]]
      BY <2>9
    <3> DEFINE new == [(IF b THEN Promoted(j, m, "cost") ELSE Keep(j, m)) EXCEPT !.from = t]
    <3>2. new.pc # "off"  BY <2>5
    <3>3. run' = [run EXCEPT ![j] = new]  BY <3>1
    <3> HIDE DEF new
    <3> QED BY <2>6, <3>2, <3>3
  <2> QED BY <2>1, <2>6, <2>7, <2>8, <2>9, Zenon
<1>3. CASE Register(j)
  <2>1. [run[j] EXCEPT !.pc = "aliasing", !.version = Len(versions) + 1].pc # "off"
    BY <1>0 DEF RunType
  <2>2. run' = [run EXCEPT ![j] = [run[j] EXCEPT !.pc = "aliasing",
                                                 !.version = Len(versions) + 1]]
    BY <1>0, <1>3 DEF Register, RunType
  <2>3. run[j].pc # "off"  BY <1>3 DEF Register
  <2> QED BY <2>1, <2>2, <2>3
<1>4. CASE MoveAlias(j)
  <2>1. Aliased(run[j]).pc # "off"  BY DEF Aliased, Idle
  <2> QED BY <1>4, <2>1 DEF MoveAlias
<1>5. CASE Tag(j)
  <2>1. Done.pc # "off"  BY DEF Done, Idle
  <2> QED BY <1>5, <2>1 DEF Tag
<1> QED BY <1>1, <1>2, <1>3, <1>4, <1>5 DEF RunNext

LEMMA PodsStep ==
  ASSUME TriggerTypeOK, TypeOK, PodsAreRuns, [RetrainNext]_allVars
  PROVE  PodsAreRuns'
<1>0. /\ \A j \in Jobs : job[j] \in JobType
      /\ DOMAIN job = Jobs /\ DOMAIN run = Jobs
  BY RunsAreJobs DEF TriggerTypeOK, JobType, TypeOK
<1>r. \A j \in Jobs : run' = [run EXCEPT ![j] = run[j]] <=> run' = run
  BY RunsAreJobs DEF TypeOK
<1>1. CASE UNCHANGED allVars
  BY <1>1 DEF allVars, vars, triggerVars, PodsAreRuns
<1>2. CASE NewData /\ UNCHANGED triggerVars
  BY <1>2 DEF NewData, triggerVars, PodsAreRuns
<1>3. CASE Trigger /\ UNCHANGED vars
  <2>1. run' = run  BY <1>3 DEF vars
  <2>2. CASE AlertChange  BY <2>1, <2>2 DEF AlertChange, PodsAreRuns
  <2>3. CASE TickJobs
    <3>1. ASSUME NEW j \in Jobs PROVE job'[j].phase = job[j].phase
      <4>1. job'[j] = IF j \in AlertJobs /\ Finished(j) /\ job[j].since < MinGap
                        THEN [job[j] EXCEPT !.since = @ + 1] ELSE job[j]
        BY <2>3 DEF TickJobs
      <4> QED BY <1>0, <4>1 DEF JobType
    <3> QED BY <2>1, <3>1 DEF PodsAreRuns
  <2>4. ASSUME NEW h \in Handlers, Handle(h) PROVE PodsAreRuns'
    <3>1. CASE Webhook(h)  BY <2>1, <3>1 DEF Webhook, PodsAreRuns
    <3>2. CASE CreateFails(h)  BY <2>1, <3>2 DEF CreateFails, PodsAreRuns
    <3>3. CASE CreateJob(h)
      <4>1. PICK j \in AlertJobs : Free(j) /\ NewJob(j)  BY <3>3 DEF CreateJob
      <4>2. j \in Jobs  BY DEF Jobs
      <4>3. run[j].pc = "off"  BY <4>1, <4>2 DEF Free, Finished, PodsAreRuns
      <4>4. run' = [run EXCEPT ![j] = run[j]]  BY <2>1, <1>r, <4>2
      <4> DEFINE new == [phase |-> "new", since |-> 0, failures |-> 0]
      <4>5. job' = [job EXCEPT ![j] = new]  BY <4>1 DEF NewJob
      <4>6. run[j].pc # "off" <=> new.phase = "active"  BY <4>3
      <4> HIDE DEF new
      <4> QED BY <4>2, <4>4, <4>5, <4>6, OneRun
    <3> QED BY <2>4, <3>1, <3>2, <3>3 DEF Handle
  <2> QED BY <1>3, <2>2, <2>3, <2>4 DEF Trigger
<1>4. ASSUME NEW j \in Jobs, Schedule(j) /\ UNCHANGED vars PROVE PodsAreRuns'
  <2>1. run[j].pc = "off"  BY <1>4 DEF Schedule, Free, Finished, PodsAreRuns
  <2>2. run' = [run EXCEPT ![j] = run[j]]  BY <1>4, <1>r DEF vars
  <2> DEFINE new == [phase |-> "new", since |-> 0, failures |-> 0]
  <2>3. job' = [job EXCEPT ![j] = new]  BY <1>4 DEF Schedule, NewJob
  <2>4. run[j].pc # "off" <=> new.phase = "active"  BY <2>1
  <2> HIDE DEF new
  <2> QED BY <2>2, <2>3, <2>4, OneRun
<1>5. ASSUME NEW j \in Jobs, Pod(j) PROVE PodsAreRuns'
  <2>1. PICK r : run' = [run EXCEPT ![j] = r] /\ r.pc \in {"resolving", "done"}
    <3>1. PICK cost \in Costs, eligible \in BOOLEAN :
            run' = [run EXCEPT ![j] =
                      IF eligible /\ cost < BaselineCost
                        THEN [Idle EXCEPT !.pc = "resolving", !.end = newest, !.cost = cost]
                        ELSE Done]
      BY <1>5 DEF Pod, Train
    <3>2. /\ [Idle EXCEPT !.pc = "resolving", !.end = newest, !.cost = cost].pc = "resolving"
          /\ Done.pc = "done"
      BY DEF Idle, Done
    <3> QED BY <3>1, <3>2
  <2>2. job' = [job EXCEPT ![j] = [job[j] EXCEPT !.phase = "active"]]
    BY <1>5 DEF Pod, StartPod
  <2>3. [job[j] EXCEPT !.phase = "active"].phase = "active"  BY <1>0 DEF JobType
  <2> QED BY <2>1, <2>2, <2>3, OneRun
<1>6. ASSUME NEW j \in Jobs, PodStep(j) PROVE PodsAreRuns'
  <2>1. job' = job  BY <1>6 DEF PodStep, triggerVars
  <2>2. run[j].pc # "off" /\ \E r : run' = [run EXCEPT ![j] = r] /\ r.pc # "off"
    BY <1>6, RunSteps, RunsAreJobs DEF PodStep
  <2>3. job' = [job EXCEPT ![j] = job[j]]  BY <2>1, <1>0 DEF TriggerTypeOK
  <2>4. job[j].phase = "active"  BY <2>2 DEF PodsAreRuns
  <2> QED BY <2>2, <2>3, <2>4, OneRun
<1>7. ASSUME NEW j \in Jobs, Exit(j) \/ Fail(j) \/ Expire(j) PROVE PodsAreRuns'
  <2>1. PICK rec : job' = [job EXCEPT ![j] = rec] /\ rec.phase \in {"backoff", "finished"}
    <3>1. Ended.phase = "finished"  BY DEF Ended
    <3>2. [job[j] EXCEPT !.phase = "backoff", !.failures = job[j].failures + 1].phase = "backoff"
      BY <1>0 DEF JobType
    <3> DEFINE again == [job[j] EXCEPT !.phase = "backoff", !.failures = job[j].failures + 1]
    <3>3. CASE PodSucceeds(j) \/ Deadline(j)
      BY <3>1, <3>3 DEF PodSucceeds, Deadline
    <3>4. CASE PodFails(j)
      <4>1. job' = [job EXCEPT ![j] = IF job[j].failures < BackoffLimit THEN again ELSE Ended]
        BY <3>4, Zenon DEF PodFails
      <4>2. (IF job[j].failures < BackoffLimit THEN again ELSE Ended).phase
              \in {"backoff", "finished"}
        BY <3>1, <3>2
      <4> QED BY <4>1, <4>2, Zenon
    <3> QED BY <1>7, <3>3, <3>4 DEF Exit, Fail, Expire
  <2>2. \E r : run' = [run EXCEPT ![j] = r] /\ r.pc = "off"
    <3>1. CASE Leave(j)
      <4>1. Idle.pc = "off"  BY DEF Idle
      <4> QED BY <3>1, <4>1 DEF Leave
    <3>2. CASE run[j].pc = "off" /\ UNCHANGED vars  BY <3>2, <1>r DEF vars
    <3> QED BY <1>7, <3>1, <3>2 DEF Exit, Fail, Expire
  <2> QED BY <2>1, <2>2, OneRun
<1> QED BY <1>1, <1>2, <1>3, <1>4, <1>5, <1>6, <1>7 DEF RetrainNext

\* The schedule of the CronJob (concurrencyPolicy: Forbid) and the pods: a training
\* run is under way exactly while a pod of its Job is, and no two runs of the
\* schedule ever overlap, however pods fail, are replaced or run out of time.
\* Runs that overlap are an alert's.
THEOREM ScheduledRunsAreSingle == RetrainSpec => [](PodsAreRuns /\ SingleRun)
<1>1. RetrainInit => PodsAreRuns
  BY RunsAreJobs DEF RetrainInit, Init, TriggerInit, PodsAreRuns, Idle
<1>2. PodsAreRuns /\ SingleJob => SingleRun
  BY DEF PodsAreRuns, SingleJob, SingleRun, Unfinished, Jobs
<1> QED
  BY <1>1, <1>2, RetrainingTriggers, RetrainingIsPromotion, TypeCorrect, TriggerStart,
     TriggerStep, PodsStep, PTL DEF RetrainSpec

=============================================================================
