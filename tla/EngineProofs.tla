----------------------------- MODULE EngineProofs -----------------------------
(***************************************************************************)
(* Proofs about Engine and Scaler, for every number of polls and calls and *)
(* all constants.                                                          *)
(***************************************************************************)
EXTENDS Engine, Scaler, FiniteSetTheorems, TLAPS

-----------------------------------------------------------------------------
(***************************************************************************)
(* The operators.                                                          *)
(***************************************************************************)

\* A larger demand is capped at more; caps are natural numbers.
LEMMA Caps ==
  ASSUME NEW a \in Nat, NEW b \in Nat
  PROVE  /\ Factor * a \in Nat
         /\ a <= b => Factor * a <= Factor * b
<1>1. Factor \in Nat
  BY ConstantsAssumption
<1> QED
  BY <1>1

\* What the cap gives.
LEMMA CapBounds ==
  ASSUME NEW y \in Forecasts, NEW o \in Demands
  PROVE  /\ Cap(y, o) \in Forecasts
         /\ Mode = "max" /\ Factor > 0 /\ o > 0 => Cap(y, o) <= Factor * o
<1>1. o \in Nat /\ Factor * o \in Nat
  BY Caps, ConstantsAssumption DEF Demands
<1> DEFINE cap == Factor * o
<1>2. cap \in Nat
  BY <1>1
<1> HIDE DEF cap
<1>3. Lesser(y, cap) \in Forecasts /\ Lesser(y, cap) <= cap
  BY <1>2, ConstantsAssumption DEF Forecasts, Lesser
<1> QED
  BY <1>3 DEF Cap, cap

\* A blend lies between the two values.
LEMMA BlendsBounds ==
  ASSUME NEW s \in Forecasts, NEW y \in Forecasts, NEW v \in Blends(s, y)
  PROVE  /\ v \in Forecasts
         /\ v <= Greater(s, y)
BY ConstantsAssumption DEF Blends, Forecasts, Lesser, Greater

\* What a poll's update makes of the smoother's state and of its decision.
LEMMA SmoothResult ==
  ASSUME TypeOK, NEW p \in Pollers, Smooth(p)
  PROVE  /\ ewma'.value \in Forecasts
         /\ Stale(p) => ewma'.value = predicted[p]
         /\ ~Stale(p) => ewma'.value \in Blends(ewma.value, predicted[p])
         /\ ewma' = [seeded |-> TRUE, value |-> ewma'.value, updated |-> lag[p], since |-> 0,
                     peak |-> IF Stale(p) THEN draft[p].observed
                                          ELSE Greater(ewma.peak, draft[p].observed),
                     capped |-> draft[p].observed > 0 /\ (Stale(p) \/ ewma.capped)]
         /\ draft' = [draft EXCEPT ![p] =
              Decision(IF Mode = "max" THEN Greater(ewma'.value, draft[p].observed)
                                       ELSE ewma'.value, draft[p].observed)]
<1>1. PICK v \in (IF Stale(p) THEN {predicted[p]} ELSE Blends(ewma.value, predicted[p])) :
        ewma' = [seeded  |-> TRUE,
                 value   |-> v,
                 updated |-> lag[p],
                 since   |-> 0,
                 peak    |-> IF Stale(p) THEN draft[p].observed
                                         ELSE Greater(ewma.peak, draft[p].observed),
                 capped  |-> draft[p].observed > 0 /\ (Stale(p) \/ ewma.capped)]
  BY DEF Smooth
<1>2. ewma'.value = v
  BY <1>1
<1>3. predicted[p] \in Forecasts /\ ewma.value \in Forecasts
  BY DEF TypeOK
<1>4. v \in Forecasts
  <2>1. CASE Stale(p)
    BY <1>1, <1>3, <2>1
  <2>2. CASE ~Stale(p)
    BY <1>1, <1>3, <2>2, BlendsBounds
  <2> QED
    BY <2>1, <2>2
<1>5. (Stale(p) => v = predicted[p]) /\ (~Stale(p) => v \in Blends(ewma.value, predicted[p]))
  BY <1>1
<1> QED
  BY <1>1, <1>2, <1>4, <1>5 DEF Smooth

-----------------------------------------------------------------------------
(***************************************************************************)
(* Type correctness.                                                       *)
(***************************************************************************)

LEMMA TypeInit == Init => TypeOK
<1> SUFFICES ASSUME Init PROVE TypeOK
  OBVIOUS
<1>1. Decision(0, 0) \in Decisions /\ 0 \in Demands /\ 0 \in Forecasts
  BY ConstantsAssumption DEF Decision, Decisions, Demands, Forecasts
<1>2. -Lag \in -Lag..CacheSeconds /\ Expired \in 0..Expired /\ 0 \in 0..Forgotten
      /\ 0 \in 0..PollTime /\ 0 \in 0..Lag
  BY ConstantsAssumption DEF Expired, Forgotten
<1> QED
  BY <1>1, <1>2 DEF Init, TypeOK, NoEwma

\* The end of a poll.
LEMMA ReturnTypes ==
  ASSUME TypeOK, NEW p \in Pollers, Return(p)
  PROVE  /\ pc' \in [Pollers -> {"idle", "looking", "fetching", "calling", "smoothing", "storing"}]
         /\ began' \in [Pollers -> 0..PollTime]
         /\ draft' \in [Pollers -> Decisions]
         /\ predicted' \in [Pollers -> Forecasts]
         /\ lag' \in [Pollers -> 0..Lag]
<1>1. Decision(0, 0) \in Decisions /\ 0 \in Forecasts /\ 0 \in 0..PollTime /\ 0 \in 0..Lag
  BY ConstantsAssumption DEF Decision, Decisions, Demands, Forecasts
<1> QED
  BY <1>1 DEF Return, GoTo, TypeOK

LEMMA TypePoll ==
  ASSUME TypeOK, NEW p \in Pollers, Poll(p)
  PROVE  TypeOK'
<1>1. CASE Begin(p) \/ Miss(p) \/ Refuse(p)
  BY <1>1 DEF Begin, Miss, Refuse, GoTo, TypeOK
<1>2. CASE Hit(p) \/ Raise(p)
  BY <1>2, ReturnTypes DEF Hit, Raise, TypeOK
<1>3. CASE History(p)
  <2>1. Decision(demand, demand) \in Decisions
    BY ConstantsAssumption DEF TypeOK, Decision, Decisions, Demands, Forecasts
  <2> QED
    BY <1>3, <2>1 DEF History, GoTo, TypeOK
<1>4. CASE Accept(p)
  <2>1. draft[p].observed \in Demands
    BY DEF TypeOK, Decisions
  <2>2. \A y \in Forecasts : Cap(y, draft[p].observed) \in Forecasts
    BY <2>1, CapBounds
  <2>3. predicted' \in [Pollers -> Forecasts]
    BY <1>4, <2>2 DEF Accept, TypeOK
  <2> QED
    BY <1>4, <2>3 DEF Accept, GoTo, TypeOK
<1>5. CASE Smooth(p)
  <2> DEFINE o == draft[p].observed
             w == IF Mode = "max" THEN Greater(ewma'.value, o) ELSE ewma'.value
  <2>1. o \in Demands /\ ewma.peak \in Demands /\ lag[p] \in 0..Forgotten
    BY ConstantsAssumption DEF TypeOK, Decisions, Forgotten
  <2>2. ewma'.value \in Forecasts
    BY <1>5, SmoothResult
  <2>3. w \in Forecasts /\ Greater(ewma.peak, o) \in Demands
    BY <2>1, <2>2, ConstantsAssumption DEF Demands, Forecasts, Greater
  <2>4. draft' \in [Pollers -> Decisions]
    <3>1. draft' = [draft EXCEPT ![p] = Decision(w, o)]
      BY <1>5, SmoothResult
    <3>2. Decision(w, o) \in Decisions
      BY <2>1, <2>3 DEF Decision, Decisions
    <3> QED
      BY <3>1, <3>2 DEF TypeOK
  <2>5. ewma' \in [seeded : BOOLEAN, value : Forecasts, updated : 0..Forgotten,
                   since : 0..Forgotten, peak : Demands, capped : BOOLEAN]
    <3> DEFINE cc == o > 0 /\ (Stale(p) \/ ewma.capped)
               pk == IF Stale(p) THEN o ELSE Greater(ewma.peak, o)
               v == ewma'.value
    <3>1. ewma' = [seeded |-> TRUE, value |-> v, updated |-> lag[p], since |-> 0,
                   peak |-> pk, capped |-> cc]
      BY <1>5, SmoothResult
    <3>2. pk \in Demands
      BY <2>1, <2>3
    <3>3. cc \in BOOLEAN
      OBVIOUS
    <3>4. 0 \in 0..Forgotten
      BY ConstantsAssumption DEF Forgotten
    <3>5. v \in Forecasts
      BY <2>2
    <3> HIDE DEF cc, pk, v
    <3>6. [seeded |-> TRUE, value |-> v, updated |-> lag[p], since |-> 0, peak |-> pk, capped |-> cc]
            \in [seeded : BOOLEAN, value : Forecasts, updated : 0..Forgotten,
                 since : 0..Forgotten, peak : Demands, capped : BOOLEAN]
      BY <2>1, <3>2, <3>3, <3>4, <3>5, Zenon
    <3> QED
      BY <3>1, <3>6, Zenon
  <2>6. predicted' \in [Pollers -> Forecasts] /\ lag' \in [Pollers -> 0..Lag]
    BY <1>5, ConstantsAssumption DEF Smooth, TypeOK, Forecasts
  <2> QED
    BY <1>5, <2>4, <2>5, <2>6 DEF Smooth, GoTo, TypeOK
<1>6. CASE Store(p)
  <2>1. Greater(CacheSeconds - began[p], -Lag) \in -Lag..CacheSeconds
        /\ Lesser(began[p], Expired) \in 0..Expired
    BY ConstantsAssumption DEF TypeOK, Greater, Lesser, Expired
  <2>2. cache' \in [decision : Decisions, left : -Lag..CacheSeconds, age : 0..Expired]
    BY <1>6, <2>1 DEF Store, TypeOK
  <2> QED
    BY <1>6, <2>2, ReturnTypes DEF Store, TypeOK
<1> QED
  BY <1>1, <1>2, <1>3, <1>4, <1>5, <1>6 DEF Poll

LEMMA TypeTick ==
  ASSUME TypeOK, Tick
  PROVE  TypeOK'
<1>1. began' \in [Pollers -> 0..PollTime]
  BY ConstantsAssumption DEF TypeOK, Tick
<1>2. lag' \in [Pollers -> 0..Lag]
  BY ConstantsAssumption DEF TypeOK, Tick
<1>3. cache' \in [decision : Decisions, left : -Lag..CacheSeconds, age : 0..Expired]
  <2>1. Greater(cache.left - 1, -Lag) \in -Lag..CacheSeconds /\ Lesser(cache.age + 1, Expired) \in 0..Expired
    BY ConstantsAssumption DEF TypeOK, Greater, Lesser, Expired
  <2> QED
    BY <2>1 DEF TypeOK, Tick
<1>4. ewma' \in [seeded : BOOLEAN, value : Forecasts, updated : 0..Forgotten,
                 since : 0..Forgotten, peak : Demands, capped : BOOLEAN]
  <2>1. Lesser(ewma.updated + 1, Forgotten) \in 0..Forgotten
        /\ Lesser(ewma.since + 1, Forgotten) \in 0..Forgotten
    BY ConstantsAssumption DEF TypeOK, Lesser, Forgotten
  <2> QED
    BY <2>1 DEF TypeOK, Tick
<1> QED
  BY <1>1, <1>2, <1>3, <1>4 DEF TypeOK, Tick

LEMMA TypeStep ==
  ASSUME TypeOK, [Next]_vars
  PROVE  TypeOK'
<1>1. CASE \E p \in Pollers : Poll(p)
  BY <1>1, TypePoll
<1>2. CASE Tick
  BY <1>2, TypeTick
<1>3. CASE DemandChange
  BY <1>3 DEF DemandChange, TypeOK
<1>4. CASE UNCHANGED vars
  BY <1>4 DEF vars, TypeOK
<1> QED
  BY <1>1, <1>2, <1>3, <1>4 DEF Next

\* Every variable keeps to its type: decisions stay within the demands and
\* forecasts there were, ages within their limits.
THEOREM TypeCorrect == Spec => []TypeOK
<1>1. Init => TypeOK
  BY TypeInit
<1>2. TypeOK /\ [Next]_vars => TypeOK'
  BY TypeStep
<1> QED
  BY <1>1, <1>2, PTL DEF Spec

-----------------------------------------------------------------------------
(***************************************************************************)
(* The inductive invariant.                                                *)
(***************************************************************************)

LEMMA InvInit == Init => EngineInv
<1> SUFFICES ASSUME Init PROVE EngineInv
  OBVIOUS
<1>1. TypeOK
  BY TypeInit
<1>2. LooksSoon /\ CappedFirst
  BY DEF Init, LooksSoon, CappedFirst
<1>3. CacheAges /\ UpdatedBefore
  BY ConstantsAssumption DEF Init, CacheAges, UpdatedBefore, NoEwma
<1>4. Floored
  BY DEF Init, Floored, Decision
<1>5. SurgeBound
  BY ConstantsAssumption DEF Init, SurgeBound, NoEwma
<1> QED
  BY <1>1, <1>2, <1>3, <1>4, <1>5 DEF EngineInv

\* Each part of the invariant is kept by the steps of a poll.
LEMMA LooksSoonPoll ==
  ASSUME TypeOK, LooksSoon, NEW p \in Pollers, Poll(p)
  PROVE  LooksSoon'
<1>1. CASE Hit(p) \/ Raise(p) \/ Store(p)
  BY <1>1 DEF Hit, Raise, Store, Return, GoTo, LooksSoon, TypeOK
<1>2. CASE Begin(p)
  BY <1>2, ConstantsAssumption DEF Begin, GoTo, LooksSoon, TypeOK
<1>3. CASE Miss(p) \/ Refuse(p) \/ Accept(p) \/ History(p) \/ Smooth(p)
  BY <1>3 DEF Miss, Refuse, Accept, History, Smooth, GoTo, LooksSoon, TypeOK
<1> QED
  BY <1>1, <1>2, <1>3 DEF Poll

LEMMA CacheAgesPoll ==
  ASSUME TypeOK, CacheAges, NEW p \in Pollers, Poll(p)
  PROVE  CacheAges'
<1>1. CASE Store(p)
  <2>1. CASE CacheSeconds > 0
    <3>1. /\ cache'.left = Greater(CacheSeconds - began[p], -Lag)
          /\ cache'.age = Lesser(began[p], Expired)
      BY <1>1, <2>1 DEF Store
    <3>2. began[p] \in Nat
      BY DEF TypeOK
    <3> QED
      BY <3>1, <3>2, ConstantsAssumption DEF CacheAges, Greater, Lesser, Expired
  <2>2. CASE ~(CacheSeconds > 0)
    BY <1>1, <2>2 DEF Store, CacheAges
  <2> QED
    BY <2>1, <2>2
<1>2. CASE ~Store(p)
  <2>1. cache' = cache
    BY <1>2 DEF Poll, Begin, Hit, Miss, Raise, History, Refuse, Accept, Smooth
  <2> QED
    BY <2>1 DEF CacheAges
<1> QED
  BY <1>1, <1>2

LEMMA FlooredPoll ==
  ASSUME TypeOK, Floored, NEW p \in Pollers, Poll(p)
  PROVE  Floored'
<1> SUFFICES ASSUME Mode = "max"
             PROVE  /\ cache'.decision.value >= cache'.decision.observed
                    /\ \A q \in Pollers : draft'[q].value >= draft'[q].observed
  BY DEF Floored
<1>1. /\ cache.decision.value >= cache.decision.observed
      /\ \A q \in Pollers : draft[q].value >= draft[q].observed
  BY DEF Floored
<1>2. demand \in Nat /\ draft[p].observed \in Nat
  BY ConstantsAssumption DEF TypeOK, Demands, Decisions
<1>3. CASE Hit(p) \/ Raise(p) \/ Store(p)
  <2>1. draft' = [draft EXCEPT ![p] = Decision(0, 0)]
    BY <1>3 DEF Hit, Raise, Store, Return
  <2>2. cache' = cache \/ cache'.decision = draft[p]
    BY <1>3 DEF Hit, Raise, Store
  <2> QED
    BY <1>1, <2>1, <2>2 DEF TypeOK, Decision
<1>4. CASE History(p)
  BY <1>1, <1>2, <1>4 DEF History, TypeOK, Decision
<1>5. CASE Smooth(p)
  <2>1. cache' = cache
    BY <1>5 DEF Smooth
  <2>2. draft' = [draft EXCEPT ![p] = Decision(Greater(ewma'.value, draft[p].observed), draft[p].observed)]
    BY <1>5, SmoothResult
  <2>3. Greater(ewma'.value, draft[p].observed) >= draft[p].observed
    <3>1. ewma'.value \in Nat
      BY <1>5, SmoothResult, ConstantsAssumption DEF Forecasts
    <3> QED
      BY <1>2, <3>1 DEF Greater
  <2> QED
    BY <1>1, <2>1, <2>2, <2>3 DEF TypeOK, Decision
<1>6. CASE Begin(p) \/ Miss(p) \/ Refuse(p) \/ Accept(p)
  BY <1>1, <1>6 DEF Begin, Miss, Refuse, Accept
<1> QED
  BY <1>3, <1>4, <1>5, <1>6 DEF Poll

LEMMA CappedFirstPoll ==
  ASSUME TypeOK, CappedFirst, NEW p \in Pollers, Poll(p)
  PROVE  CappedFirst'
<1> SUFFICES ASSUME Mode = "max", Factor > 0,
                    NEW q \in Pollers, pc'[q] = "smoothing", draft'[q].observed > 0
             PROVE  predicted'[q] <= Factor * draft'[q].observed
  BY DEF CappedFirst
<1>1. CASE q # p
  <2>1. pc'[q] = pc[q] /\ draft'[q] = draft[q] /\ predicted'[q] = predicted[q]
    BY <1>1 DEF Poll, Begin, Hit, Miss, Raise, History, Refuse, Accept, Smooth, Store,
                Return, GoTo, TypeOK
  <2> QED
    BY <2>1 DEF CappedFirst
<1>2. CASE q = p
  <2>1. Accept(p)
    BY <1>2 DEF Poll, Begin, Hit, Miss, Raise, History, Refuse, Smooth, Store,
                Return, GoTo, TypeOK
  <2>2. PICK y \in Forecasts : predicted' = [predicted EXCEPT ![p] = Cap(y, draft[p].observed)]
    BY <2>1 DEF Accept
  <2>3. predicted'[p] = Cap(y, draft[p].observed) /\ draft' = draft
    BY <2>1, <2>2 DEF Accept, TypeOK
  <2>4. draft[p].observed \in Demands
    BY DEF TypeOK, Decisions
  <2> QED
    BY <1>2, <2>3, <2>4, CapBounds
<1> QED
  BY <1>1, <1>2

LEMMA SurgeBoundPoll ==
  ASSUME TypeOK, CappedFirst, SurgeBound, NEW p \in Pollers, Poll(p)
  PROVE  SurgeBound'
<1>1. CASE Smooth(p)
  <2> DEFINE o == draft[p].observed
             y == predicted[p]
  <2> SUFFICES ASSUME Mode = "max", Factor > 0, ewma'.capped
               PROVE  ewma'.value <= Factor * ewma'.peak
    BY DEF SurgeBound
  <2>1. o \in Nat /\ y \in Nat /\ ewma.value \in Nat /\ ewma.peak \in Nat
    BY ConstantsAssumption DEF TypeOK, Decisions, Demands, Forecasts
  <2>2. /\ ewma'.peak = IF Stale(p) THEN o ELSE Greater(ewma.peak, o)
        /\ o > 0 /\ (Stale(p) \/ ewma.capped)
    <3> DEFINE pk == IF Stale(p) THEN o ELSE Greater(ewma.peak, o)
               cc == o > 0 /\ (Stale(p) \/ ewma.capped)
               v == ewma'.value
    <3>1. ewma' = [seeded |-> TRUE, value |-> v, updated |-> lag[p], since |-> 0,
                   peak |-> pk, capped |-> cc]
      BY <1>1, SmoothResult
    <3> HIDE DEF pk, cc, v
    <3>2. ewma'.peak = pk
      BY <3>1
    <3>3. ewma'.capped = cc
      BY <3>1, Zenon
    <3>4. cc
      BY <3>3, Zenon
    <3> QED
      BY <3>2, <3>4 DEF pk, cc
  <2>3. y <= Factor * o
    BY <1>1, <2>2 DEF CappedFirst, Smooth
  <2>4. CASE Stale(p)
    BY <1>1, <2>2, <2>3, <2>4, SmoothResult
  <2>5. CASE ~Stale(p)
    <3>1. ewma.value <= Factor * ewma.peak
      BY <2>2, <2>5 DEF SurgeBound
    <3>2. ewma'.value <= Greater(ewma.value, y) /\ ewma'.value \in Nat
      <4>1. ewma'.value \in Blends(ewma.value, y) /\ ewma'.value \in Forecasts
        BY <1>1, <2>5, SmoothResult
      <4>2. ewma.value \in Forecasts /\ y \in Forecasts
        BY DEF TypeOK
      <4> QED
        BY <4>1, <4>2, BlendsBounds, ConstantsAssumption DEF Forecasts
    <3>3. Greater(ewma.peak, o) \in Nat /\ ewma.peak <= Greater(ewma.peak, o) /\ o <= Greater(ewma.peak, o)
      BY <2>1 DEF Greater
    <3> DEFINE a == Factor * ewma.peak
               b == Factor * o
               c == Factor * Greater(ewma.peak, o)
    <3>4. a \in Nat /\ b \in Nat /\ c \in Nat /\ a <= c /\ b <= c
      BY <2>1, <3>3, Caps
    <3>5. ewma.value <= a /\ y <= b
      BY <2>3, <3>1
    <3>6. ewma'.peak = Greater(ewma.peak, o)
      BY <2>2, <2>5
    <3> HIDE DEF a, b, c
    <3>7. ewma'.value <= c
      BY <2>1, <3>2, <3>4, <3>5 DEF Greater
    <3> QED
      BY <3>6, <3>7 DEF c
  <2> QED
    BY <2>4, <2>5
<1>2. CASE ~Smooth(p)
  <2>1. ewma' = ewma
    BY <1>2 DEF Poll, Begin, Hit, Miss, Raise, History, Refuse, Accept, Store
  <2> QED
    BY <2>1 DEF SurgeBound
<1> QED
  BY <1>1, <1>2

LEMMA UpdatedBeforePoll ==
  ASSUME TypeOK, UpdatedBefore, NEW p \in Pollers, Poll(p)
  PROVE  UpdatedBefore'
<1>1. CASE Smooth(p)
  <2>1. ewma'.updated = lag[p] /\ ewma'.since = 0
    BY <1>1, SmoothResult
  <2>2. lag[p] \in Nat
    BY DEF TypeOK
  <2> QED
    BY <2>1, <2>2 DEF UpdatedBefore
<1>2. CASE ~Smooth(p)
  <2>1. ewma' = ewma
    BY <1>2 DEF Poll, Begin, Hit, Miss, Raise, History, Refuse, Accept, Store
  <2> QED
    BY <2>1 DEF UpdatedBefore
<1> QED
  BY <1>1, <1>2

\* Time keeps it: ages and what the cache has left move together.
LEMMA InvTick ==
  ASSUME EngineInv, Tick
  PROVE  EngineInv'
<1>1. TypeOK /\ TypeOK'
  BY TypeTick DEF EngineInv
<1>2. LooksSoon'
  <2> SUFFICES ASSUME NEW p \in Pollers
               PROVE  /\ pc'[p] = "idle" => began'[p] = 0
                      /\ pc'[p] = "looking" => began'[p] <= Lag
    BY DEF LooksSoon
  <2>1. /\ began[p] \in Nat
        /\ pc[p] = "looking" => began[p] < Lag
        /\ pc' = pc
        /\ began'[p] = IF pc[p] = "idle" THEN 0 ELSE began[p] + 1
    BY <1>1 DEF Tick, TypeOK
  <2> QED
    BY <2>1, ConstantsAssumption
<1>3. CacheAges'
  <2>1. cache'.left = Greater(cache.left - 1, -Lag) /\ cache'.age = Lesser(cache.age + 1, Expired)
    BY <1>1 DEF Tick, TypeOK
  <2>2. cache.left \in -Lag..CacheSeconds /\ cache.age \in 0..Expired
    BY <1>1 DEF TypeOK
  <2> QED
    BY <2>1, <2>2, ConstantsAssumption DEF EngineInv, CacheAges, Greater, Lesser, Expired
<1>4. Floored'
  <2>1. cache'.decision = cache.decision /\ draft' = draft
    BY <1>1 DEF Tick, TypeOK
  <2> QED
    BY <2>1 DEF EngineInv, Floored
<1>5. CappedFirst'
  BY DEF EngineInv, CappedFirst, Tick
<1>6. SurgeBound'
  <2>1. ewma'.value = ewma.value /\ ewma'.peak = ewma.peak /\ ewma'.capped = ewma.capped
    BY <1>1 DEF Tick, TypeOK
  <2> QED
    BY <2>1 DEF EngineInv, SurgeBound
<1>7. UpdatedBefore'
  <2>1. CASE ewma.seeded
    <3>1. /\ ewma'.updated = Lesser(ewma.updated + 1, Forgotten)
          /\ ewma'.since = Lesser(ewma.since + 1, Forgotten)
      BY <1>1, <2>1 DEF Tick, TypeOK
    <3>2. ewma.updated \in 0..Forgotten /\ ewma.since \in 0..Forgotten /\ ewma.updated >= ewma.since
      BY <1>1 DEF TypeOK, EngineInv, UpdatedBefore
    <3> QED
      BY <3>1, <3>2, ConstantsAssumption DEF UpdatedBefore, Lesser, Forgotten
  <2>2. CASE ~ewma.seeded
    BY <2>2 DEF Tick, EngineInv, UpdatedBefore
  <2> QED
    BY <2>1, <2>2
<1> QED
  BY <1>1, <1>2, <1>3, <1>4, <1>5, <1>6, <1>7 DEF EngineInv

LEMMA InvStep ==
  ASSUME EngineInv, [Next]_vars
  PROVE  EngineInv'
<1>1. TypeOK'
  BY TypeStep DEF EngineInv
<1>2. ASSUME NEW p \in Pollers, Poll(p) PROVE EngineInv'
  BY <1>1, <1>2, LooksSoonPoll, CacheAgesPoll, FlooredPoll, CappedFirstPoll,
     SurgeBoundPoll, UpdatedBeforePoll
  DEF EngineInv
<1>3. CASE Tick
  BY <1>3, InvTick
<1>4. CASE DemandChange \/ UNCHANGED vars
  <2>1. UNCHANGED <<pc, began, draft, predicted, lag, cache, ewma>>
    BY <1>4 DEF DemandChange, vars
  <2>2. SurgeBound'
    BY <2>1 DEF EngineInv, SurgeBound
  <2> QED
    BY <1>1, <2>1, <2>2
    DEF EngineInv, LooksSoon, CacheAges, Floored, CappedFirst, UpdatedBefore
<1> QED
  BY <1>2, <1>3, <1>4 DEF Next

LEMMA InvAlways == Spec => []EngineInv
<1>1. Init => EngineInv
  BY InvInit
<1>2. EngineInv /\ [Next]_vars => EngineInv'
  BY InvStep
<1> QED
  BY <1>1, <1>2, PTL DEF Spec

-----------------------------------------------------------------------------
(***************************************************************************)
(* The theorems.                                                           *)
(***************************************************************************)

\* In mode max no answer is below the demand it was made at, and the cache gives
\* none that began CacheSeconds and a wait for the lock ago: whatever polls
\* overlap, in whatever order they store.
THEOREM AnswersCoverDemand == Spec => []CoversDemand
<1>1. EngineInv => CoversDemand
  <2> SUFFICES ASSUME EngineInv PROVE CoversDemand
    OBVIOUS
  <2>1. Mode = "max" => \A d \in Cached \cup Computed : d.value >= d.observed
    BY DEF EngineInv, Floored, Cached, Computed
  <2>2. ASSUME Cached # {} PROVE cache.age < CacheSeconds + Lag
    <3>1. PICK p \in Pollers : pc[p] = "looking" /\ Valid(p)
      BY <2>2 DEF Cached
    <3>2. began[p] \in Nat /\ began[p] <= Lag
      BY <3>1 DEF EngineInv, LooksSoon, TypeOK
    <3>3. cache.left \in -Lag..CacheSeconds /\ cache.age \in 0..Expired
      BY DEF EngineInv, TypeOK
    <3> QED
      BY <3>1, <3>2, <3>3, ConstantsAssumption DEF EngineInv, CacheAges, Valid
  <2> QED
    BY <2>1, <2>2 DEF CoversDemand
<1> QED
  BY <1>1, InvAlways, PTL

\* The EWMA is bounded by Factor times the largest demand behind it.
THEOREM SurgesAreBounded == Spec => []SurgeBound
<1>1. EngineInv => SurgeBound
  BY DEF EngineInv
<1> QED
  BY <1>1, InvAlways, PTL

\* A state last updated more than MaxAge and a wait for the lock ago is replaced
\* by the next forecast.
THEOREM StaleStateIsReplaced == Spec => StaleNeverDamps
<1>1. ASSUME EngineInv, [Next]_vars
      PROVE  [\A p \in Pollers :
                pc[p] = "smoothing" /\ pc'[p] # "smoothing" /\ MaxAge > 0 /\ ewma.since > MaxAge + Lag
                  => ewma'.value = predicted[p]]_vars
  <2> SUFFICES ASSUME NEW p \in Pollers, pc[p] = "smoothing", pc'[p] # "smoothing",
                      MaxAge > 0, ewma.since > MaxAge + Lag
               PROVE  ewma'.value = predicted[p]
    OBVIOUS
  <2>1. TypeOK
    BY <1>1 DEF EngineInv
  <2>2. Smooth(p)
    <3>1. ~(Tick \/ DemandChange \/ UNCHANGED vars)
      BY DEF Tick, DemandChange, vars
    <3>2. PICK q \in Pollers : Poll(q)
      BY <1>1, <3>1 DEF Next
    <3>3. q = p
      BY <2>1, <3>2 DEF Poll, Begin, Hit, Miss, Raise, History, Refuse, Accept, Smooth, Store,
                 Return, GoTo, TypeOK
    <3> QED
      BY <3>2, <3>3 DEF Poll, Begin, Hit, Miss, Raise, History, Refuse, Accept, Store
  <2>3. Stale(p)
    <3>1. ewma.updated \in Nat /\ ewma.since \in Nat /\ lag[p] \in 0..Lag /\ ewma.updated >= ewma.since
      BY <2>1, <1>1 DEF TypeOK, EngineInv, UpdatedBefore
    <3> QED
      BY <3>1, ConstantsAssumption DEF Stale
  <2> QED
    BY <2>1, <2>2, <2>3, SmoothResult
<1> QED
  BY <1>1, InvAlways, PTL DEF Spec, StaleNeverDamps

-----------------------------------------------------------------------------
(***************************************************************************)
(* The process around the decisions (Scaler).                              *)
(***************************************************************************)
\* What the updates of a call leave.
LEMMA CallTypes ==
  /\ Off \in CallType
  /\ \A n \in Nat : [Off EXCEPT !.pc = "queued", !.config = n] \in CallType
  /\ \A r \in CallType :
       /\ \A p \in Places : [r EXCEPT !.pc = p] \in CallType
       /\ \A p \in Places, n \in Nat : [r EXCEPT !.pc = p, !.answer = n] \in CallType
       /\ \A p \in Places, d \in Dictionary : [r EXCEPT !.pc = p, !.copy = d] \in CallType
       /\ [r EXCEPT !.gone = TRUE] \in CallType
<1>1. Off \in CallType
  BY DEF Off, CallType, Places, Dictionary
<1>2. \A n \in Nat : [Off EXCEPT !.pc = "queued", !.config = n] \in CallType
  BY DEF Off, CallType, Places, Dictionary
<1>3. ASSUME NEW r \in CallType
      PROVE  /\ \A p \in Places : [r EXCEPT !.pc = p] \in CallType
             /\ \A p \in Places, n \in Nat : [r EXCEPT !.pc = p, !.answer = n] \in CallType
             /\ \A p \in Places, d \in Dictionary : [r EXCEPT !.pc = p, !.copy = d] \in CallType
             /\ [r EXCEPT !.gone = TRUE] \in CallType
  <2>1. \A p \in Places : [r EXCEPT !.pc = p] \in CallType  BY DEF CallType
  <2>2. \A p \in Places, n \in Nat : [r EXCEPT !.pc = p, !.answer = n] \in CallType
    BY DEF CallType
  <2>3. \A p \in Places, d \in Dictionary : [r EXCEPT !.pc = p, !.copy = d] \in CallType
    BY DEF CallType
  <2>4. [r EXCEPT !.gone = TRUE] \in CallType  BY DEF CallType
  <2> QED BY <2>1, <2>2, <2>3, <2>4
<1> QED BY <1>1, <1>2, <1>3

\* Over, Go and Returns change one call.
LEMMA MovesTyped ==
  ASSUME NEW c \in Calls, call \in [Calls -> CallType]
  PROVE  /\ Over(c) => call' \in [Calls -> CallType]
         /\ \A p \in Places : Go(c, p) => call' \in [Calls -> CallType]
         /\ Returns(c) => call' \in [Calls -> CallType]
<1>1. Over(c) => call' \in [Calls -> CallType]
  BY CallTypes DEF Over
<1>2. ASSUME NEW p \in Places, Go(c, p) PROVE call' \in [Calls -> CallType]
  <2>1. call' = [call EXCEPT ![c] = [call[c] EXCEPT !.pc = p]]  BY <1>2 DEF Go
  <2>2. [call[c] EXCEPT !.pc = p] \in CallType  BY CallTypes
  <2> QED BY <2>1, <2>2
<1> QED BY <1>1, <1>2 DEF Returns, Places

LEMMA ScalerTypeInit == ScalerInit => ScalerTypeOK
<1> SUFFICES ASSUME ScalerInit PROVE ScalerTypeOK
  OBVIOUS
<1>1. call \in [Calls -> CallType]  BY CallTypes DEF ScalerInit
<1>2. breakers \in Dictionary /\ services \in Dictionary  BY DEF ScalerInit, Dictionary
<1>3. queue \in Seq(Calls)
  <2>1. queue = <<>>  BY DEF ScalerInit
  <2> QED BY <2>1
<1>4. config \in [Keys -> Nat \ {0}] /\ envelope \in [Keys -> Nat \ {0}]
  BY DEF ScalerInit
<1>5. capacity \in [Keys -> [config : Nat, envelope : Nat]]  BY DEF ScalerInit, NoRef
<1> QED BY <1>1, <1>2, <1>3, <1>4, <1>5 DEF ScalerTypeOK

\* The steps of KEDA and the workloads.
LEMMA TypeWorld ==
  ASSUME ScalerTypeOK,
         \/ \E k \in Keys : Reconfigure(k) \/ Resize(k)
         \/ \E c \in Calls : Call(c) \/ Disconnect(c)
  PROVE  ScalerTypeOK'
<1>1. ASSUME NEW k \in Keys, Reconfigure(k) PROVE ScalerTypeOK'
  <2>1. config' \in [Keys -> Nat \ {0}]  BY <1>1 DEF Reconfigure, ScalerTypeOK
  <2>2. call' \in [Calls -> CallType]  BY <1>1, CallTypes DEF Reconfigure, ScalerTypeOK
  <2> QED BY <1>1, <2>1, <2>2 DEF Reconfigure, ScalerTypeOK, shared
<1>2. ASSUME NEW k \in Keys, Resize(k) PROVE ScalerTypeOK'
  <2>1. envelope' \in [Keys -> Nat \ {0}]  BY <1>2 DEF Resize, ScalerTypeOK
  <2> QED BY <1>2, <2>1 DEF Resize, ScalerTypeOK, shared
<1>3. ASSUME NEW c \in Calls, Call(c) PROVE ScalerTypeOK'
  <2>1. config[KeyOf[c]] \in Nat  BY ScalerAssumption DEF ScalerTypeOK
  <2>2. [Off EXCEPT !.pc = "queued", !.config = config[KeyOf[c]]] \in CallType
    BY <2>1, CallTypes
  <2>3. call' \in [Calls -> CallType]  BY <1>3, <2>2 DEF Call, ScalerTypeOK
  <2>4. queue' = Append(queue, c) /\ queue \in Seq(Calls)  BY <1>3 DEF Call, ScalerTypeOK
  <2>5. queue' \in Seq(Calls)  BY <2>4
  <2> QED BY <1>3, <2>3, <2>5 DEF Call, ScalerTypeOK, shared, world
<1>4. ASSUME NEW c \in Calls, Disconnect(c) PROVE ScalerTypeOK'
  <2>1. call' = [call EXCEPT ![c] = [call[c] EXCEPT !.gone = TRUE]]  BY <1>4 DEF Disconnect
  <2>2. [call[c] EXCEPT !.gone = TRUE] \in CallType  BY CallTypes DEF ScalerTypeOK
  <2>3. call' \in [Calls -> CallType]  BY <2>1, <2>2 DEF ScalerTypeOK
  <2> QED BY <1>4, <2>3 DEF Disconnect, ScalerTypeOK, shared, world
<1> QED BY <1>1, <1>2, <1>3, <1>4

\* The steps of a thread.
LEMMA TypeWork ==
  ASSUME ScalerTypeOK, NEW c \in Calls, Start(c) \/ AnswerAtOnce(c) \/ Work(c)
  PROVE  ScalerTypeOK'
<1>1. /\ KeyOf[c] \in Keys /\ call \in [Calls -> CallType] /\ call[c] \in CallType
      /\ call[c].config \in Nat /\ call[c].answer \in Nat /\ call[c].copy \in Dictionary
  <2>1. KeyOf[c] \in Keys  BY ScalerAssumption
  <2>2. call \in [Calls -> CallType] /\ call[c] \in CallType  BY DEF ScalerTypeOK
  <2>3. call[c].config \in Nat /\ call[c].answer \in Nat /\ call[c].copy \in Dictionary
    BY <2>2 DEF CallType
  <2> QED BY <2>1, <2>2, <2>3
<1>2. {Entry(c)} \in Dictionary
  BY <1>1 DEF Entry, Dictionary
<1>3. \A p \in {"fetching", "asking", "storing", "breaker", "copied", "assigned", "found"} :
        p \in Places
  BY DEF Places
<1>4. CASE Start(c) \/ AnswerAtOnce(c)
  <2>1. call' \in [Calls -> CallType]
    BY <1>1, <1>3, <1>4, MovesTyped DEF Start, AnswerAtOnce
  <2>2. queue # <<>> /\ queue' = Tail(queue) /\ queue \in Seq(Calls)
    BY <1>4 DEF Start, AnswerAtOnce, Taken, ScalerTypeOK
  <2>3. queue' \in Seq(Calls)  BY <2>2
  <2> QED BY <1>4, <2>1, <2>3 DEF Start, AnswerAtOnce, Taken, ScalerTypeOK, shared, world
<1>5. CASE DecisionCached(c) \/ CapacityHit(c) \/ CapacityMiss(c) \/ Fallback(c)
           \/ CopyFails(c) \/ Lost(c) \/ Wake(c)
  <2>1. call' \in [Calls -> CallType]
    BY <1>1, <1>3, <1>5, MovesTyped
    DEF DecisionCached, CapacityHit, CapacityMiss, Fallback, CopyFails, Lost, Wake
  <2> QED BY <1>5, <2>1 DEF DecisionCached, CapacityHit, CapacityMiss, Fallback, CopyFails,
        Lost, Wake, ScalerTypeOK, shared, world
<1>6. CASE Ask(c)
  <2>1. envelope[KeyOf[c]] \in Nat  BY <1>1 DEF ScalerTypeOK
  <2>2. [call[c] EXCEPT !.pc = "storing", !.answer = envelope[KeyOf[c]]] \in CallType
    BY <1>1, <1>3, <2>1, CallTypes
  <2>3. call' = [call EXCEPT ![c] = [call[c] EXCEPT !.pc = "storing", !.answer = envelope[KeyOf[c]]]]
    BY <1>1, <1>6 DEF Ask
  <2>4. call' \in [Calls -> CallType]  BY <1>1, <2>2, <2>3
  <2> QED BY <1>6, <2>4 DEF Ask, ScalerTypeOK, shared, world
<1>7. CASE CapacityStore(c)
  <2>1. [call[c] EXCEPT !.pc = "breaker", !.answer = 0] \in CallType
    BY <1>1, <1>3, CallTypes
  <2>2. call' = [call EXCEPT ![c] = [call[c] EXCEPT !.pc = "breaker", !.answer = 0]]
    BY <1>1, <1>7 DEF CapacityStore
  <2>3. call' \in [Calls -> CallType]  BY <1>1, <2>1, <2>2
  <2>4. capacity' \in [Keys -> [config : Nat, envelope : Nat]]
    BY <1>1, <1>7 DEF CapacityStore, ScalerTypeOK
  <2> QED BY <1>7, <2>3, <2>4 DEF CapacityStore, ScalerTypeOK, world
<1>8. CASE Look(c)
  <2>1. Others(breakers, c) \in Dictionary  BY DEF ScalerTypeOK, Others, Dictionary
  <2>2. [call[c] EXCEPT !.pc = "copied", !.copy = Others(breakers, c)] \in CallType
    BY <1>1, <1>3, <2>1, CallTypes
  <2>3. CASE Entry(c) \in breakers
    <3>1. call' \in [Calls -> CallType]  BY <1>1, <1>3, <1>8, <2>3, MovesTyped DEF Look
    <3> QED BY <1>8, <3>1 DEF Look, ScalerTypeOK, shared, world
  <2>4. CASE Entry(c) \notin breakers
    <3>1. call' = [call EXCEPT ![c] = [call[c] EXCEPT !.pc = "copied",
                                                      !.copy = Others(breakers, c)]]
      BY <1>1, <1>8, <2>4 DEF Look
    <3>2. call' \in [Calls -> CallType]  BY <1>1, <2>2, <3>1
    <3> QED BY <1>8, <3>2 DEF Look, ScalerTypeOK, shared, world
  <2> QED BY <2>3, <2>4
<1>9. CASE Assign(c)
  <2>1. {} \in Dictionary  BY DEF Dictionary
  <2>2. [call[c] EXCEPT !.pc = "assigned", !.copy = {}] \in CallType
    BY <1>1, <1>3, <2>1, CallTypes
  <2>3. call' = [call EXCEPT ![c] = [call[c] EXCEPT !.pc = "assigned", !.copy = {}]]
    BY <1>1, <1>9 DEF Assign
  <2>4. call' \in [Calls -> CallType]  BY <1>1, <2>2, <2>3
  <2> QED BY <1>1, <1>9, <2>4 DEF Assign, ScalerTypeOK, world
<1>10. CASE Insert(c)
  <2>1. call' \in [Calls -> CallType]  BY <1>1, <1>3, <1>10, MovesTyped DEF Insert
  <2>2. breakers' \in Dictionary  BY <1>2, <1>10 DEF Insert, ScalerTypeOK, Dictionary
  <2> QED BY <1>10, <2>1, <2>2 DEF Insert, ScalerTypeOK, world
<1>11. CASE Answer(c)
  <2>1. call' \in [Calls -> CallType]  BY <1>1, <1>11, MovesTyped DEF Answer
  <2>2. Rebuilt(c) \in Dictionary  BY <1>2 DEF ScalerTypeOK, Rebuilt, Others, Dictionary
  <2>3. services' \in Dictionary  BY <1>11, <2>2 DEF Answer, ScalerTypeOK
  <2> QED BY <1>11, <2>1, <2>3 DEF Answer, ScalerTypeOK, world
<1> QED
  BY <1>4, <1>5, <1>6, <1>7, <1>8, <1>9, <1>10, <1>11 DEF Work

LEMMA ScalerTypeStep == ScalerTypeOK /\ [ScalerNext]_scalerVars => ScalerTypeOK'
BY TypeWorld, TypeWork DEF ScalerNext, scalerVars, ScalerTypeOK

\* Every variable keeps to its type, however many calls and ScaledObjects there are.
THEOREM ScalerTypeCorrect == ScalerSpec => []ScalerTypeOK
BY ScalerTypeInit, ScalerTypeStep, PTL DEF ScalerSpec

\* _service_breaker(): see ServiceKept.
THEOREM ServicesAreKept == ScalerSpec => ServiceKept
<1>1. ASSUME [ScalerNext]_scalerVars, NEW b \in services \ services'
      PROVE  \E d \in services' \ services : d[1] = b[1] /\ d # b
  <2>1. PICK c \in Calls : Answer(c)
    BY <1>1 DEF ScalerNext, scalerVars, Reconfigure, Resize, Call, Disconnect, Start, Taken,
       AnswerAtOnce, Work, DecisionCached, CapacityHit, CapacityMiss, Ask, Fallback, CapacityStore,
       Look, CopyFails, Assign, Insert, Lost, Wake, shared
  <2>2. services' = Rebuilt(c) /\ Entry(c) \notin services
    BY <1>1, <2>1 DEF Answer
  <2>3. b[1] = KeyOf[c] /\ b # Entry(c)
    BY <1>1, <2>2 DEF Rebuilt, Others
  <2> QED BY <2>2, <2>3 DEF Rebuilt, Entry
<1>2. [ScalerNext]_scalerVars =>
        [\A b \in services \ services' :
           \E d \in services' \ services : d[1] = b[1] /\ d # b]_scalerVars
  BY <1>1
<1> QED BY <1>2, PTL DEF ScalerSpec, ServiceKept

\* One breaker per ScaledObject in the dictionary that has a lock.
OneServiceBreaker == \A d, e \in services : d[1] = e[1] => d = e

THEOREM ServiceBreakersAreSingle == ScalerSpec => []OneServiceBreaker
<1>1. ScalerInit => OneServiceBreaker
  BY DEF ScalerInit, OneServiceBreaker
<1>2. ASSUME OneServiceBreaker, [ScalerNext]_scalerVars PROVE OneServiceBreaker'
  <2>1. CASE UNCHANGED services
    BY <1>2, <2>1 DEF OneServiceBreaker
  <2>2. CASE \E c \in Calls : services' = Rebuilt(c)
    BY <1>2, <2>2 DEF OneServiceBreaker, Rebuilt, Others, Entry
  <2> QED
    BY <1>2, <2>1, <2>2 DEF ScalerNext, scalerVars, Reconfigure, Resize, Call, Disconnect, Start,
       Taken, AnswerAtOnce, Work, DecisionCached, CapacityHit, CapacityMiss, Ask, Fallback,
       CapacityStore, Look, CopyFails, Assign, Insert, Lost, Wake, Answer, shared
<1> QED BY <1>1, <1>2, PTL DEF ScalerSpec

(***************************************************************************)
(* The pool.  A call that waits has one place in the queue; no more calls  *)
(* are under way than there are threads, and no more streams open than     *)
(* KEDA has; and a stream that is open asks with the configuration of now. *)
(***************************************************************************)
InLine ==
  /\ \A i \in DOMAIN queue : call[queue[i]].pc = "queued"
  /\ \A i, j \in DOMAIN queue : queue[i] = queue[j] => i = j
  /\ \A c \in Calls : call[c].pc = "queued" => \E i \in DOMAIN queue : queue[i] = c

PoolInv ==
  /\ Cardinality(Busy) <= Workers
  /\ Cardinality(Open) <= MaxStreams
  /\ \A c \in Open : call[c].config = config[KeyOf[c]]

\* Sets of calls: what one call more makes of their number.
LEMMA CallsCounted ==
  ASSUME NEW S \in SUBSET Calls, NEW T, NEW c
  PROVE  /\ Cardinality(S) \in Nat
         /\ T \subseteq S => Cardinality(T) <= Cardinality(S)
         /\ T \subseteq S \cup {c} => Cardinality(T) <= Cardinality(S) + 1
<1>1. IsFiniteSet(S)
  BY ScalerAssumption, FS_Subset
<1>2. Cardinality(S) \in Nat
  BY <1>1, FS_CardinalityType
<1>3. ASSUME T \subseteq S PROVE Cardinality(T) <= Cardinality(S)
  BY <1>1, <1>3, FS_Subset
<1>4. ASSUME T \subseteq S \cup {c} PROVE Cardinality(T) <= Cardinality(S) + 1
  <2>1. IsFiniteSet(S \cup {c}) /\ Cardinality(S \cup {c}) <= Cardinality(S) + 1
    <3>1. CASE c \in S
      BY <1>1, <1>2, <3>1, FS_AddElement
    <3>2. CASE c \notin S
      BY <1>1, <1>2, <3>2, FS_AddElement
    <3> QED BY <3>1, <3>2
  <2>2. Cardinality(T) <= Cardinality(S \cup {c}) /\ IsFiniteSet(T)
    BY <1>4, <2>1, FS_Subset
  <2>3. Cardinality(T) \in Nat /\ Cardinality(S \cup {c}) \in Nat
    BY <2>1, <2>2, FS_CardinalityType
  <2> QED BY <1>2, <2>1, <2>2, <2>3
<1> QED BY <1>2, <1>3, <1>4

LEMMA PoolInit == ScalerInit => InLine /\ PoolInv
<1> SUFFICES ASSUME ScalerInit PROVE InLine /\ PoolInv
  OBVIOUS
<1>1. Busy = {} /\ Open = {}
  BY ScalerAssumption DEF ScalerInit, Busy, Open, Off
<1>2. Cardinality({}) = 0
  BY FS_EmptySet
<1>3. queue = <<>> /\ \A c \in Calls : call[c].pc = "off"
  BY DEF ScalerInit, Off
<1> QED
  BY <1>1, <1>2, <1>3, ScalerAssumption DEF InLine, PoolInv

\* What a thread does to its call: it stays among those under way, as it was opened,
\* or it ends.
Serves(c) ==
  /\ \A d \in Calls \ {c} : call'[d] = call[d]
  /\ call'[c].pc # "queued"
  /\ call'[c].pc = "off" \/ (call'[c].gone = call[c].gone /\ call'[c].config = call[c].config)
  /\ config' = config

LEMMA MovesServe ==
  ASSUME NEW c \in Calls, call \in [Calls -> CallType], UNCHANGED config,
         Over(c) \/ Returns(c) \/ \E p \in Places \ {"queued"} : Go(c, p)
  PROVE  Serves(c)
<1>1. CASE Over(c)
  BY <1>1 DEF Over, Off, Serves
<1>2. ASSUME NEW p \in Places \ {"queued"}, Go(c, p) PROVE Serves(c)
  BY <1>2 DEF Go, Serves, CallType
<1>3. "sleeping" \in Places \ {"queued"}
  BY DEF Places
<1> QED
  BY <1>1, <1>2, <1>3 DEF Returns

LEMMA ThreadsServe ==
  ASSUME ScalerTypeOK, NEW c \in Calls
  PROVE  /\ Start(c) \/ AnswerAtOnce(c) => Serves(c)
         /\ Work(c) => Serves(c) /\ call[c].pc \notin {"off", "queued"} /\ queue' = queue
<1>1. call \in [Calls -> CallType]
  BY DEF ScalerTypeOK
<1>2. \A p \in {"fetching", "asking", "breaker", "found"} : p \in Places \ {"queued"}
  BY DEF Places
<1>3. Start(c) \/ AnswerAtOnce(c) => Serves(c)
  BY <1>1, <1>2, MovesServe DEF Start, AnswerAtOnce, Taken, world
<1>4. ASSUME Work(c) PROVE call[c].pc \notin {"off", "queued"} /\ queue' = queue /\ config' = config
  BY <1>4 DEF Work, DecisionCached, CapacityHit, CapacityMiss, Ask, Fallback, CapacityStore,
     Look, CopyFails, Assign, Insert, Lost, Wake, Answer, world
<1>5. ASSUME Work(c) PROVE Serves(c)
  <2>1. CASE Ask(c) \/ CapacityStore(c) \/ Assign(c)
    BY <1>1, <1>4, <1>5, <2>1 DEF Ask, CapacityStore, Assign, Serves, CallType
  <2>2. CASE Look(c)
    <3>1. CASE Entry(c) \in breakers
      BY <1>1, <1>2, <1>4, <1>5, <2>2, <3>1, MovesServe DEF Look
    <3>2. CASE Entry(c) \notin breakers
      BY <1>1, <1>4, <1>5, <2>2, <3>2 DEF Look, Serves, CallType
    <3> QED BY <3>1, <3>2
  <2>3. CASE \/ DecisionCached(c) \/ CapacityHit(c) \/ CapacityMiss(c) \/ Fallback(c)
             \/ CopyFails(c) \/ Insert(c) \/ Lost(c) \/ Wake(c) \/ Answer(c)
    BY <1>1, <1>2, <1>4, <1>5, <2>3, MovesServe
    DEF DecisionCached, CapacityHit, CapacityMiss, Fallback, CopyFails, Insert, Lost, Wake, Answer
  <2> QED BY <1>5, <2>1, <2>2, <2>3 DEF Work
<1> QED BY <1>3, <1>4, <1>5

LEMMA HeadWaits ==
  ASSUME ScalerTypeOK, InLine, NEW c \in Calls, Start(c) \/ AnswerAtOnce(c)
  PROVE  call[c].pc = "queued"
<1>1. queue \in Seq(Calls) /\ queue # <<>> /\ c = Head(queue)
  BY DEF Start, AnswerAtOnce, Taken, ScalerTypeOK
<1>2. 1 \in DOMAIN queue /\ c = queue[1]
  BY <1>1
<1> QED BY <1>2 DEF InLine

\* The numbers of calls under way and of streams open.
LEMMA PoolStep ==
  ASSUME ScalerTypeOK, InLine, PoolInv, [ScalerNext]_scalerVars
  PROVE  PoolInv'
<1>1. /\ Workers \in Nat /\ MaxStreams \in Nat
      /\ Cardinality(Busy) \in Nat /\ Cardinality(Busy) <= Workers
      /\ Cardinality(Open) \in Nat /\ Cardinality(Open) <= MaxStreams
      /\ Cardinality(Busy') \in Nat /\ Cardinality(Open') \in Nat
  <2>1. /\ Busy \in SUBSET Calls /\ Open \in SUBSET Calls
        /\ Busy' \in SUBSET Calls /\ Open' \in SUBSET Calls
    BY ScalerAssumption DEF Busy, Open
  <2> QED BY <2>1, CallsCounted, ScalerAssumption DEF PoolInv
<1>2. Busy \in SUBSET Calls /\ Open \in SUBSET Calls
  BY ScalerAssumption DEF Busy, Open
<1>3. ASSUME Busy' \subseteq Busy, Open' \subseteq Open,
             \A c \in Open' : call'[c].config = call[c].config /\ config'[KeyOf[c]] = config[KeyOf[c]]
      PROVE  PoolInv'
  <2>1. Cardinality(Busy') <= Cardinality(Busy) /\ Cardinality(Open') <= Cardinality(Open)
    BY <1>2, <1>3, CallsCounted
  <2>2. \A c \in Open' : call'[c].config = config'[KeyOf[c]]
    BY <1>3 DEF PoolInv
  <2> QED BY <1>1, <2>1, <2>2 DEF PoolInv
<1>4. ASSUME NEW c \in Calls, Serves(c), call[c].pc # "off"
      PROVE  /\ Open' \subseteq Open /\ Busy' \subseteq Busy \cup {c}
             /\ \A d \in Open' : /\ call'[d].config = call[d].config
                                 /\ config'[KeyOf[d]] = config[KeyOf[d]]
  BY <1>4, ScalerAssumption DEF Serves, Open, Busy
<1>5. ASSUME NEW k \in Keys, Reconfigure(k) PROVE PoolInv'
  <2>1. \A c \in Calls : call'[c].pc = call[c].pc /\ call'[c].config = call[c].config
    BY <1>5 DEF Reconfigure, ScalerTypeOK, CallType
  <2>2. \A c \in Open' : c \in Open /\ KeyOf[c] # k
    BY <1>5, <2>1, ScalerAssumption DEF Reconfigure, Open, ScalerTypeOK, CallType
  <2>3. Busy' \subseteq Busy  BY <2>1 DEF Busy
  <2>4. \A c \in Open' : config'[KeyOf[c]] = config[KeyOf[c]]
    BY <1>5, <2>2, ScalerAssumption DEF Reconfigure, ScalerTypeOK, Open
  <2>5. \A c \in Open' : c \in Calls  BY ScalerAssumption DEF Open
  <2> QED BY <1>3, <2>1, <2>2, <2>3, <2>4, <2>5
<1>6. ASSUME NEW c \in Calls, Call(c) PROVE PoolInv'
  <2>1. \A d \in Calls \ {c} : call'[d] = call[d]
    BY <1>6 DEF Call, ScalerTypeOK
  <2>2. call'[c] = [Off EXCEPT !.pc = "queued", !.config = config[KeyOf[c]]]
    BY <1>6 DEF Call, ScalerTypeOK
  <2>3. call'[c].pc = "queued" /\ call'[c].config = config[KeyOf[c]]
    BY <2>2 DEF Off
  <2>4. Busy' \subseteq Busy  BY <2>1, <2>3 DEF Busy
  <2>5. Cardinality(Busy') <= Cardinality(Busy)  BY <1>2, <2>4, CallsCounted
  <2>6. Open' \subseteq Open \cup {c}  BY <2>1, ScalerAssumption DEF Open
  <2>7. Cardinality(Open') <= MaxStreams
    <3>1. CASE c \in Streams
      <4>1. Cardinality(Open) < MaxStreams  BY <1>6, <3>1 DEF Call
      <4>2. Cardinality(Open') <= Cardinality(Open) + 1  BY <1>2, <2>6, CallsCounted
      <4> QED BY <1>1, <4>1, <4>2
    <3>2. CASE c \notin Streams
      <4>1. Open' \subseteq Open  BY <2>6, <3>2 DEF Open
      <4>2. Cardinality(Open') <= Cardinality(Open)  BY <1>2, <4>1, CallsCounted
      <4> QED BY <1>1, <4>2
    <3> QED BY <3>1, <3>2
  <2>8. \A d \in Open' : call'[d].config = config'[KeyOf[d]]
    <3>1. config' = config  BY <1>6 DEF Call, world
    <3> QED BY <2>1, <2>3, <2>6, <3>1, ScalerAssumption DEF PoolInv, Open
  <2> QED BY <1>1, <2>5, <2>7, <2>8 DEF PoolInv
<1>7. ASSUME NEW c \in Calls, Disconnect(c) PROVE PoolInv'
  <2>1. /\ \A d \in Calls : call'[d].pc = call[d].pc /\ call'[d].config = call[d].config
        /\ \A d \in Calls : call'[d].gone = FALSE => call[d].gone = FALSE
    BY <1>7 DEF Disconnect, ScalerTypeOK, CallType
  <2>2. Busy' \subseteq Busy  BY <2>1 DEF Busy
  <2>3. Open' \subseteq Open  BY <1>7, ScalerAssumption DEF Disconnect, Open, ScalerTypeOK, CallType
  <2>4. config' = config  BY <1>7 DEF Disconnect, world
  <2>5. \A d \in Open' : d \in Calls  BY ScalerAssumption DEF Open
  <2> QED BY <1>3, <2>1, <2>2, <2>3, <2>4, <2>5
<1>8. ASSUME NEW c \in Calls, Start(c) \/ AnswerAtOnce(c) PROVE PoolInv'
  <2>1. Serves(c) /\ call[c].pc = "queued"  BY <1>8, ThreadsServe, HeadWaits
  <2>2. /\ Open' \subseteq Open /\ Busy' \subseteq Busy \cup {c}
        /\ \A d \in Open' : call'[d].config = call[d].config /\ config'[KeyOf[d]] = config[KeyOf[d]]
    BY <1>4, <1>8, <2>1
  <2>3. Cardinality(Open') <= Cardinality(Open) /\ Cardinality(Busy') <= Cardinality(Busy) + 1
    BY <1>2, <2>2, CallsCounted
  <2>4. Cardinality(Busy) < Workers  BY <1>8 DEF Start, AnswerAtOnce, Taken
  <2>5. \A d \in Open' : call'[d].config = config'[KeyOf[d]]
    BY <2>2 DEF PoolInv
  <2> QED BY <1>1, <2>3, <2>4, <2>5 DEF PoolInv
<1>9. ASSUME NEW c \in Calls, Work(c) PROVE PoolInv'
  <2>1. Serves(c) /\ call[c].pc \notin {"off", "queued"}  BY <1>9, ThreadsServe
  <2>2. c \in Busy  BY <2>1 DEF Busy
  <2> QED BY <1>3, <1>4, <2>1, <2>2
<1>10. CASE UNCHANGED scalerVars \/ \E k \in Keys : Resize(k)
  BY <1>10 DEF scalerVars, Resize, PoolInv, Busy, Open
<1> QED
  BY <1>5, <1>6, <1>7, <1>8, <1>9, <1>10 DEF ScalerNext

\* The queue.
LEMMA QueueStep ==
  ASSUME ScalerTypeOK, InLine, [ScalerNext]_scalerVars
  PROVE  InLine'
<1>1. queue \in Seq(Calls) /\ call \in [Calls -> CallType]
  BY DEF ScalerTypeOK
<1>2. ASSUME queue' = queue, \A c \in Calls : call'[c].pc = "queued" <=> call[c].pc = "queued"
      PROVE  InLine'
  <2>1. \A i \in DOMAIN queue : queue[i] \in Calls  BY <1>1
  <2> QED BY <1>2, <2>1 DEF InLine
<1>3. ASSUME NEW k \in Keys, Reconfigure(k) \/ Resize(k) PROVE InLine'
  <2>1. queue' = queue  BY <1>3 DEF Reconfigure, Resize
  <2>2. \A c \in Calls : call'[c].pc = call[c].pc
    BY <1>1, <1>3 DEF Reconfigure, Resize, CallType
  <2> QED BY <1>2, <2>1, <2>2
<1>4. ASSUME NEW c \in Calls, Call(c) PROVE InLine'
  <2>1. /\ \A d \in Calls \ {c} : call'[d] = call[d]
        /\ call'[c].pc = "queued" /\ call[c].pc = "off"
    BY <1>1, <1>4 DEF Call, Off
  <2>2. queue' = Append(queue, c)  BY <1>4 DEF Call
  <2>3. /\ DOMAIN queue' = 1..(Len(queue) + 1) /\ DOMAIN queue = 1..Len(queue) /\ Len(queue) \in Nat
        /\ \A i \in 1..Len(queue) : queue'[i] = queue[i] /\ queue[i] \in Calls
        /\ queue'[Len(queue) + 1] = c
    BY <1>1, <2>2
  <2>4. \A i \in 1..Len(queue) : queue[i] # c  BY <2>1, <2>3 DEF InLine
  <2>5. \A i \in DOMAIN queue' : call'[queue'[i]].pc = "queued"
    BY <2>1, <2>3, <2>4 DEF InLine
  <2>6. \A i, j \in DOMAIN queue' : queue'[i] = queue'[j] => i = j
    BY <2>3, <2>4 DEF InLine
  <2>7. \A d \in Calls : call'[d].pc = "queued" => \E i \in DOMAIN queue' : queue'[i] = d
    BY <2>1, <2>3 DEF InLine
  <2> QED BY <2>5, <2>6, <2>7 DEF InLine
<1>5. ASSUME NEW c \in Calls, Disconnect(c) PROVE InLine'
  <2>1. queue' = queue  BY <1>5 DEF Disconnect
  <2>2. \A d \in Calls : call'[d].pc = call[d].pc  BY <1>1, <1>5 DEF Disconnect, CallType
  <2> QED BY <1>2, <2>1, <2>2
<1>6. ASSUME NEW c \in Calls, Start(c) \/ AnswerAtOnce(c) PROVE InLine'
  <2>1. Serves(c)  BY <1>6, ThreadsServe
  <2>2. queue # <<>> /\ c = Head(queue) /\ queue' = Tail(queue)
    BY <1>6 DEF Start, AnswerAtOnce, Taken
  <2>3. /\ DOMAIN queue = 1..Len(queue) /\ Len(queue) \in Nat \ {0} /\ c = queue[1]
        /\ DOMAIN queue' = 1..(Len(queue) - 1)
        /\ \A i \in 1..(Len(queue) - 1) : queue'[i] = queue[i + 1]
        /\ \A i \in 1..Len(queue) : queue[i] \in Calls
    BY <1>1, <2>2
  <2>4. \A i \in 2..Len(queue) : queue[i] # c  BY <2>3 DEF InLine
  <2>5. \A i \in DOMAIN queue' : call'[queue'[i]].pc = "queued"
    <3>1. SUFFICES ASSUME NEW i \in 1..(Len(queue) - 1) PROVE call'[queue'[i]].pc = "queued"
      BY <2>3
    <3>2. i + 1 \in 2..Len(queue) /\ i + 1 \in 1..Len(queue) /\ queue'[i] = queue[i + 1]
      BY <2>3
    <3>3. queue[i + 1] \in Calls \ {c} /\ call[queue[i + 1]].pc = "queued"
      BY <2>3, <2>4, <3>2 DEF InLine
    <3> QED BY <2>1, <3>2, <3>3 DEF Serves
  <2>6. \A i, j \in DOMAIN queue' : queue'[i] = queue'[j] => i = j
    <3>1. SUFFICES ASSUME NEW i \in 1..(Len(queue) - 1), NEW j \in 1..(Len(queue) - 1),
                          queue'[i] = queue'[j]
                   PROVE  i = j
      BY <2>3
    <3>2. i + 1 \in 1..Len(queue) /\ j + 1 \in 1..Len(queue) /\ queue[i + 1] = queue[j + 1]
      BY <2>3, <3>1
    <3>3. i + 1 = j + 1  BY <2>3, <3>2 DEF InLine
    <3> QED BY <3>3
  <2>7. \A d \in Calls : call'[d].pc = "queued" => \E i \in DOMAIN queue' : queue'[i] = d
    <3>1. SUFFICES ASSUME NEW d \in Calls, call'[d].pc = "queued"
                   PROVE  \E i \in DOMAIN queue' : queue'[i] = d
      OBVIOUS
    <3>2. d # c /\ call[d].pc = "queued"  BY <2>1, <3>1 DEF Serves
    <3>3. PICK i \in 1..Len(queue) : queue[i] = d  BY <2>3, <3>2 DEF InLine
    <3>4. i # 1 /\ i - 1 \in 1..(Len(queue) - 1) /\ queue'[i - 1] = d
      BY <2>3, <3>2, <3>3
    <3> QED BY <2>3, <3>4
  <2> QED BY <2>5, <2>6, <2>7 DEF InLine
<1>7. ASSUME NEW c \in Calls, Work(c) PROVE InLine'
  <2>1. Serves(c) /\ call[c].pc \notin {"off", "queued"} /\ queue' = queue
    BY <1>7, ThreadsServe
  <2>2. \A d \in Calls : call'[d].pc = "queued" <=> call[d].pc = "queued"
    BY <2>1 DEF Serves
  <2> QED BY <1>2, <2>1, <2>2
<1>8. CASE UNCHANGED scalerVars
  BY <1>2, <1>8 DEF scalerVars
<1> QED
  BY <1>3, <1>4, <1>5, <1>6, <1>7, <1>8 DEF ScalerNext

LEMMA PoolAlways == ScalerSpec => [](ScalerTypeOK /\ InLine /\ PoolInv)
<1>1. ScalerInit => ScalerTypeOK /\ InLine /\ PoolInv
  BY ScalerTypeInit, PoolInit
<1>2. ScalerTypeOK /\ InLine /\ PoolInv /\ [ScalerNext]_scalerVars
        => (ScalerTypeOK /\ InLine /\ PoolInv)'
  BY ScalerTypeStep, QueueStep, PoolStep
<1> QED BY <1>1, <1>2, PTL DEF ScalerSpec

\* build_server() and StreamIsActive(): a call that waits is in the queue, and with
\* more threads than KEDA has streams open, threads that are all busy are not all in
\* streams that go on: at least one of them serves a call that ends, so that the pool
\* is never locked by streams.
NeverLocked ==
  /\ \A c \in Calls : call[c].pc = "queued" => \E i \in DOMAIN queue : queue[i] = c
  /\ Cardinality(Busy) <= Workers
  /\ Workers > MaxStreams /\ Cardinality(Busy) = Workers =>
       \E c \in Busy : c \notin Streams \/ call[c].gone

THEOREM PoolIsNeverLocked == ScalerSpec => []NeverLocked
<1>1. ASSUME ScalerTypeOK, InLine, PoolInv PROVE NeverLocked
  <2>1. ASSUME Workers > MaxStreams, Cardinality(Busy) = Workers,
               \A c \in Busy : c \in Streams /\ ~call[c].gone
        PROVE  FALSE
    <3>1. Busy \subseteq Open  BY <2>1 DEF Busy, Open
    <3>2. Open \in SUBSET Calls  BY ScalerAssumption DEF Open
    <3>3. Cardinality(Busy) <= Cardinality(Open) /\ Cardinality(Open) \in Nat
      BY <3>1, <3>2, CallsCounted
    <3> QED BY <1>1, <2>1, <3>3, ScalerAssumption DEF PoolInv
  <2> QED BY <1>1, <2>1 DEF NeverLocked, InLine, PoolInv
<1> QED BY <1>1, PoolAlways, PTL

\* StreamIsActive(): a stream that KEDA has open asks with the configuration its
\* ScaledObject has now.
StreamsAreUpToDate == \A c \in Open : call[c].config = config[KeyOf[c]]

THEOREM StreamsFollowConfig == ScalerSpec => []StreamsAreUpToDate
<1>1. PoolInv => StreamsAreUpToDate
  BY DEF PoolInv, StreamsAreUpToDate
<1> QED BY <1>1, PoolAlways, PTL

=============================================================================
