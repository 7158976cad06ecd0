------------------------ MODULE ForecastLedgerProofs ------------------------
(***************************************************************************)
(* Proofs about ForecastLedger, for every number of polls, horizon,        *)
(* history, queue length and tolerance below half a step.                  *)
(*                                                                         *)
(* LedgerInv is inductive whatever PollTime is.  That forecasts are for    *)
(* distinct instants, between two windows that were moved back, needs      *)
(* polls within the tolerance, because record() compares with the newest   *)
(* record only.                                                            *)
(***************************************************************************)
EXTENDS ForecastLedger, FiniteSetTheorems, TLAPS

-----------------------------------------------------------------------------
(***************************************************************************)
(* A finite set ordered by R has a maximal element.  The sets of elements  *)
(* above an element are finite, so one of them has no proper subset among  *)
(* them.                                                                   *)
(***************************************************************************)
LEMMA HasMaximal ==
  ASSUME NEW S, IsFiniteSet(S), S # {}, NEW R,
         \A x \in S : <<x, x>> \notin R,
         \A x, y, z \in S : <<x, y>> \in R /\ <<y, z>> \in R => <<x, z>> \in R
  PROVE  \E x \in S : \A y \in S : <<x, y>> \notin R
<1> DEFINE Above(x) == {y \in S : <<x, y>> \in R}
           F == {Above(x) : x \in S}
<1>1. F # {}
  <2>1. PICK x \in S : TRUE
    OBVIOUS
  <2>2. Above(x) \in F
    BY <2>1
  <2> QED BY <2>2
<1>2. F \subseteq FiniteSubsetsOf(S)
  <2>1. \A x \in S : Above(x) \in SUBSET S
    OBVIOUS
  <2>2. \A x \in S : IsFiniteSet(Above(x))
    BY <2>1, FS_Subset
  <2>3. \A x \in S : Above(x) \in FiniteSubsetsOf(S)
    BY <2>1, <2>2 DEF FiniteSubsetsOf
  <2> HIDE DEF Above
  <2> QED BY <2>3
<1>3. PICK A \in F : \A B \in F : <<B, A>> \notin StrictSubsetOrdering(S)
  <2> HIDE DEF F
  <2> QED BY <1>1, <1>2, FS_StrictSubsetOrderingWellFounded, WFMin
<1>4. PICK x \in S : A = Above(x)
  BY <1>3
<1>5. ASSUME NEW y \in S, <<x, y>> \in R PROVE FALSE
  <2>1. \A z \in S : <<y, z>> \in R => <<x, z>> \in R
    BY <1>5
  <2>2. Above(y) \subseteq Above(x)
    BY <2>1
  <2>3. y \in Above(x) /\ y \notin Above(y)
    BY <1>5
  <2>4. <<Above(y), Above(x)>> \in StrictSubsetOrdering(S)
    <3> DEFINE X == Above(y)
               Y == Above(x)
    <3>1. X \in SUBSET S /\ Y \in SUBSET S /\ X \subseteq Y /\ X # Y
      BY <2>2, <2>3
    <3> HIDE DEF X, Y
    <3>2. <<X, Y>> \in StrictSubsetOrdering(S)
      BY <3>1 DEF StrictSubsetOrdering
    <3> QED BY <3>2 DEF X, Y
  <2> QED BY <2>4, <1>3, <1>4
<1> QED BY <1>5

\* The last element of a deque, and the first.
LEMMA HasMax ==
  ASSUME NEW S \in SUBSET Int, IsFiniteSet(S), S # {}
  PROVE  \E n \in S : \A m \in S : m <= n
<1> DEFINE R == {p \in Int \X Int : p[1] < p[2]}
<1>1. \A x, y \in S : <<x, y>> \in R <=> x < y
  OBVIOUS
<1> HIDE DEF R
<1>2. \A x \in S : <<x, x>> \notin R
  BY <1>1
<1>3. \A x, y, z \in S : <<x, y>> \in R /\ <<y, z>> \in R => <<x, z>> \in R
  BY <1>1
<1>4. PICK n \in S : \A m \in S : <<n, m>> \notin R
  BY <1>2, <1>3, HasMaximal
<1>5. \A m \in S : ~(n < m)
  BY <1>1, <1>4
<1>6. \A m \in S : m <= n
  BY <1>5
<1> QED BY <1>6

LEMMA HasMin ==
  ASSUME NEW S \in SUBSET Int, IsFiniteSet(S), S # {}
  PROVE  \E n \in S : \A m \in S : n <= m
<1> DEFINE R == {p \in Int \X Int : p[2] < p[1]}
<1>1. \A x, y \in S : <<x, y>> \in R <=> y < x
  OBVIOUS
<1> HIDE DEF R
<1>2. \A x \in S : <<x, x>> \notin R
  BY <1>1
<1>3. \A x, y, z \in S : <<x, y>> \in R /\ <<y, z>> \in R => <<x, z>> \in R
  BY <1>1
<1>4. PICK n \in S : \A m \in S : <<n, m>> \notin R
  BY <1>2, <1>3, HasMaximal
<1>5. \A m \in S : ~(m < n)
  BY <1>1, <1>4
<1>6. \A m \in S : n <= m
  BY <1>5
<1> QED BY <1>6

-----------------------------------------------------------------------------
(***************************************************************************)
(* Facts about the operators.                                              *)
(***************************************************************************)
LEMMA TargetType ==
  ASSUME NEW f \in Forecast, NEW k \in Int
  PROVE  Target(f, k) \in Int
<1>1. f.made_at \in Int /\ Step \in Int /\ k * Step \in Int
  BY ConstantsAssumption DEF Forecast
<1> QED BY <1>1 DEF Target

LEMMA StepsInHorizon == Steps \in Horizon /\ Horizon \subseteq Int
BY ConstantsAssumption DEF Horizon

\* No query is evaluated ahead of the clock.
LEMMA EvaluatedType ==
  ASSUME now \in Int
  PROVE  /\ Evaluated \subseteq Int
         /\ \A s \in Evaluated : s <= now
<1>1. \A i \in 0..HistorySteps : i * Step \in Nat
  BY ConstantsAssumption
<1>2. \A i \in 0..HistorySteps : now - i * Step \in Int /\ now - i * Step <= now
  BY <1>1
<1> QED BY <1>2 DEF Evaluated

\* Scoring changes a forecast of the type into one of the type, made at the same
\* instant.
LEMMA ScoreForecastType ==
  ASSUME NEW p \in Pollers, NEW f \in Forecast
  PROVE  /\ ScoreForecast(p, f) \in Forecast
         /\ ScoreForecast(p, f).made_at = f.made_at
         /\ ScoreForecast(p, f).left = f.left \ Past(p, f)
         /\ ScoreForecast(p, f).scored =
              f.scored \cup {k \in f.left : Found(p, Target(f, k))}
<1>1. f.left \ Past(p, f) \in SUBSET Horizon
  BY DEF Forecast
<1>2. f.scored \cup {k \in f.left : Found(p, Target(f, k))} \in SUBSET Horizon
  BY DEF Forecast
<1> QED BY <1>1, <1>2 DEF ScoreForecast, Forecast

LEMMA NewForecastType ==
  ASSUME TypeOK, NEW p \in Pollers
  PROVE  NewForecast(p) \in Forecast
BY DEF TypeOK, NewForecast, Forecast

\* A full deque makes room.
LEMMA KeptType ==
  ASSUME TypeOK
  PROVE  /\ Kept \subseteq DOMAIN pending
         /\ IsFiniteSet(Kept)
         /\ Cardinality(Kept) < MaxPending
<1> DEFINE D == DOMAIN pending
<1>0. IsFiniteSet(D) /\ Cardinality(D) \in Nat /\ Cardinality(D) <= MaxPending
  BY FS_CardinalityType DEF TypeOK
<1>1. CASE Cardinality(D) >= MaxPending
  <2>1. D # {}
    BY <1>0, <1>1, FS_EmptySet, ConstantsAssumption
  <2>2. D \in SUBSET Int
    BY DEF TypeOK
  <2>3. \E n \in D : \A m \in D : n <= m
    BY <1>0, <2>1, <2>2, HasMin
  <2>4. First \in D
    BY <2>3 DEF First
  <2>5. Kept = D \ {First}
    BY <1>1 DEF Kept
  <2>6. IsFiniteSet(D \ {First}) /\ Cardinality(D \ {First}) = Cardinality(D) - 1
    BY <1>0, <2>4, FS_RemoveElement
  <2> QED BY <1>0, <2>5, <2>6, ConstantsAssumption
<1>2. CASE ~(Cardinality(D) >= MaxPending)
  <2>1. Kept = D
    BY <1>2 DEF Kept
  <2> QED BY <1>0, <1>2, <2>1, ConstantsAssumption
<1> QED BY <1>1, <1>2

-----------------------------------------------------------------------------
(***************************************************************************)
(* The invariant, one lemma per action that changes the deque.             *)
(***************************************************************************)
LEMMA InitLedgerInv == Init => LedgerInv
<1> SUFFICES ASSUME Init PROVE LedgerInv
  OBVIOUS
<1>1. DOMAIN pending = {}
  BY DEF Init
<1>2. 0 \in 0..MaxTime
  BY ConstantsAssumption
<1>3. IsFiniteSet({}) /\ Cardinality({}) <= MaxPending
  BY FS_EmptySet, ConstantsAssumption
<1>4. pending \in [DOMAIN pending -> Forecast]
  BY <1>1 DEF Init
<1>5. TypeOK
  BY <1>1, <1>2, <1>3, <1>4 DEF Init, TypeOK
<1>6. Timely /\ ScoredOnce /\ NothingSpent
  BY <1>1, ConstantsAssumption DEF Init, Timely, ScoredOnce, NothingSpent
<1> QED BY <1>5, <1>6 DEF LedgerInv

\* A poll leaves the deque alone.
LEMMA FetchLedgerInv ==
  ASSUME LedgerInv, NEW p \in Pollers, Fetch(p)
  PROVE  LedgerInv'
<1> USE DEF LedgerInv
<1>1. now \in Int
  BY DEF TypeOK
<1>2. PICK seen \in Answers, end \in Evaluated :
        /\ end \in seen
        /\ \A s \in seen : s <= end
        /\ window' = [window EXCEPT ![p] = end]
        /\ sampled' = [sampled EXCEPT ![p] = seen \cap Grid(end)]
  BY DEF Fetch
<1>3. end \in 0..MaxTime /\ end <= now
  <2>1. end \in Int /\ end <= now
    BY <1>1, <1>2, EvaluatedType
  <2>2. end >= 0
    BY <1>2 DEF Answers
  <2>3. now \in 0..MaxTime /\ MaxTime \in Nat
    BY ConstantsAssumption DEF TypeOK
  <2> QED BY <2>1, <2>2, <2>3
<1>4. seen \cap Grid(end) \in SUBSET Int /\ \A s \in seen \cap Grid(end) : s <= end
  BY <1>1, <1>2, EvaluatedType DEF Answers
<1>5. TypeOK'
  <2>1. sampled' \in [Pollers -> SUBSET Int] /\ window' \in [Pollers -> 0..MaxTime]
    BY <1>2, <1>3, <1>4 DEF TypeOK
  <2> QED BY <2>1 DEF TypeOK, Fetch, deque
<1>6. Timely'
  <2>1. ASSUME NEW q \in Pollers
        PROVE  /\ window'[q] <= began'[q] /\ began'[q] <= now
               /\ pc'[q] # "idle" => now <= began'[q] + PollTime
               /\ \A s \in sampled'[q] : s <= window'[q]
    <3>1. CASE q = p
      <4>1. window'[p] = end /\ began'[p] = now /\ sampled'[p] = seen \cap Grid(end)
        BY <1>2 DEF TypeOK, Fetch
      <4> QED BY <1>1, <1>3, <1>4, <3>1, <4>1, ConstantsAssumption
    <3>2. CASE q # p
      BY <1>2, <3>2 DEF TypeOK, Fetch, Timely
    <3> QED BY <3>1, <3>2
  <2> QED BY <2>1 DEF Timely, Fetch, deque
<1>7. (ScoredOnce /\ NothingSpent)'
  BY DEF ScoredOnce, NothingSpent, Fetch, deque
<1> QED BY <1>5, <1>6, <1>7

\* score() strikes out every step it resolves: the sample it found is not later
\* than the end of the history by more than the tolerance, so the step is past.
LEMMA ScoreLedgerInv ==
  ASSUME LedgerInv, NEW p \in Pollers, Score(p)
  PROVE  LedgerInv'
<1> USE DEF LedgerInv
<1>1. /\ DOMAIN pending' = Keep(p)
      /\ Keep(p) \subseteq DOMAIN pending
      /\ \A n \in Keep(p) : pending'[n] = ScoreForecast(p, pending[n])
  BY DEF Score, Keep
<1>2. \A n \in DOMAIN pending : pending[n] \in Forecast
  BY DEF TypeOK
<1>3. TypeOK'
  <2>1. IsFiniteSet(Keep(p)) /\ Cardinality(Keep(p)) <= MaxPending
    <3>1. IsFiniteSet(Keep(p)) /\ Cardinality(Keep(p)) <= Cardinality(DOMAIN pending)
      BY <1>1, FS_Subset DEF TypeOK
    <3>2. Cardinality(Keep(p)) \in Nat /\ Cardinality(DOMAIN pending) \in Nat
      BY <3>1, FS_CardinalityType DEF TypeOK
    <3> QED BY <3>1, <3>2, ConstantsAssumption DEF TypeOK
  <2>2. pending' \in [DOMAIN pending' -> Forecast]
    BY <1>1, <1>2, ScoreForecastType DEF Score
  <2>3. sampled' \in [Pollers -> SUBSET Int]
    BY DEF TypeOK, Score
  <2> QED BY <1>1, <2>1, <2>2, <2>3 DEF TypeOK, Score
<1>4. Timely'
  <2>1. \A n \in DOMAIN pending' : pending'[n].made_at <= now'
    BY <1>1, <1>2, ScoreForecastType DEF Timely, Score
  <2>2. \A q \in Pollers : \A s \in sampled'[q] : s <= window'[q]
    BY DEF Timely, TypeOK, Score
  <2> QED BY <2>1, <2>2 DEF Timely, TypeOK, Score
<1>5. ASSUME NEW n \in DOMAIN pending'
      PROVE  pending'[n].scored \cap pending'[n].left = {} /\ Steps \in pending'[n].left
  <2> DEFINE f == pending[n]
  <2>1. n \in Keep(p) /\ f \in Forecast /\ window[p] \in Int /\ Tol \in Int
    BY <1>1, <1>2, <1>5, ConstantsAssumption DEF TypeOK
  <2>2. /\ pending'[n].left = f.left \ Past(p, f)
        /\ pending'[n].scored = f.scored \cup {k \in f.left : Found(p, Target(f, k))}
    BY <1>1, <2>1, ScoreForecastType
  <2>3. \A k \in f.left : Found(p, Target(f, k)) => k \in Past(p, f)
    <3> SUFFICES ASSUME NEW k \in f.left, Found(p, Target(f, k))
                 PROVE  k \in Past(p, f)
      OBVIOUS
    <3>1. k \in Horizon
      BY <2>1 DEF Forecast
    <3>2. Target(f, k) \in Int
      BY <2>1, <3>1, TargetType, StepsInHorizon
    <3>3. PICK s \in sampled[p] : Near(s, Target(f, k))
      BY DEF Found
    <3>4. s \in Int /\ s <= window[p]
      BY DEF TypeOK, Timely
    <3>5. Target(f, k) <= window[p] + Tol
      BY <2>1, <3>2, <3>3, <3>4 DEF Near
    <3> QED BY <3>1, <3>5 DEF Past
  <2>4. Steps \notin Past(p, f)
    <3>1. Target(f, Steps) > window[p] + Tol
      BY <2>1 DEF Keep
    <3>2. Target(f, Steps) \in Int
      BY <2>1, TargetType, StepsInHorizon
    <3> QED BY <2>1, <3>1, <3>2 DEF Past
  <2>5. f.scored \cap f.left = {} /\ Steps \in f.left
    BY <1>1, <2>1 DEF ScoredOnce, NothingSpent
  <2> QED BY <2>2, <2>3, <2>4, <2>5
<1> QED BY <1>3, <1>4, <1>5 DEF ScoredOnce, NothingSpent

\* The locals of a poll that ends, and of the others, keep to their types and times.
LEMMA FinishLocals ==
  ASSUME TypeOK, Timely, NEW p \in Pollers, Finish(p)
  PROVE  /\ now' = now
         /\ pc' \in [Pollers -> {"idle", "fetched", "scored"}]
         /\ began' \in [Pollers -> 0..MaxTime]
         /\ window' \in [Pollers -> 0..MaxTime]
         /\ sampled' \in [Pollers -> SUBSET Int]
         /\ \A q \in Pollers :
              /\ window'[q] <= began'[q] /\ began'[q] <= now
              /\ pc'[q] # "idle" => now <= began'[q] + PollTime
              /\ \A s \in sampled'[q] : s <= window'[q]
<1>1. 0 \in 0..MaxTime /\ now \in 0..MaxTime
  BY ConstantsAssumption DEF TypeOK
<1>2. ASSUME NEW q \in Pollers
      PROVE  /\ window'[q] <= began'[q] /\ began'[q] <= now
             /\ pc'[q] # "idle" => now <= began'[q] + PollTime
             /\ \A s \in sampled'[q] : s <= window'[q]
  <2>1. CASE q = p
    BY <1>1, <2>1 DEF Finish, TypeOK
  <2>2. CASE q # p
    BY <2>2 DEF Finish, TypeOK, Timely
  <2> QED BY <2>1, <2>2
<1> QED BY <1>1, <1>2 DEF Finish, TypeOK

LEMMA EnqueueLedgerInv ==
  ASSUME LedgerInv, NEW p \in Pollers, pc[p] # "idle", Enqueue(p), Finish(p)
  PROVE  LedgerInv'
<1> USE DEF LedgerInv
<1> DEFINE new == arrivals + 1
<1>1. /\ arrivals \in Nat
      /\ DOMAIN pending \subseteq 1..arrivals
      /\ \A n \in DOMAIN pending : pending[n] \in Forecast
  BY DEF TypeOK
<1>2. Kept \subseteq DOMAIN pending /\ IsFiniteSet(Kept) /\ Cardinality(Kept) < MaxPending
  BY KeptType
<1>3. new \notin DOMAIN pending
  BY <1>1
<1>4. /\ DOMAIN pending' = Kept \cup {new}
      /\ pending'[new] = NewForecast(p)
      /\ \A n \in Kept : pending'[n] = pending[n]
  BY <1>2, <1>3 DEF Enqueue
<1>5. NewForecast(p) \in Forecast
  BY NewForecastType
<1>6. TypeOK'
  <2>1. IsFiniteSet(Kept \cup {new}) /\ Cardinality(Kept \cup {new}) <= MaxPending
    <3>1. new \notin Kept
      BY <1>2, <1>3
    <3>2. /\ IsFiniteSet(Kept \cup {new})
          /\ Cardinality(Kept \cup {new}) = Cardinality(Kept) + 1
      <4> HIDE DEF new
      <4> QED BY <1>2, <3>1, FS_AddElement
    <3>3. Cardinality(Kept) \in Nat
      BY <1>2, FS_CardinalityType
    <3> QED BY <1>2, <3>2, <3>3, ConstantsAssumption
  <2>2. Kept \cup {new} \subseteq 1..new
    BY <1>1, <1>2
  <2>3. arrivals' = new
    BY DEF Enqueue
  <2>4. pending' \in [DOMAIN pending' -> Forecast]
    <3>1. \A n \in DOMAIN pending' : pending'[n] \in Forecast
      BY <1>1, <1>2, <1>4, <1>5
    <3>2. pending' = [n \in DOMAIN pending' |-> pending'[n]]
      BY <1>4 DEF Enqueue
    <3> QED BY <3>1, <3>2
  <2>5. /\ DOMAIN pending' \in SUBSET (1..arrivals') /\ arrivals' \in Nat
        /\ moved' \in 0..arrivals'
    BY <1>1, <1>4, <2>2, <2>3 DEF Enqueue, TypeOK
  <2>6. IsFiniteSet(DOMAIN pending') /\ Cardinality(DOMAIN pending') <= MaxPending
    BY <1>4, <2>1
  <2> QED BY <2>4, <2>5, <2>6, FinishLocals DEF TypeOK
<1>7. Timely'
  <2>1. window[p] <= now /\ now' = now
    BY FinishLocals DEF Timely, TypeOK
  <2>2. \A n \in DOMAIN pending' : pending'[n].made_at <= now'
    BY <1>2, <1>4, <2>1 DEF Timely, NewForecast
  <2> QED BY <2>2, FinishLocals DEF Timely
<1>8. (ScoredOnce /\ NothingSpent)'
  <2>1. pending'[new].scored \cap pending'[new].left = {} /\ Steps \in pending'[new].left
    BY <1>4, StepsInHorizon DEF NewForecast
  <2>2. \A n \in Kept : pending'[n].scored \cap pending'[n].left = {} /\ Steps \in pending'[n].left
    BY <1>2, <1>4 DEF ScoredOnce, NothingSpent
  <2> QED BY <1>4, <2>1, <2>2 DEF ScoredOnce, NothingSpent
<1> QED BY <1>6, <1>7, <1>8

LEMMA FinishLedgerInv ==
  ASSUME LedgerInv, NEW p \in Pollers, Finish(p), UNCHANGED deque
  PROVE  LedgerInv'
<1>1. TypeOK'
  BY FinishLocals DEF LedgerInv, TypeOK, deque
<1>2. Timely'
  BY FinishLocals DEF LedgerInv, Timely, deque
<1>3. (ScoredOnce /\ NothingSpent)'
  BY DEF LedgerInv, ScoredOnce, NothingSpent, deque
<1> QED BY <1>1, <1>2, <1>3 DEF LedgerInv

LEMMA RecordLedgerInv ==
  ASSUME LedgerInv, NEW p \in Pollers, Record(p)
  PROVE  LedgerInv'
<1>1. CASE Duplicate(p)
  <2>1. Finish(p) /\ UNCHANGED deque
    BY <1>1 DEF Record
  <2> QED BY <2>1, FinishLedgerInv
<1>2. CASE ~Duplicate(p)
  BY <1>2, EnqueueLedgerInv DEF Record
<1> QED BY <1>1, <1>2

LEMMA QuietLedgerInv ==
  ASSUME LedgerInv, (\E p \in Pollers : NoForecast(p)) \/ Tick \/ UNCHANGED vars
  PROVE  LedgerInv'
<1> USE DEF LedgerInv
<1>1. CASE \E p \in Pollers : NoForecast(p)
  BY <1>1, FinishLedgerInv DEF NoForecast
<1>2. CASE Tick
  <2>1. now \in Int /\ now' \in 0..MaxTime
    BY <1>2, ConstantsAssumption DEF TypeOK, Tick
  <2>2. TypeOK'
    BY <1>2, <2>1 DEF TypeOK, Tick, deque
  <2>3. \A n \in DOMAIN pending : pending[n].made_at \in Int
    BY DEF TypeOK, Forecast
  <2>4. Timely'
    BY <1>2, <2>1, <2>3, ConstantsAssumption DEF TypeOK, Timely, Tick, deque
  <2>5. (ScoredOnce /\ NothingSpent)'
    BY <1>2 DEF ScoredOnce, NothingSpent, Tick, deque
  <2> QED BY <2>2, <2>4, <2>5
<1>3. CASE UNCHANGED vars
  BY <1>3 DEF vars, deque, TypeOK, Timely, ScoredOnce, NothingSpent
<1> QED BY <1>1, <1>2, <1>3

LEMMA EvictLedgerInv == LedgerInv /\ Evict => LedgerInv'
<1> SUFFICES ASSUME LedgerInv, Evict PROVE LedgerInv'
  OBVIOUS
<1>1. DOMAIN pending' = {} /\ arrivals' = 0
  BY DEF Evict
<1>2. IsFiniteSet({}) /\ Cardinality({}) <= MaxPending
  BY FS_EmptySet, ConstantsAssumption
<1>3. pending' \in [DOMAIN pending' -> Forecast]
  BY <1>1 DEF Evict
<1>4. TypeOK'
  BY <1>1, <1>2, <1>3 DEF Evict, LedgerInv, TypeOK
<1>5. (Timely /\ ScoredOnce /\ NothingSpent)'
  BY <1>1 DEF Evict, LedgerInv, Timely, ScoredOnce, NothingSpent
<1> QED BY <1>4, <1>5 DEF LedgerInv

LEMMA StepLedgerInv == LedgerInv /\ [Next]_vars => LedgerInv'
<1> SUFFICES ASSUME LedgerInv, [Next]_vars PROVE LedgerInv'
  OBVIOUS
<1>1. ASSUME NEW p \in Pollers, Fetch(p) PROVE LedgerInv'
  BY <1>1, FetchLedgerInv
<1>2. ASSUME NEW p \in Pollers, Score(p) PROVE LedgerInv'
  BY <1>2, ScoreLedgerInv
<1>3. ASSUME NEW p \in Pollers, Record(p) PROVE LedgerInv'
  BY <1>3, RecordLedgerInv
<1>4. CASE (\E p \in Pollers : NoForecast(p)) \/ Tick \/ UNCHANGED vars
  BY <1>4, QuietLedgerInv
<1>5. CASE Evict
  BY <1>5, EvictLedgerInv
<1> QED BY <1>1, <1>2, <1>3, <1>4, <1>5 DEF Next

\* The variables keep their types and the queue its bound.
THEOREM TypeCorrect == Spec => []TypeOK
<1>1. LedgerInv => TypeOK
  BY DEF LedgerInv
<1> QED BY <1>1, InitLedgerInv, StepLedgerInv, PTL DEF Spec

\* "A resolved step must not be scored again": however many polls overlap and
\* however late they are, no step is scored twice.
THEOREM StepsAreScoredOnce == Spec => []ScoredOnce
<1>1. LedgerInv => ScoredOnce
  BY DEF LedgerInv
<1> QED BY <1>1, InitLedgerInv, StepLedgerInv, PTL DEF Spec

\* score(): what has no step left to wait for leaves the queue in the same call.
THEOREM SpentForecastsLeave == Spec => []NothingSpent
<1>1. LedgerInv => NothingSpent
  BY DEF LedgerInv
<1> QED BY <1>1, InitLedgerInv, StepLedgerInv, PTL DEF Spec

-----------------------------------------------------------------------------
(***************************************************************************)
(* The order of the queue.                                                 *)
(***************************************************************************)
\* The newest record is a record.
LEMMA LastType ==
  ASSUME TypeOK, pending # [n \in {} |-> 0]
  PROVE  Last \in DOMAIN pending /\ \A m \in DOMAIN pending : m <= Last
<1>1. DOMAIN pending # {}
  <2> SUFFICES ASSUME DOMAIN pending = {} PROVE FALSE
    OBVIOUS
  <2>1. pending = [n \in DOMAIN pending |-> pending[n]]
    BY DEF TypeOK
  <2> QED BY <2>1
<1>2. DOMAIN pending \in SUBSET Int /\ IsFiniteSet(DOMAIN pending)
  BY DEF TypeOK
<1>3. \E n \in DOMAIN pending : \A m \in DOMAIN pending : m <= n
  BY <1>1, <1>2, HasMax
<1> QED BY <1>3 DEF Last

\* A forecast whose window was not moved back and that is no duplicate of the last
\* is later than it by more than the tolerance: the last is not ahead of the clock,
\* which is at most PollTime ahead of the poll's window.
LEMMA EnqueueInOrder ==
  ASSUME PollsAreQuick, LedgerInv, OnePerInstant,
         NEW p \in Pollers, pc[p] # "idle", ~Duplicate(p), ~MovedBack(p),
         NEW m \in DOMAIN pending, moved <= m
  PROVE  window[p] - pending[m].made_at > Tol
<1> USE DEF LedgerInv
<1>1. \A n \in DOMAIN pending : pending[n].made_at \in Int /\ pending[n].made_at <= now
  BY DEF TypeOK, Forecast, Timely
<1>2. window[p] \in Int /\ now \in Int /\ Tol \in Nat /\ PollTime \in Nat
  BY ConstantsAssumption DEF TypeOK
<1>3. now <= window[p] + Tol
  <2>1. began[p] \in Int /\ window[p] = began[p]
    BY <1>2 DEF TypeOK, Timely, MovedBack
  <2> QED BY <1>2, <2>1 DEF Timely, PollsAreQuick
<1>4. pending # [n \in {} |-> 0]
  OBVIOUS
<1>5. Last \in DOMAIN pending /\ m <= Last
  BY <1>4, LastType
<1>6. ~Near(pending[Last].made_at, window[p])
  BY <1>4 DEF Duplicate
<1>7. window[p] - pending[Last].made_at > Tol
  BY <1>1, <1>2, <1>3, <1>5, <1>6 DEF Near
<1>8. pending[m].made_at <= pending[Last].made_at
  <2>1. m = Last \/ m < Last
    BY <1>5 DEF TypeOK
  <2> QED BY <1>1, <1>2, <1>5, <2>1 DEF OnePerInstant
<1> QED BY <1>1, <1>2, <1>5, <1>7, <1>8

LEMMA StepInOrder ==
  ASSUME PollsAreQuick, LedgerInv, OnePerInstant, [Next]_vars
  PROVE  OnePerInstant'
<1> USE DEF LedgerInv
<1>1. ASSUME NEW p \in Pollers, Score(p) PROVE OnePerInstant'
  <2>1. /\ DOMAIN pending' \subseteq DOMAIN pending
        /\ \A n \in DOMAIN pending' : pending'[n] = ScoreForecast(p, pending[n])
    BY <1>1 DEF Score, Keep
  <2>2. \A n \in DOMAIN pending' : pending'[n].made_at = pending[n].made_at
    BY <2>1, ScoreForecastType DEF TypeOK
  <2>3. moved' = moved
    BY <1>1 DEF Score
  <2> QED BY <2>1, <2>2, <2>3 DEF OnePerInstant
<1>2. ASSUME NEW p \in Pollers, Record(p), ~Duplicate(p) PROVE OnePerInstant'
  <2> DEFINE new == arrivals + 1
  <2>1. arrivals \in Nat /\ DOMAIN pending \subseteq 1..arrivals
    BY DEF TypeOK
  <2>2. Kept \subseteq DOMAIN pending
    BY KeptType
  <2>3. new \notin DOMAIN pending
    BY <2>1
  <2>4. /\ DOMAIN pending' = Kept \cup {new}
        /\ pending'[new] = NewForecast(p)
        /\ \A n \in Kept : pending'[n] = pending[n]
        /\ moved' = IF MovedBack(p) THEN new ELSE moved
    BY <1>2, <2>2, <2>3 DEF Record, Enqueue
  <2>5. pending'[new].made_at = window[p]
    BY <2>4 DEF NewForecast
  <2>6. ~MovedBack(p) => \A m \in DOMAIN pending : moved <= m => window[p] - pending[m].made_at > Tol
    BY <1>2, EnqueueInOrder DEF Record
  <2> SUFFICES ASSUME NEW m \in DOMAIN pending', NEW n \in DOMAIN pending', moved' <= m, m < n
               PROVE  pending'[n].made_at - pending'[m].made_at > Tol
    BY DEF OnePerInstant
  <2>7. m \in Kept /\ m < new
    BY <2>1, <2>2, <2>4
  <2>8. ~MovedBack(p) /\ moved <= m
    BY <2>1, <2>2, <2>4, <2>7
  <2>9. CASE n = new
    BY <2>2, <2>4, <2>5, <2>6, <2>7, <2>8, <2>9
  <2>10. CASE n \in Kept
    BY <2>2, <2>4, <2>7, <2>8, <2>10 DEF OnePerInstant
  <2> QED BY <2>4, <2>9, <2>10
<1>3. ASSUME NEW p \in Pollers, Record(p), Duplicate(p) PROVE OnePerInstant'
  BY <1>3 DEF Record, deque, OnePerInstant
<1>4. ASSUME NEW p \in Pollers, Fetch(p) \/ NoForecast(p) PROVE OnePerInstant'
  BY <1>4 DEF Fetch, NoForecast, deque, OnePerInstant
<1>5. CASE Evict
  BY <1>5 DEF Evict, OnePerInstant
<1>6. CASE Tick \/ UNCHANGED vars
  BY <1>6 DEF Tick, vars, deque, OnePerInstant
<1> QED BY <1>1, <1>2, <1>3, <1>4, <1>5, <1>6 DEF Next

\* "One forecast per instant", although record() compares with the newest record
\* only: when polls are within the tolerance, the queue is in order from the last
\* forecast of a window that was moved back on, and all of it when there was none.
THEOREM OneForecastPerInstant ==
  ASSUME PollsAreQuick
  PROVE  Spec => []OnePerInstant
<1>1. Init => OnePerInstant
  BY DEF Init, OnePerInstant
<1>2. LedgerInv /\ OnePerInstant /\ [Next]_vars => OnePerInstant'
  BY StepInOrder
<1> QED BY <1>1, <1>2, InitLedgerInv, StepLedgerInv, PTL DEF Spec

=============================================================================
