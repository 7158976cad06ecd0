------------------------ MODULE AnomalyBreakerProofs ------------------------
(***************************************************************************)
(* Theorems about the anomaly breaker, for every number of polling threads *)
(* and every value of its thresholds.  Its types are inductive by          *)
(* themselves.  That it serves every hold in full and implements TrustGate *)
(* rests on HoldInv and needs FewPollers: polls caught half-open by a trip *)
(* are counted by the open breaker, and must not suffice to close it.  A   *)
(* trip may set opened_at back; HoldInv keeps it within Lag of the trip.   *)
(***************************************************************************)
EXTENDS AnomalyBreaker, FiniteSetTheorems, TLAPS

LEMMA InitTypeOK == Init => TypeOK
<1>1. SUFFICES ASSUME Init PROVE TypeOK
  OBVIOUS
<1> USE DEF Init, CLOSED, OPEN, HALF_OPEN
<1>2. /\ open_for \in MinOpen..MaxOpen /\ calm \in 0..CalmPolls
      /\ held \in 0..HeldCap /\ quiet \in 0..HeldCap
  BY <1>1, ConstantsAssumption DEF HeldCap
<1>3. hot_residual \in 0..2 /\ hot_level \in 0..LevelShiftPolls
  BY <1>1, ConstantsAssumption
<1>4. tripped \in [Pollers -> BOOLEAN] /\ z \in [Pollers -> Z] /\ late \in [Pollers -> 0..Lag]
  BY <1>1, ConstantsAssumption DEF Z
<1>5. pc \in [Pollers -> {"idle", "counted", "judged", "timed", "probation"}]
  BY <1>1
<1>6. QED
  BY <1>1, <1>2, <1>3, <1>4, <1>5 DEF TypeOK

\* The thread-local variables keep their types when a poll ends.
LEMMA ReturnTypes ==
  ASSUME TypeOK, NEW p \in Pollers, Return(p)
  PROVE  /\ pc' \in [Pollers -> {"idle", "counted", "judged", "timed", "probation"}]
         /\ tripped' \in [Pollers -> BOOLEAN]
         /\ z' \in [Pollers -> Z]
         /\ late' \in [Pollers -> 0..Lag]
         /\ normal' \in BOOLEAN
BY ConstantsAssumption DEF TypeOK, Return, Z

\* A reading of the clock is at most Lag old when it is used.
LEMMA LateType ==
  ASSUME TypeOK, NEW p \in Pollers
  PROVE  late[p] \in 0..Lag /\ late[p] \in 0..HeldCap
BY ConstantsAssumption DEF TypeOK, HeldCap

\* The ages stay in their types when the clock ticks.
LEMMA TickTypes ==
  ASSUME TypeOK, Tick
  PROVE  held' \in 0..HeldCap /\ quiet' \in 0..HeldCap /\ late' \in [Pollers -> 0..Lag]
<1>1. held' \in 0..HeldCap /\ quiet' \in 0..HeldCap
  BY ConstantsAssumption DEF TypeOK, Tick, UpTo, HeldCap
<1>2. \A p \in Pollers : (IF pc[p] = "timed" THEN late[p] + 1 ELSE late[p]) \in 0..Lag
  BY ConstantsAssumption DEF TypeOK, Tick
<1>3. QED
  BY <1>1, <1>2 DEF Tick

LEMMA CalmCountType ==
  ASSUME TypeOK, NEW p \in Pollers
  PROVE  CalmCount(p) \in 0..CalmPolls /\ CalmCount(p) <= calm + 1
BY ConstantsAssumption DEF TypeOK, CalmCount, UpTo

LEMMA StepTypeOK ==
  ASSUME TypeOK, [Next]_vars
  PROVE  TypeOK'
<1> USE ConstantsAssumption DEF CLOSED, OPEN, HALF_OPEN
<1>1. ASSUME NEW p \in Pollers, NEW score \in Z, Residual(p, score) PROVE TypeOK'
  <2>1. hot_residual' \in 0..2
    BY <1>1 DEF Residual, CountResidual, UpTo, TypeOK
  <2>2. z' \in [Pollers -> Z]
    BY <1>1 DEF Residual, TypeOK
  <2>3. QED
    BY <1>1, <2>1, <2>2 DEF Residual, ages, TypeOK
<1>2. ASSUME NEW p \in Pollers, NEW level \in Level, NEW jump \in BOOLEAN, Signals(p, level, jump)
      PROVE  TypeOK'
  <2>1. hot_level' \in 0..LevelShiftPolls
    BY <1>2 DEF Signals, CountLevel, UpTo, TypeOK
  <2>2. (ResidualTrips(p) \/ LevelTrips \/ jump) \in BOOLEAN
    OBVIOUS
  <2>3. tripped' \in [Pollers -> BOOLEAN]
    BY <1>2, <2>2 DEF Signals, TypeOK
  <2>4. QED
    BY <1>2, <2>1, <2>3 DEF Signals, ages, TypeOK
<1>2a. ASSUME NEW p \in Pollers, ReadClock(p) PROVE TypeOK'
  BY <1>2a DEF ReadClock, ages, counters, TypeOK
<1>3. ASSUME NEW p \in Pollers, Trip(p) PROVE TypeOK'
  <2>1. open_for' \in MinOpen..MaxOpen
    BY <1>3 DEF Trip, UpTo, TypeOK
  <2>2. held' \in 0..HeldCap /\ quiet' \in 0..HeldCap
    BY <1>3, LateType DEF Trip, HeldCap
  <2>3. QED
    BY <1>3, <2>1, <2>2, ReturnTypes DEF Trip, TypeOK
<1>4. ASSUME NEW p \in Pollers, StayOpen(p) \/ UseForecast(p) PROVE TypeOK'
  BY <1>4, ReturnTypes DEF StayOpen, UseForecast, ages, counters, TypeOK
<1>5. ASSUME NEW p \in Pollers, Probation(p) PROVE TypeOK'
  BY <1>5 DEF Probation, ages, counters, TypeOK
<1>6. ASSUME NEW p \in Pollers, StayHalfOpen(p) \/ Close(p) PROVE TypeOK'
  <2>1. CalmCount(p) \in 0..CalmPolls /\ MinOpen \in MinOpen..MaxOpen
    BY CalmCountType
  <2>2. QED
    BY <1>6, <2>1, ReturnTypes DEF StayHalfOpen, Close, ages, counters, TypeOK
<1>7. CASE Tick
  BY <1>7, TickTypes DEF Tick, counters, TypeOK
<1>8. CASE SeriesChange \/ UNCHANGED vars
  BY <1>8 DEF SeriesChange, ages, counters, locals, vars, TypeOK
<1>9. QED
  BY <1>1, <1>2, <1>3, <1>4, <1>5, <1>6, <1>7, <1>8, <1>2a DEF Next, Observe, Decide

\* Type correctness: holds stay within their limits, calm polls within CalmPolls.
THEOREM TypeCorrect == Spec => []TypeOK
<1>1. QED
  BY InitTypeOK, StepTypeOK, PTL DEF Spec

-----------------------------------------------------------------------------
(***************************************************************************)
(* The polls a trip catches half-open.                                     *)
(***************************************************************************)
\* A poll that does not come from or go to probation leaves Caught alone.
LEMMA CaughtSame ==
  ASSUME TypeOK, NEW p \in Pollers, pc[p] # "probation",
         NEW s, s # "probation", pc' = [pc EXCEPT ![p] = s]
  PROVE  Caught' = Caught
<1>1. \A q \in Pollers : pc'[q] = "probation" <=> pc[q] = "probation"
  BY DEF TypeOK
<1>2. QED
  BY <1>1 DEF Caught

\* A poll that was counted is no longer caught.
LEMMA CaughtLess ==
  ASSUME TypeOK, NEW p \in Caught, pc' = [pc EXCEPT ![p] = "idle"]
  PROVE  /\ Cardinality(Caught) \in Nat
         /\ Cardinality(Caught') \in Nat
         /\ Cardinality(Caught') + 1 = Cardinality(Caught)
<1>1. Caught \in SUBSET Pollers
  BY DEF Caught
<1>2. IsFiniteSet(Caught) /\ IsFiniteSet(Caught \ {p})
  BY <1>1, ConstantsAssumption, FS_Subset, FS_RemoveElement
<1>3. Cardinality(Caught) \in Nat /\ Cardinality(Caught \ {p}) \in Nat
  BY <1>2, FS_CardinalityType
<1>4. Cardinality(Caught \ {p}) = Cardinality(Caught) - 1
  BY <1>2, FS_RemoveElement
<1>5. \A q \in Pollers : pc'[q] = "probation" <=> pc[q] = "probation" /\ q # p
  BY DEF TypeOK, Caught
<1>6. Caught' = Caught \ {p}
  BY <1>5 DEF Caught
<1>7. QED
  BY <1>3, <1>4, <1>6

\* The poll that trips is not among those it catches.
LEMMA CaughtByTrip ==
  ASSUME TypeOK, FewPollers, NEW p \in Pollers, pc' = [pc EXCEPT ![p] = "idle"]
  PROVE  Cardinality(Caught') \in Nat /\ Cardinality(Caught') < CalmPolls
<1>1. \A q \in Pollers : pc'[q] = "probation" => q # p
  BY DEF TypeOK
<1>2. Caught' \in SUBSET (Pollers \ {p})
  BY <1>1 DEF Caught
<1>3. IsFiniteSet(Pollers \ {p}) /\ Cardinality(Pollers \ {p}) = Cardinality(Pollers) - 1
  BY ConstantsAssumption, FS_RemoveElement
<1>4. /\ IsFiniteSet(Caught')
      /\ Cardinality(Caught') <= Cardinality(Pollers) - 1
  BY <1>2, <1>3, FS_Subset
<1>5. Cardinality(Pollers) \in Nat /\ Cardinality(Caught') \in Nat
  BY <1>4, ConstantsAssumption, FS_CardinalityType
<1>6. QED
  BY <1>4, <1>5, ConstantsAssumption DEF FewPollers

\* An open breaker is never closed by the polls it has caught.
LEMMA CloseNotOpen ==
  ASSUME HoldInv, NEW p \in Pollers, pc[p] = "probation", CalmCount(p) >= CalmPolls
  PROVE  state # OPEN
<1>1. SUFFICES ASSUME state = OPEN PROVE FALSE
  OBVIOUS
<1>2. p \in Caught /\ Caught \in SUBSET Pollers
  BY DEF Caught
<1>3. IsFiniteSet(Caught)
  BY <1>2, ConstantsAssumption, FS_Subset
<1>4. Cardinality(Caught) \in Nat /\ Cardinality(Caught) # 0
  BY <1>2, <1>3, FS_CardinalityType, FS_EmptySet
<1>5. calm \in Nat /\ calm + Cardinality(Caught) < CalmPolls
  BY <1>1 DEF HoldInv, TypeOK
<1>6. CalmCount(p) \in Int /\ CalmCount(p) <= calm + 1
  BY CalmCountType DEF HoldInv
<1>7. QED
  BY <1>4, <1>5, <1>6, ConstantsAssumption

-----------------------------------------------------------------------------
LEMMA InitHoldInv == Init => HoldInv
<1>1. SUFFICES ASSUME Init PROVE HoldInv
  OBVIOUS
<1>2. state = CLOSED /\ held >= MinOpen /\ open_for = MinOpen
  BY <1>1, ConstantsAssumption DEF Init, HeldCap
<1>3. held = HeldCap /\ quiet = HeldCap /\ HeldCap \in Nat
  BY <1>1, ConstantsAssumption DEF Init, HeldCap
<1>4. OpenedBeforeTrip
  BY <1>3, ConstantsAssumption DEF OpenedBeforeTrip
<1>5. QED
  BY <1>1, <1>2, <1>4, InitTypeOK DEF HoldInv, HoldServed, CLOSED, OPEN, HALF_OPEN

LEMMA StepHoldInv ==
  ASSUME FewPollers, HoldInv, [Next]_vars
  PROVE  HoldInv'
<1> USE ConstantsAssumption DEF CLOSED, OPEN, HALF_OPEN
<1>1. /\ TypeOK /\ HoldServed /\ OpenedBeforeTrip
      /\ (state = OPEN => calm + Cardinality(Caught) < CalmPolls)
  BY DEF HoldInv
<1>2. TypeOK'
  BY <1>1, StepTypeOK
<1>3. ASSUME NEW p \in Pollers, Observe(p) \/ ReadClock(p) \/ StayOpen(p) \/ UseForecast(p)
      PROVE  HoldInv'
  <2>1. UNCHANGED <<state, open_for, held, quiet, calm>>
    BY <1>3 DEF Observe, Residual, Signals, ReadClock, StayOpen, UseForecast, ages
  <2>2. PICK s \in {"idle", "counted", "judged", "timed"} :
          pc[p] # "probation" /\ pc' = [pc EXCEPT ![p] = s]
    BY <1>3 DEF Observe, Residual, Signals, ReadClock, StayOpen, UseForecast, Return
  <2>3. Caught' = Caught
    BY <1>1, <2>2, CaughtSame
  <2>4. QED
    BY <1>1, <1>2, <2>1, <2>3 DEF HoldInv, HoldServed, OpenedBeforeTrip
<1>4. ASSUME NEW p \in Pollers, Trip(p) PROVE HoldInv'
  <2>1. Cardinality(Caught') \in Nat /\ Cardinality(Caught') < CalmPolls
    BY <1>1, <1>4, CaughtByTrip DEF Trip, Return
  <2>2. state' = OPEN /\ calm' = 0
    BY <1>4 DEF Trip
  <2>3. held' \in 0..Lag /\ quiet' = 0
    BY <1>1, <1>4, LateType DEF Trip
  <2>4. OpenedBeforeTrip'
    BY <2>3 DEF OpenedBeforeTrip
  <2>5. QED
    BY <1>2, <2>1, <2>2, <2>4 DEF HoldInv, HoldServed
<1>5. ASSUME NEW p \in Pollers, Probation(p) PROVE HoldInv'
  <2>1. state' = HALF_OPEN /\ held' = held /\ quiet' = quiet /\ open_for' = open_for
    BY <1>5 DEF Probation, ages
  <2>2. held >= open_for
    BY <1>1, <1>5, LateType DEF Probation, OnProbation, HoldServed, TypeOK
  <2>3. calm' < CalmPolls
    BY <1>1, <1>5 DEF Probation, OnProbation, HoldServed
  <2>4. QED
    BY <1>1, <1>2, <2>1, <2>2, <2>3 DEF HoldInv, HoldServed, OpenedBeforeTrip
<1>6. ASSUME NEW p \in Pollers, StayHalfOpen(p) PROVE HoldInv'
  <2>1. /\ UNCHANGED <<state, open_for, held, quiet>>
        /\ calm' = CalmCount(p) /\ CalmCount(p) < CalmPolls
    BY <1>6 DEF StayHalfOpen, ages
  <2>2. calm' <= calm + 1 /\ calm' \in Int /\ calm \in Int
    BY <1>1, <2>1, CalmCountType DEF TypeOK
  <2>3. p \in Caught /\ pc' = [pc EXCEPT ![p] = "idle"]
    BY <1>6 DEF StayHalfOpen, Return, Caught
  <2>4. /\ Cardinality(Caught) \in Nat /\ Cardinality(Caught') \in Nat
        /\ Cardinality(Caught') + 1 = Cardinality(Caught)
    BY <1>1, <2>3, CaughtLess
  <2>5. state' = OPEN => calm' + Cardinality(Caught') < CalmPolls
    BY <1>1, <2>1, <2>2, <2>4
  <2>6. HoldServed' /\ OpenedBeforeTrip'
    BY <1>1, <2>1 DEF HoldServed, OpenedBeforeTrip
  <2>7. QED
    BY <1>2, <2>5, <2>6 DEF HoldInv
<1>7. ASSUME NEW p \in Pollers, Close(p) PROVE HoldInv'
  <2>1. state # OPEN
    BY <1>7, CloseNotOpen DEF Close
  <2>2. held >= MinOpen
    BY <1>1, <2>1 DEF HoldServed, TypeOK
  <2>3. held' = held /\ quiet' = quiet
    BY <1>7 DEF Close, ages
  <2>4. QED
    BY <1>1, <1>2, <1>7, <2>2, <2>3 DEF Close, HoldInv, HoldServed, OpenedBeforeTrip
<1>8. CASE Tick
  <2>1. UNCHANGED <<state, open_for, calm, pc>> /\ held' >= held
    BY <1>1, <1>8 DEF Tick, UpTo, TypeOK, HeldCap
  <2>2. Caught' = Caught
    BY <2>1 DEF Caught
  <2>3. HoldServed'
    BY <1>1, <1>2, <2>1 DEF HoldServed, TypeOK
  <2>4. OpenedBeforeTrip'
    BY <1>1, <1>8 DEF OpenedBeforeTrip, Tick, UpTo, TypeOK, HeldCap
  <2>5. QED
    BY <1>1, <1>2, <2>1, <2>2, <2>3, <2>4 DEF HoldInv
<1>9. CASE SeriesChange \/ UNCHANGED vars
  <2>1. UNCHANGED <<state, open_for, held, quiet, calm, pc>>
    BY <1>9 DEF SeriesChange, ages, locals, vars
  <2>2. QED
    BY <1>1, <1>2, <2>1 DEF HoldInv, HoldServed, OpenedBeforeTrip, Caught
<1>10. QED
  BY <1>3, <1>4, <1>5, <1>6, <1>7, <1>8, <1>9 DEF Next, Decide

\* No hold is cut short, also not a doubled one, and a close restores the minimum.
THEOREM HoldsAreServed ==
  ASSUME FewPollers
  PROVE  Spec => []HoldServed
<1>1. HoldInv /\ [Next]_vars => HoldInv'
  BY StepHoldInv
<1>2. HoldInv => HoldServed
  BY DEF HoldInv
<1>3. QED
  BY InitHoldInv, <1>1, <1>2, PTL DEF Spec

-----------------------------------------------------------------------------
\* The initial states of the breaker are initial states of the gate.
LEMMA GateInit == Init => Gate!Init
BY DEF Init, Gate!Init, CLOSED, HALF_OPEN

\* Every step of the breaker is a step of the gate or leaves the gate as it is.
LEMMA GateStep ==
  ASSUME HoldInv, [Next]_vars
  PROVE  [Gate!Next]_(Gate!vars)
<1> USE ConstantsAssumption DEF CLOSED, OPEN, HALF_OPEN, Gate!vars
<1>1. TypeOK /\ HoldServed /\ OpenedBeforeTrip
  BY DEF HoldInv
<1>1a. state # OPEN => quiet >= MinOpen - Lag
  BY <1>1 DEF HoldServed, OpenedBeforeTrip, TypeOK
<1>2. ASSUME NEW p \in Pollers, Observe(p) \/ ReadClock(p) \/ StayOpen(p) \/ UseForecast(p)
      PROVE  UNCHANGED Gate!vars
  BY <1>2 DEF Observe, Residual, Signals, ReadClock, StayOpen, UseForecast, ages
<1>3. ASSUME NEW p \in Pollers, Trip(p) PROVE Gate!Distrust
  BY <1>3 DEF Trip, Gate!Distrust
<1>4. ASSUME NEW p \in Pollers, Probation(p) PROVE UNCHANGED Gate!vars
  BY <1>4 DEF Probation, OnProbation, ages
<1>5. ASSUME NEW p \in Pollers, StayHalfOpen(p), state = HALF_OPEN
      PROVE  Gate!Assent \/ Gate!Dissent
  <2>1. state' = state /\ quiet' = quiet /\ calm' = CalmCount(p)
    BY <1>5 DEF StayHalfOpen, ages
  <2>2. CASE CalmCount(p) = 0
    BY <1>5, <2>1, <2>2 DEF Gate!Dissent
  <2>3. CASE CalmCount(p) # 0
    <3>1. CalmCount(p) = calm + 1
      BY <1>1, <1>5, <2>3 DEF CalmCount, UpTo, HoldServed, TypeOK
    <3>2. quiet >= MinOpen - Lag
      BY <1>5, <1>1a
    <3>3. calm + 1 < CalmPolls
      BY <1>5, <3>1 DEF StayHalfOpen
    <3>4. QED
      BY <1>5, <2>1, <3>1, <3>2, <3>3 DEF Gate!Assent
  <2>4. QED
    BY <2>2, <2>3
<1>6. ASSUME NEW p \in Pollers, StayHalfOpen(p), state # HALF_OPEN
      PROVE  UNCHANGED Gate!vars
  BY <1>6 DEF StayHalfOpen, ages
<1>7. ASSUME NEW p \in Pollers, Close(p) PROVE Gate!Trust \/ UNCHANGED Gate!vars
  <2>1. state # OPEN /\ state' = CLOSED /\ quiet' = quiet
    BY <1>7, CloseNotOpen DEF Close, ages
  <2>2. CASE state = CLOSED
    BY <2>1, <2>2
  <2>3. CASE state = HALF_OPEN
    <3>1. quiet >= MinOpen - Lag
      BY <2>1, <1>1a
    <3>2. calm + 1 = CalmPolls
      BY <1>1, <1>7, <2>3 DEF Close, CalmCount, UpTo, HoldServed, TypeOK
    <3>3. QED
      BY <2>1, <2>3, <3>1, <3>2 DEF Gate!Trust
  <2>4. QED
    BY <1>1, <2>1, <2>2, <2>3 DEF TypeOK
<1>8. ASSUME Tick PROVE Gate!Tick \/ UNCHANGED Gate!vars
  <2>1. state' = state /\ calm' = calm /\ quiet' = UpTo(quiet + 1, HeldCap)
    BY <1>8 DEF Tick
  <2>2. CASE quiet < HeldCap
    BY <1>1, <2>1, <2>2 DEF Gate!Tick, UpTo, TypeOK, HeldCap
  <2>3. CASE quiet = HeldCap
    BY <1>1, <2>1, <2>3 DEF UpTo, TypeOK, HeldCap
  <2>4. QED
    BY <1>1, <2>2, <2>3 DEF TypeOK, HeldCap
<1>9. ASSUME SeriesChange \/ UNCHANGED vars PROVE UNCHANGED Gate!vars
  BY <1>9 DEF SeriesChange, ages, vars
<1>10. QED
  BY <1>2, <1>3, <1>4, <1>5, <1>6, <1>7, <1>8, <1>9 DEF Next, Decide, Gate!Next

\* The breaker implements its promise: after a trip, at whatever moment and from
\* whatever poll, also one that writes an older opened_at than it found, the
\* forecast stays unused for the minimum hold less the lag of the clock reading,
\* and until CalmPolls polls in a row were calm.
THEOREM ImplementsTrustGate ==
  ASSUME FewPollers
  PROVE  Spec => KeepsTrustGate
<1>1. HoldInv /\ [Next]_vars => HoldInv' /\ [Gate!Next]_(Gate!vars)
  BY StepHoldInv, GateStep
<1>2. QED
  BY InitHoldInv, GateInit, <1>1, PTL DEF Spec, KeepsTrustGate, Gate!Spec

=============================================================================
