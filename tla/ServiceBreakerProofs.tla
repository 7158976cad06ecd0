------------------------ MODULE ServiceBreakerProofs ------------------------
(***************************************************************************)
(* Theorems about the forecast-service breaker, for every number of        *)
(* callers and every value of the thresholds.                              *)
(*                                                                         *)
(* ProbeInv (ServiceBreaker) is inductive.  The step that matters is       *)
(* AdmitProbe: an elapsed hold is older than any call can be, and while    *)
(* the breaker is open each call in flight is at most MaxLag younger than  *)
(* the hold, so no call is in flight when a probe is let out.              *)
(***************************************************************************)
EXTENDS ServiceBreaker, TLAPS

\* The initial states satisfy the invariant.
LEMMA InitProbeInv == Init => ProbeInv
<1>1. SUFFICES ASSUME Init PROVE ProbeInv
  OBVIOUS
<1> USE DEF Init, CLOSED, OPEN, HALF_OPEN, InFlight, InCall, Reporting
<1>2. HoldCap \in Nat
  BY ConstantsAssumption DEF HoldCap
<1>3. TypeOK
  <2>1. held \in 0..HoldCap /\ consecutive_failures \in 0..Failures
    BY <1>1, <1>2, ConstantsAssumption
  <2>2. lag \in [Callers -> 0..MaxLag] /\ age \in [Callers -> 0..(CallTimeout + MaxLag)]
    BY <1>1, ConstantsAssumption
  <2>3. channels \in BOOLEAN /\ probing \in BOOLEAN /\ healthy \in BOOLEAN
    BY <1>1
  <2>4. QED
    BY <1>1, <2>1, <2>2, <2>3 DEF TypeOK
<1>4. CallsAge /\ SwitchedOff /\ NoFetchWithoutChannels /\ ProbesOnlyHalfOpen
  BY <1>1 DEF CallsAge, SwitchedOff, NoFetchWithoutChannels, ProbesOnlyHalfOpen
<1>5. HalfOpenIsProbing /\ HoldFollowsCalls /\ ProbeAlone /\ ProbeInFlight
  BY <1>1 DEF HalfOpenIsProbing, HoldFollowsCalls, ProbeAlone, ProbeInFlight
<1>6. QED
  BY <1>3, <1>4, <1>5 DEF ProbeInv

\* Every step keeps every variable in its type.
LEMMA StepTypeOK ==
  ASSUME TypeOK, CallsAge, [Next]_vars
  PROVE  TypeOK'
<1> USE ConstantsAssumption DEF TypeOK, CallsAge, CLOSED, OPEN, HALF_OPEN, HoldCap, InCall, Reporting,
        InFlight, breaker
<1>1. ASSUME NEW c \in Callers, ReadClock(c) PROVE TypeOK'
  BY <1>1 DEF ReadClock
<1>2. ASSUME NEW c \in Callers, AdmitClosed(c) PROVE TypeOK'
  BY <1>2 DEF AdmitClosed, LetThrough
<1>3. ASSUME NEW c \in Callers, AdmitProbe(c) PROVE TypeOK'
  BY <1>3 DEF AdmitProbe, LetThrough
<1>4. ASSUME NEW c \in Callers, Deny(c) PROVE TypeOK'
  BY <1>4 DEF Deny, Return
<1>5. ASSUME NEW c \in Callers, ChannelsRead(c) PROVE TypeOK'
  BY <1>5 DEF ChannelsRead
<1>6. ASSUME NEW c \in Callers, ChannelsFail(c) PROVE TypeOK'
  BY <1>6 DEF ChannelsFail, Return
<1>7. ASSUME NEW c \in Callers, Answer(c) PROVE TypeOK'
  BY <1>7 DEF Answer
<1>8. ASSUME NEW c \in Callers, Fail(c) PROVE TypeOK'
  BY <1>8 DEF Fail
<1>9. ASSUME NEW c \in Callers, Success(c) PROVE TypeOK'
  <2>1. probing' \in BOOLEAN /\ channels' \in BOOLEAN /\ healthy' \in BOOLEAN
    BY <1>9 DEF Success
  <2>2. 0 \in 0..Failures /\ 0 \in 0..MaxLag /\ 0 \in 0..(CallTimeout + MaxLag)
    OBVIOUS
  <2>3. QED
    BY <1>9, <2>1, <2>2 DEF Success, Return
<1>10. ASSUME NEW c \in Callers, Failure(c) PROVE TypeOK'
  <2>1. CASE Failures = 0
    BY <1>10, <2>1 DEF Failure, Return
  <2>2. CASE Failures # 0
    <3>1. consecutive_failures' \in 0..Failures
      BY <1>10, <2>2 DEF Failure, RecordFailure, UpTo
    <3>2. lag[c] \in 0..MaxLag /\ lag[c] \in 0..HoldCap
      BY <1>10
    <3>3. held' \in 0..HoldCap
      BY <1>10, <2>2, <3>2 DEF Failure, RecordFailure
    <3>4. state' \in {CLOSED, OPEN, HALF_OPEN} /\ probing' \in BOOLEAN
      BY <1>10, <2>2 DEF Failure, RecordFailure
    <3>5. QED
      BY <1>10, <3>1, <3>3, <3>4 DEF Failure, Return
  <2>3. QED
    BY <2>1, <2>2
<1>11. ASSUME Tick PROVE TypeOK'
  <2>1. held' \in 0..HoldCap
    BY <1>11 DEF Tick, UpTo
  <2>2. lag' \in [Callers -> 0..MaxLag]
    BY <1>11 DEF Tick
  <2>3. age' \in [Callers -> 0..(CallTimeout + MaxLag)]
    BY <1>11 DEF Tick
  <2>4. QED
    BY <1>11, <2>1, <2>2, <2>3 DEF Tick
<1>12. ASSUME HealthChange PROVE TypeOK'
  BY <1>12 DEF HealthChange
<1>13. CASE UNCHANGED vars
  BY <1>13 DEF vars
<1>14. QED
  BY <1>1, <1>2, <1>3, <1>4, <1>5, <1>6, <1>7, <1>8, <1>9, <1>10, <1>11, <1>12, <1>13
  DEF Next, Poll

\* Calls keep to their time limits.
LEMMA StepCallsAge ==
  ASSUME TypeOK, CallsAge, [Next]_vars
  PROVE  CallsAge'
<1> USE ConstantsAssumption DEF TypeOK, CallsAge, CLOSED, OPEN, HALF_OPEN, InCall, Reporting, InFlight
<1>1. ASSUME NEW c \in Callers, ReadClock(c) PROVE CallsAge'
  BY <1>1 DEF ReadClock
<1>2. ASSUME NEW c \in Callers, AdmitClosed(c) \/ AdmitProbe(c) PROVE CallsAge'
  BY <1>2 DEF AdmitClosed, AdmitProbe, LetThrough
<1>3. ASSUME NEW c \in Callers, Return(c) PROVE CallsAge'
  BY <1>3 DEF Return
<1>4. ASSUME NEW c \in Callers, ChannelsRead(c) \/ Answer(c) \/ Fail(c) PROVE CallsAge'
  BY <1>4 DEF ChannelsRead, Answer, Fail
<1>5. ASSUME Tick PROVE CallsAge'
  BY <1>5 DEF Tick
<1>6. CASE HealthChange \/ UNCHANGED vars
  BY <1>6 DEF HealthChange, vars
<1>7. QED
  BY <1>1, <1>2, <1>3, <1>4, <1>5, <1>6 DEF Next, Poll, Deny, ChannelsFail, Success, Failure

\* The switched-off breaker stays closed, and without channels nobody fetches them.
LEMMA StepConfiguration ==
  ASSUME TypeOK, SwitchedOff, NoFetchWithoutChannels, [Next]_vars
  PROVE  SwitchedOff' /\ NoFetchWithoutChannels'
<1>1. SwitchedOff'
  BY DEF SwitchedOff, Next, Poll, ReadClock, AdmitClosed, AdmitProbe, Deny, ChannelsRead,
     ChannelsFail, Answer, Fail, Success, Failure, Tick, HealthChange, breaker, vars, CLOSED
<1>2. NoFetchWithoutChannels'
  BY DEF TypeOK, NoFetchWithoutChannels, Next, Poll, ReadClock, AdmitClosed, AdmitProbe, Deny, ChannelsRead,
     ChannelsFail, Answer, Fail, Success, Failure, Tick, HealthChange, LetThrough, Return, vars
<1>3. QED
  BY <1>1, <1>2

\* While the breaker is open no call in flight is more than MaxLag younger than the hold.
LEMMA StepHoldFollowsCalls ==
  ASSUME ProbeInv, [Next]_vars, HoldOutlastsCalls
  PROVE  HoldFollowsCalls' /\ ProbesOnlyHalfOpen'
<1> USE ConstantsAssumption DEF ProbeInv, TypeOK, CallsAge, HoldFollowsCalls, ProbesOnlyHalfOpen,
        CLOSED, OPEN, HALF_OPEN, InCall, Reporting, InFlight, breaker
<1>1. ASSUME NEW c \in Callers, ReadClock(c) PROVE HoldFollowsCalls' /\ ProbesOnlyHalfOpen'
  BY <1>1 DEF ReadClock
<1>2. ASSUME NEW c \in Callers, AdmitClosed(c) PROVE HoldFollowsCalls' /\ ProbesOnlyHalfOpen'
  BY <1>2 DEF AdmitClosed, LetThrough, SwitchedOff
<1>3. ASSUME NEW c \in Callers, AdmitProbe(c) PROVE HoldFollowsCalls' /\ ProbesOnlyHalfOpen'
  BY <1>3 DEF AdmitProbe
<1>4. ASSUME NEW c \in Callers, Deny(c) \/ ChannelsFail(c)
      PROVE  HoldFollowsCalls' /\ ProbesOnlyHalfOpen'
  BY <1>4 DEF Deny, ChannelsFail, Return
<1>5. ASSUME NEW c \in Callers, ChannelsRead(c) \/ Answer(c) \/ Fail(c)
      PROVE  HoldFollowsCalls' /\ ProbesOnlyHalfOpen'
  BY <1>5 DEF ChannelsRead, Answer, Fail
<1>6. ASSUME NEW c \in Callers, Success(c) PROVE HoldFollowsCalls' /\ ProbesOnlyHalfOpen'
  BY <1>6 DEF Success, Return, ProbeAlone
<1>7. ASSUME NEW c \in Callers, Failure(c) PROVE HoldFollowsCalls' /\ ProbesOnlyHalfOpen'
  BY <1>7 DEF Failure, RecordFailure, Return, ProbeAlone, SwitchedOff
<1>8. ASSUME Tick PROVE HoldFollowsCalls' /\ ProbesOnlyHalfOpen'
  BY <1>8 DEF Tick, UpTo, HoldCap
<1>9. CASE HealthChange \/ UNCHANGED vars
  BY <1>9 DEF HealthChange, vars
<1>10. QED
  BY <1>1, <1>2, <1>3, <1>4, <1>5, <1>6, <1>7, <1>8, <1>9 DEF Next, Poll

\* An elapsed hold leaves no call behind, so a probe is let out alone and stays alone.
LEMMA StepProbeAlone ==
  ASSUME ProbeInv, [Next]_vars, HoldOutlastsCalls
  PROVE  ProbeAlone' /\ ProbeInFlight' /\ HalfOpenIsProbing'
<1> DEFINE Goal == ProbeAlone' /\ ProbeInFlight' /\ HalfOpenIsProbing'
<1> USE ConstantsAssumption DEF ProbeInv, TypeOK, CallsAge, ProbeAlone, ProbeInFlight, HalfOpenIsProbing,
        CLOSED, OPEN, HALF_OPEN, InCall, Reporting, InFlight, breaker
<1>1. ASSUME NEW c \in Callers, ReadClock(c) PROVE Goal
  BY <1>1 DEF ReadClock
<1>2. ASSUME NEW c \in Callers, AdmitClosed(c) PROVE Goal
  BY <1>2 DEF AdmitClosed, LetThrough, SwitchedOff
<1>3. ASSUME NEW c \in Callers, AdmitProbe(c) PROVE Goal
  <2>1. state = OPEN /\ HoldElapsed(c)
    BY <1>3 DEF AdmitProbe
  <2>2. \A d \in Callers : ~InFlight(d)
    <3>1. SUFFICES ASSUME NEW d \in Callers, InFlight(d) PROVE FALSE
      OBVIOUS
    <3>2. held <= age[d] + MaxLag
      BY <2>1, <3>1 DEF HoldFollowsCalls
    <3>3. age[d] <= CallTimeout + MaxLag
      BY <3>1
    <3>4. held > CallTimeout + 2 * MaxLag
      BY <2>1 DEF HoldElapsed, HoldOutlastsCalls
    <3>5. QED
      BY <3>2, <3>3, <3>4
  <2>3. QED
    BY <1>3, <2>2 DEF AdmitProbe, LetThrough
<1>4. ASSUME NEW c \in Callers, Deny(c) PROVE Goal
  BY <1>4 DEF Deny, Return
<1>5. ASSUME NEW c \in Callers, ChannelsFail(c) PROVE Goal
  BY <1>5 DEF ChannelsFail, Return, NoFetchWithoutChannels
<1>6. ASSUME NEW c \in Callers, ChannelsRead(c) \/ Answer(c) \/ Fail(c) PROVE Goal
  BY <1>6 DEF ChannelsRead, Answer, Fail
<1>7. ASSUME NEW c \in Callers, Success(c) PROVE Goal
  BY <1>7 DEF Success, Return
<1>8. ASSUME NEW c \in Callers, Failure(c) PROVE Goal
  BY <1>8 DEF Failure, RecordFailure, Return, SwitchedOff
<1>9. CASE Tick \/ HealthChange \/ UNCHANGED vars
  BY <1>9 DEF Tick, HealthChange, vars
<1>10. QED
  BY <1>1, <1>2, <1>3, <1>4, <1>5, <1>6, <1>7, <1>8, <1>9 DEF Next, Poll

LEMMA StepProbeInv ==
  ASSUME ProbeInv, [Next]_vars, HoldOutlastsCalls
  PROVE  ProbeInv'
<1>1. TypeOK' /\ CallsAge'
  BY StepTypeOK, StepCallsAge DEF ProbeInv
<1>2. SwitchedOff' /\ NoFetchWithoutChannels'
  BY StepConfiguration DEF ProbeInv
<1>3. HoldFollowsCalls' /\ ProbesOnlyHalfOpen'
  BY StepHoldFollowsCalls
<1>4. ProbeAlone' /\ ProbeInFlight' /\ HalfOpenIsProbing'
  BY StepProbeAlone
<1>5. QED
  BY <1>1, <1>2, <1>3, <1>4 DEF ProbeInv

-----------------------------------------------------------------------------
\* Type correctness needs no assumption on the hold: neither the state nor the
\* bounds on failures and call ages are ever left.
THEOREM TypeCorrect == Spec => []TypeOK
<1>1. Init => TypeOK /\ CallsAge
  BY InitProbeInv DEF ProbeInv
<1>2. TypeOK /\ CallsAge /\ [Next]_vars => TypeOK' /\ CallsAge'
  BY StepTypeOK, StepCallsAge
<1>3. QED
  BY <1>1, <1>2, PTL DEF Spec

\* Whatever the overlap of calls and of late outcomes, the half-open state and
\* the probing flag agree.  No assumption on the hold is needed.
THEOREM HalfOpenMeansProbing == Spec => []HalfOpenIsProbing
<1> DEFINE Inv == HalfOpenIsProbing /\ SwitchedOff
<1>1. Init => Inv
  BY InitProbeInv DEF ProbeInv
<1>2. Inv /\ [Next]_vars => Inv'
  <2>1. SUFFICES ASSUME HalfOpenIsProbing, SwitchedOff, [Next]_vars
                 PROVE  HalfOpenIsProbing' /\ SwitchedOff'
    OBVIOUS
  <2> USE DEF HalfOpenIsProbing, SwitchedOff, CLOSED, OPEN, HALF_OPEN, breaker
  <2>2. ASSUME NEW c \in Callers,
               ReadClock(c) \/ AdmitClosed(c) \/ Deny(c) \/ ChannelsRead(c) \/ ChannelsFail(c)
               \/ Answer(c) \/ Fail(c)
        PROVE  HalfOpenIsProbing' /\ SwitchedOff'
    BY <2>1, <2>2 DEF ReadClock, AdmitClosed, Deny, ChannelsRead, ChannelsFail, Answer, Fail
  <2>3. ASSUME NEW c \in Callers, AdmitProbe(c) \/ Success(c)
        PROVE  HalfOpenIsProbing' /\ SwitchedOff'
    BY <2>1, <2>3 DEF AdmitProbe, Success
  <2>4. ASSUME NEW c \in Callers, Failure(c) PROVE HalfOpenIsProbing' /\ SwitchedOff'
    BY <2>1, <2>4 DEF Failure, RecordFailure
  <2>5. CASE Tick \/ HealthChange \/ UNCHANGED vars
    BY <2>1, <2>5 DEF Tick, HealthChange, vars
  <2>6. QED
    BY <2>1, <2>2, <2>3, <2>4, <2>5 DEF Next, Poll
<1>3. QED
  BY <1>1, <1>2, PTL DEF Spec

\* One probe at a time: when the hold is longer than any call, a half-open breaker
\* has no call in flight but its probe.
THEOREM OneProbeAtATime ==
  ASSUME HoldOutlastsCalls
  PROVE  Spec => []ProbeAlone
<1>1. Init => ProbeInv
  BY InitProbeInv
<1>2. ProbeInv /\ [Next]_vars => ProbeInv'
  BY StepProbeInv
<1>3. ProbeInv => ProbeAlone
  BY DEF ProbeInv
<1>4. QED
  BY <1>1, <1>2, <1>3, PTL DEF Spec

\* And never none: without extra channels, callers are turned away half-open only
\* while the probe is on its way, when the hold is longer than any call.
THEOREM AProbeIsOut ==
  ASSUME HoldOutlastsCalls
  PROVE  Spec => []ProbeInFlight
<1>1. Init => ProbeInv
  BY InitProbeInv
<1>2. ProbeInv /\ [Next]_vars => ProbeInv'
  BY StepProbeInv
<1>3. ProbeInv => ProbeInFlight
  BY DEF ProbeInv
<1>4. QED
  BY <1>1, <1>2, <1>3, PTL DEF Spec

\* "One probe then decides": when the hold is longer than any call, nothing but
\* the outcome of the probe takes the breaker out of half-open.
THEOREM OnlyTheProbeDecides ==
  ASSUME HoldOutlastsCalls
  PROVE  Spec => ProbeDecides
<1>1. Init => ProbeInv
  BY InitProbeInv
<1>2. ProbeInv /\ [Next]_vars => ProbeInv'
  BY StepProbeInv
<1> DEFINE Decides == state = HALF_OPEN /\ state' # HALF_OPEN =>
                        \E c \in Callers : /\ via[c] = HALF_OPEN
                                           /\ pc[c] \in Reporting
                                           /\ pc'[c] = "idle"
<1>3. ProbeInv /\ [Next]_vars => [Decides]_vars
  <2>1. SUFFICES ASSUME ProbeInv, Next, state = HALF_OPEN, state' # HALF_OPEN
                 PROVE  Decides
    OBVIOUS
  <2>2. PICK c \in Callers : Success(c) \/ Failure(c)
    BY <2>1 DEF Next, Poll, ReadClock, AdmitClosed, AdmitProbe, Deny, ChannelsRead, ChannelsFail,
       Answer, Fail, Tick, HealthChange, breaker
  <2>3. pc[c] \in Reporting /\ pc'[c] = "idle"
    BY <2>1, <2>2 DEF Success, Failure, Return, Reporting, ProbeInv, TypeOK
  <2>4. via[c] = HALF_OPEN
    BY <2>1, <2>3 DEF ProbeInv, ProbeAlone, InFlight
  <2>5. QED
    BY <2>3, <2>4
<1>4. QED
  BY <1>1, <1>2, <1>3, PTL DEF Spec, ProbeDecides

=============================================================================
