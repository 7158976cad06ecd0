--------------------------- MODULE ServiceBreaker ---------------------------
(***************************************************************************)
(* The forecast-service breaker (smoothing.py, ServiceBreaker) as the      *)
(* engine drives it: the gRPC server answers KEDA from a thread pool, so   *)
(* several callers poll the same ScaledObject at once.  Each asks the      *)
(* breaker for admission, reads the extra channels from Prometheus, calls  *)
(* the forecast service and reports the outcome (engine.py, _compute and   *)
(* _forecast).                                                             *)
(*                                                                         *)
(* The engine builds one breaker per (ScaledObject, configuration), so     *)
(* the key dictionary of the code holds one entry and the state of that    *)
(* entry is the state of this module.                                      *)
(*                                                                         *)
(* admit() and failure() read the clock before they take the lock; the     *)
(* two are separate steps here.  Time is kept as ages: `held' is the time  *)
(* since opened_at, `lag[c]' the time since caller c's last clock read,    *)
(* so that (now read by c) - opened_at is held - lag[c].                   *)
(***************************************************************************)
EXTENDS Integers

CONSTANTS
  Callers,      \* worker threads that poll the ScaledObject
  Failures,     \* cfg.failures: consecutive failures that open the breaker (0 = never)
  OpenSeconds,  \* cfg.open_seconds: hold before a call is let through
  CallTimeout,  \* ticks a call may stay in flight: channel fetches and forecast timeout
  MaxLag        \* ticks a thread may take between a clock read and the lock

ASSUME ConstantsAssumption ==
  /\ Failures \in Nat
  /\ OpenSeconds \in Nat \ {0}
  /\ CallTimeout \in Nat \ {0}
  /\ MaxLag \in Nat \ {0}

VARIABLES
  channels,              \* cfg.channels is not empty (fixed for the life of the breaker)
  state,                 \* _ServiceState.state
  consecutive_failures,  \* _ServiceState.consecutive_failures, counted up to Failures
  probing,               \* _ServiceState.probing
  held,                  \* ticks since _ServiceState.opened_at, counted up to HoldCap
  pc,                    \* where each caller is
  via,                   \* Admission.state of each caller's admission
  lag,                   \* ticks since the caller's last clock read (or answer)
  age,                   \* ticks since the caller was admitted
  healthy                \* environment: the service answers every call in time

breaker == <<state, consecutive_failures, probing, held>>
vars == <<channels, state, consecutive_failures, probing, held, pc, via, lag,
          age, healthy>>

CLOSED == "closed"
OPEN == "open"
HALF_OPEN == "half_open"

\* A reading differs from the present by at most MaxLag, so comparing held
\* with OpenSeconds needs no larger value of held than this one.
HoldCap == OpenSeconds + MaxLag

UpTo(n, bound) == IF n < bound THEN n ELSE bound

InCall == {"fetching", "calling"}            \* between admission and the answer
Reporting == {"succeeding", "failing"}       \* the outcome is not recorded yet
InFlight(c) == pc[c] \in InCall \cup Reporting

-----------------------------------------------------------------------------
Init ==
  /\ channels \in BOOLEAN
  /\ state = CLOSED
  /\ consecutive_failures = 0
  /\ probing = FALSE
  /\ held = HoldCap
  /\ pc = [c \in Callers |-> "idle"]
  /\ via = [c \in Callers |-> CLOSED]
  /\ lag = [c \in Callers |-> 0]
  /\ age = [c \in Callers |-> 0]
  /\ healthy = TRUE

\* Caller c is done with the breaker: a decision has been made or an error raised.
Return(c) ==
  /\ pc' = [pc EXCEPT ![c] = "idle"]
  /\ via' = [via EXCEPT ![c] = CLOSED]
  /\ lag' = [lag EXCEPT ![c] = 0]
  /\ age' = [age EXCEPT ![c] = 0]

\* Caller c is let through to the service in breaker state s.
LetThrough(c, s) ==
  /\ pc' = [pc EXCEPT ![c] = IF channels THEN "fetching" ELSE "calling"]
  /\ via' = [via EXCEPT ![c] = s]
  /\ lag' = [lag EXCEPT ![c] = 0]
  /\ UNCHANGED age

\* admit(): now = self._clock(), before the lock.
ReadClock(c) ==
  /\ pc[c] = "idle"
  /\ pc' = [pc EXCEPT ![c] = "admitting"]
  /\ UNCHANGED <<channels, breaker, via, lag, age, healthy>>

\* admit(), under the lock, CLOSED (or the breaker is switched off).
AdmitClosed(c) ==
  /\ pc[c] = "admitting"
  /\ Failures = 0 \/ state = CLOSED
  /\ LetThrough(c, CLOSED)
  /\ UNCHANGED <<channels, breaker, healthy>>

\* Faulty variants: the hold is not compared with open_seconds; the
\* subtraction is the wrong way round.
HoldElapsedAnyHold(c) == held - lag[c] >= 1
HoldElapsedSwapped(c) == lag[c] - held >= OpenSeconds

\* admit(), OPEN: the hold is compared with the clock read before the lock.
HoldElapsed(c) == held - lag[c] >= OpenSeconds

\* Faulty variant: the probe is not marked.
AdmitProbeUnmarked(c) ==
  /\ pc[c] = "admitting"
  /\ Failures # 0
  /\ \/ state = OPEN /\ HoldElapsed(c)
     \/ state = HALF_OPEN /\ ~probing
  /\ state' = HALF_OPEN
  /\ LetThrough(c, HALF_OPEN)
  /\ UNCHANGED <<channels, consecutive_failures, probing, held, healthy>>

AdmitProbe(c) ==
  /\ pc[c] = "admitting"
  /\ Failures # 0
  /\ \/ state = OPEN /\ HoldElapsed(c)
     \/ state = HALF_OPEN /\ ~probing
  /\ state' = HALF_OPEN
  /\ probing' = TRUE
  /\ LetThrough(c, HALF_OPEN)
  /\ UNCHANGED <<channels, consecutive_failures, held, healthy>>

\* admit(), OPEN before the hold or HALF_OPEN with a probe out: stay reactive.
Deny(c) ==
  /\ pc[c] = "admitting"
  /\ Failures # 0
  /\ \/ state = OPEN /\ ~HoldElapsed(c)
     \/ state = HALF_OPEN /\ probing
  /\ Return(c)
  /\ UNCHANGED <<channels, breaker, healthy>>

\* _channels(): the extra series are read, the call to the service follows.
ChannelsRead(c) ==
  /\ pc[c] = "fetching"
  /\ pc' = [pc EXCEPT ![c] = "calling"]
  /\ UNCHANGED <<channels, breaker, via, lag, age, healthy>>

\* _channels() raises PrometheusError, which leaves _forecast before its try:
\* neither success() nor failure() is called.
ChannelsFail(c) ==
  /\ pc[c] = "fetching"
  /\ Return(c)
  /\ UNCHANGED <<channels, breaker, healthy>>

\* The service answers.
Answer(c) ==
  /\ pc[c] = "calling"
  /\ pc' = [pc EXCEPT ![c] = "succeeding"]
  /\ UNCHANGED <<channels, breaker, via, lag, age, healthy>>

\* The call fails (timeout, 5xx, connection, unusable body), and failure()
\* reads the clock.
Fail(c) ==
  /\ pc[c] = "calling"
  /\ ~healthy
  /\ pc' = [pc EXCEPT ![c] = "failing"]
  /\ UNCHANGED <<channels, breaker, via, lag, age, healthy>>

\* success(), under the lock.
Success(c) ==
  /\ pc[c] = "succeeding"
  /\ state' = CLOSED
  /\ consecutive_failures' = 0
  /\ probing' = FALSE
  /\ Return(c)
  /\ UNCHANGED <<channels, held, healthy>>

\* Faulty variant: only a closed breaker opens.
RecordFailureWhenClosed(c) ==
  LET count == consecutive_failures + 1
      opens == state = CLOSED /\ count >= Failures
  IN  /\ consecutive_failures' = UpTo(count, Failures)
      /\ probing' = FALSE
      /\ state' = IF opens THEN OPEN ELSE state
      /\ held' = IF opens \/ state = OPEN THEN lag[c] ELSE held

\* failure(), under the lock; opened_at becomes the earlier clock reading.
RecordFailure(c) ==
  LET count == consecutive_failures + 1
      opens == state = HALF_OPEN \/ (state = CLOSED /\ count >= Failures)
  IN  /\ consecutive_failures' = UpTo(count, Failures)
      /\ probing' = FALSE
      /\ state' = IF opens THEN OPEN ELSE state
      /\ held' = IF opens \/ state = OPEN THEN lag[c] ELSE held

Failure(c) ==
  /\ pc[c] = "failing"
  /\ IF Failures = 0 THEN UNCHANGED breaker ELSE RecordFailure(c)
  /\ Return(c)
  /\ UNCHANGED <<channels, healthy>>

\* A tick of the clock.  Threads reach the lock within MaxLag ticks and calls
\* come back within CallTimeout ticks.
Tick ==
  /\ \A c \in Callers : /\ pc[c] \in {"admitting"} \cup Reporting => lag[c] < MaxLag
                        /\ pc[c] \in InCall => age[c] < CallTimeout
  /\ held' = UpTo(held + 1, HoldCap)
  /\ lag' = [c \in Callers |-> IF pc[c] \in {"admitting"} \cup Reporting
                               THEN lag[c] + 1 ELSE lag[c]]
  /\ age' = [c \in Callers |-> IF InFlight(c) THEN age[c] + 1 ELSE age[c]]
  /\ UNCHANGED <<channels, state, consecutive_failures, probing, pc, via, healthy>>

\* The service goes down or comes back.
HealthChange ==
  /\ healthy' = ~healthy
  /\ UNCHANGED <<channels, breaker, pc, via, lag, age>>

Poll(c) ==
  \/ ReadClock(c)
  \/ AdmitClosed(c)
  \/ AdmitProbe(c)
  \/ Deny(c)
  \/ ChannelsRead(c)
  \/ ChannelsFail(c)
  \/ Answer(c)
  \/ Fail(c)
  \/ Success(c)
  \/ Failure(c)

Next ==
  \/ \E c \in Callers : Poll(c)
  \/ Tick
  \/ HealthChange

Spec == Init /\ [][Next]_vars

\* KEDA polls for as long as the ScaledObject exists, threads that can run do
\* run, and time passes.
Fairness == WF_vars(Tick) /\ \A c \in Callers : WF_vars(Poll(c))
FairSpec == Spec /\ Fairness

-----------------------------------------------------------------------------
(***************************************************************************)
(* Properties.                                                             *)
(***************************************************************************)

\* Every variable stays in its type: the failure count never passes the
\* budget and no call outlives its timeout.
TypeOK ==
  /\ channels \in BOOLEAN
  /\ state \in {CLOSED, OPEN, HALF_OPEN}
  /\ consecutive_failures \in 0..Failures
  /\ probing \in BOOLEAN
  /\ held \in 0..HoldCap
  /\ pc \in [Callers -> {"idle", "admitting"} \cup InCall \cup Reporting]
  /\ via \in [Callers -> {CLOSED, HALF_OPEN}]
  /\ lag \in [Callers -> 0..MaxLag]
  /\ age \in [Callers -> 0..(CallTimeout + MaxLag)]
  /\ healthy \in BOOLEAN

\* The hold is longer than any call it may have to outlast: a call admitted
\* before the breaker opened has been recorded before the hold is over.
\* (config.py accepts any positive open_seconds and timeouts; the defaults, 30 s
\* against 0.2 s, satisfy it.)
HoldOutlastsCalls == OpenSeconds > CallTimeout + 2 * MaxLag

\* The half-open state and the probing flag (smoothing.py, "one probe at a
\* time") always say the same, whatever the interleaving of late outcomes: the
\* branch of admit() that hands out a probe in HALF_OPEN is never taken.
HalfOpenIsProbing == probing <=> state = HALF_OPEN

\* "One probe at a time; concurrent callers stay reactive": while the breaker
\* is half-open the only call that can be in flight is the one probe.
ProbeAlone ==
  state = HALF_OPEN =>
    \A c, d \in Callers :
      InFlight(c) /\ InFlight(d) => c = d /\ via[c] = HALF_OPEN

\* "A probe is in flight", the reason callers are turned away half-open, is
\* true: somebody is out there who will decide.  Without extra channels.
ProbeInFlight ==
  state = HALF_OPEN /\ ~channels =>
    \E c \in Callers : InFlight(c) /\ via[c] = HALF_OPEN

\* "One probe then decides": the breaker leaves half-open only because the
\* probe has come back, never on the late outcome of an older call.
ProbeDecides ==
  [][state = HALF_OPEN /\ state' # HALF_OPEN =>
       \E c \in Callers : /\ via[c] = HALF_OPEN
                          /\ pc[c] \in Reporting
                          /\ pc'[c] = "idle"]_vars

\* A service that is well again is used again: without extra channels, the
\* breaker closes for good once the service answers every call.
Recovers == ~channels /\ <>[]healthy => <>[](state = CLOSED)

\* A channel query failed on the way of the probe (ChannelsFail): the breaker
\* waits for an outcome that nobody will report.
ProbeLost ==
  channels /\ ~\E c \in Callers : InFlight(c) /\ via[c] = HALF_OPEN

\* "One probe then decides", and that is the only way it does not: a half-open
\* breaker is decided one way or the other unless its probe is lost.
HalfOpenEnds == state = HALF_OPEN ~> (state # HALF_OPEN \/ ProbeLost)

-----------------------------------------------------------------------------
(***************************************************************************)
(* The inductive strengthening of ProbeAlone and ProbeInFlight.  It ties   *)
(* the age of every call to the age of the hold: while the breaker is open *)
(* the hold is at most MaxLag older than each call still in flight, so a   *)
(* hold that is over leaves no call behind.                                *)
(***************************************************************************)
CallsAge ==
  \A c \in Callers :
    /\ pc[c] \in InCall => age[c] <= CallTimeout /\ lag[c] = 0
    /\ pc[c] \in Reporting => age[c] <= CallTimeout + lag[c]
    /\ ~InFlight(c) => age[c] = 0
    /\ pc[c] = "idle" => lag[c] = 0

SwitchedOff == Failures = 0 => state = CLOSED

NoFetchWithoutChannels == ~channels => \A c \in Callers : pc[c] # "fetching"

ProbesOnlyHalfOpen ==
  state # HALF_OPEN => \A c \in Callers : InFlight(c) => via[c] = CLOSED

HoldFollowsCalls ==
  state = OPEN => \A c \in Callers : InFlight(c) => held <= age[c] + MaxLag

ProbeInv ==
  /\ TypeOK
  /\ CallsAge
  /\ SwitchedOff
  /\ NoFetchWithoutChannels
  /\ HalfOpenIsProbing
  /\ ProbesOnlyHalfOpen
  /\ HoldFollowsCalls
  /\ ProbeAlone
  /\ ProbeInFlight

=============================================================================
