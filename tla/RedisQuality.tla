----------------------------- MODULE RedisQuality -----------------------------
(***************************************************************************)
(* Forecast quality in Redis (serving/quality.py, RedisMetricsEngine): the *)
(* forecasts of one series and their errors, shared by the pods of         *)
(* forecast-serving, and in each pod the records under way, the cooldown   *)
(* after a failure and the gauges, which a model swap clears               *)
(* (serving/app.py, install).                                              *)
(*                                                                         *)
(* Time is counted in steps of the series, so that every window lies on    *)
(* the grid and a key is an instant.  Of an error the model keeps which    *)
(* forecast it belongs to, of a gauge the model version it describes.      *)
(* Keys live longer than windows reach: none expires.                      *)
(* The check of the cooldown and the first round trip are one step.        *)
(***************************************************************************)
EXTENDS Integers, Sequences

CONSTANTS
  Pods,
  Requests,      \* requests in flight
  PodOf,         \* the pod each of them is routed to
  Scraped,       \* the pods whose gauges the model keeps
  Versions,      \* model versions
  None,          \* no version
  Steps,         \* length of the forecast horizon
  WindowSteps,   \* samples of a window
  RollingWindow, \* rolling_window_size
  MaxTime        \* bound on the newest sample's time

ASSUME ConstantsAssumption ==
  /\ PodOf \in [Requests -> Pods]
  /\ Scraped \subseteq Pods
  /\ None \notin Versions
  /\ Steps \in Nat \ {0}
  /\ WindowSteps \in Nat \ {0}
  /\ RollingWindow \in Nat \ {0}
  /\ MaxTime \in Nat

VARIABLES
  forecast,  \* forecast:{series}:{timestamp}: the version that made it, or None
  scored,    \* ...:scored: the steps claimed
  errors,    \* metrics:mae:{version}:{step}: the instants of the forecasts, newest first
  now,       \* the newest sample
  serving,   \* STORE._bundle's version in each pod
  swapping,  \* install() is between the bundle and the tracker's version
  current,   \* _current_version
  paused,    \* the cooldown is running
  gauge,     \* gauge forecast_rolling_mae by step: the version it describes, or None
  counted,   \* history: the pairs in the pods' histograms forecast_abs_error
  pc,        \* where each request is
  version,   \* the version that answered it, until its forecast is stored
  end,       \* its timestamp, the window's last instant
  pending,   \* its claims not yet sent
  won,       \* its claims that were new
  shows      \* by step, the version its gauge will describe, or None to leave it

redis == <<forecast, scored, errors>>
pod == <<serving, swapping, current, paused, gauge>>
request == <<pc, version, end, pending, won, shows>>
vars == <<redis, now, pod, counted, request>>

Instants == 0..MaxTime
Horizon == 1..Steps
Pairs == Instants \X Horizon
Nowhere == [k \in Horizon |-> None]

\* The last WindowSteps instants up to t.
Window(t) == {i \in Instants : t - WindowSteps < i /\ i <= t}

-----------------------------------------------------------------------------
Init ==
  /\ forecast = [i \in Instants |-> None]
  /\ scored = [i \in Instants |-> {}]
  /\ errors = [v \in Versions |-> [k \in Horizon |-> <<>>]]
  /\ now = 0
  /\ serving \in [Pods -> Versions]
  /\ swapping = [p \in Pods |-> TRUE]
  /\ current = [p \in Pods |-> None]
  /\ paused = [p \in Pods |-> FALSE]
  /\ gauge = [p \in Pods |-> Nowhere]
  /\ counted = {}
  /\ pc = [r \in Requests |-> "idle"]
  /\ version = [r \in Requests |-> None]
  /\ end = [r \in Requests |-> 0]
  /\ pending = [r \in Requests |-> {}]
  /\ won = [r \in Requests |-> {}]
  /\ shows = [r \in Requests |-> Nowhere]

GoTo(r, label) == pc' = [pc EXCEPT ![r] = label]

(***************************************************************************)
(* The swap, on the event loop.                                            *)
(***************************************************************************)

\* install(): the bundle is in place, reset() clears the gauges.
Swap(p) ==
  /\ ~swapping[p]
  /\ \E v \in Versions \ {serving[p]} : serving' = [serving EXCEPT ![p] = v]
  /\ swapping' = [swapping EXCEPT ![p] = TRUE]
  /\ gauge' = [gauge EXCEPT ![p] = Nowhere]
  /\ UNCHANGED <<redis, now, current, paused, counted, request>>

\* reset(), under the lock: gauges follow the new version from now on.
Adopt(p) ==
  /\ swapping[p]
  /\ current' = [current EXCEPT ![p] = serving[p]]
  /\ swapping' = [swapping EXCEPT ![p] = FALSE]
  /\ UNCHANGED <<redis, now, serving, paused, gauge, counted, request>>

(***************************************************************************)
(* A request.                                                              *)
(***************************************************************************)

\* predict(): the bundle is read once, the window ends at the newest sample.
Predict(r) ==
  /\ pc[r] = "idle"
  /\ ~swapping[PodOf[r]]
  /\ version' = [version EXCEPT ![r] = serving[PodOf[r]]]
  /\ end' = [end EXCEPT ![r] = now]
  /\ GoTo(r, "recording")
  /\ UNCHANGED <<redis, now, pod, counted, pending, won, shows>>

\* The request has nothing left.
Done(r) ==
  /\ GoTo(r, "idle")
  /\ version' = [version EXCEPT ![r] = None]
  /\ end' = [end EXCEPT ![r] = 0]
  /\ pending' = [pending EXCEPT ![r] = {}]
  /\ won' = [won EXCEPT ![r] = {}]
  /\ shows' = [shows EXCEPT ![r] = Nowhere]

\* record(), under the lock: a pod without a version adopts the request's.
AdoptFirst(r) ==
  current' = [current EXCEPT ![PodOf[r]] = IF @ = None THEN version[r] ELSE @]

\* In the cooldown that is all.
Skip(r) ==
  /\ pc[r] = "recording"
  /\ paused[PodOf[r]]
  /\ AdoptFirst(r)
  /\ Done(r)
  /\ UNCHANGED <<redis, now, serving, swapping, paused, gauge, counted>>

\* What of a window can be scored: the pairs whose target it holds.
Covered(t) == {c \in Pairs : forecast[c[1]] # None /\ c[1] + c[2] \in Window(t)}

\* _find_claims(), the first round trip: of these, the ones not yet claimed.
FindClaims(r) ==
  /\ pc[r] = "recording"
  /\ ~paused[PodOf[r]]
  /\ AdoptFirst(r)
  /\ pending' = [pending EXCEPT ![r] = {c \in Covered(end[r]) : c[2] \notin scored[c[1]]}]
  /\ GoTo(r, "preparing")
  /\ UNCHANGED <<redis, now, serving, swapping, paused, gauge, counted, version, end, won, shows>>

\* _execute() until the second round trip: the current version, and the windows
\* of that version that the claims touch.
Prepare(r) ==
  /\ pc[r] = "preparing"
  /\ LET v == current[PodOf[r]] IN
     shows' = [shows EXCEPT ![r] =
       [k \in Horizon |-> IF /\ PodOf[r] \in Scraped
                             /\ \E c \in pending[r] : c[2] = k /\ forecast[c[1]] = v
                            THEN v ELSE None]]
  /\ GoTo(r, "claiming")
  /\ UNCHANGED <<redis, now, pod, counted, version, end, pending, won>>

\* LPUSH and LTRIM.
Pushed(window, i) ==
  <<i>> \o IF Len(window) < RollingWindow THEN window ELSE SubSeq(window, 1, RollingWindow - 1)

\* Faulty variant: the script does not look at what SADD answers.
ClaimUnchecked(r) ==
  /\ pc[r] = "claiming"
  /\ \E c \in pending[r] :
       /\ pending' = [pending EXCEPT ![r] = @ \ {c}]
       /\ scored' = [scored EXCEPT ![c[1]] = @ \cup {c[2]}]
       /\ errors' = [errors EXCEPT ![forecast[c[1]]][c[2]] = Pushed(@, c[1])]
       /\ won' = [won EXCEPT ![r] = @ \cup {c}]
  /\ UNCHANGED <<forecast, now, pod, counted, pc, version, end, shows>>

\* One run of the script _CLAIM_AND_PUSH: SADD decides who pushes.
Claim(r) ==
  /\ pc[r] = "claiming"
  /\ \E c \in pending[r] :
       LET i == c[1]  k == c[2] IN
       /\ pending' = [pending EXCEPT ![r] = @ \ {c}]
       /\ IF k \in scored[i]
            THEN UNCHANGED <<scored, errors, won>>
            ELSE /\ scored' = [scored EXCEPT ![i] = @ \cup {k}]
                 /\ errors' = [errors EXCEPT ![forecast[i]][k] = Pushed(@, i)]
                 /\ won' = [won EXCEPT ![r] = @ \cup {c}]
  /\ UNCHANGED <<forecast, now, pod, counted, pc, version, end, shows>>

\* Faulty variant: SET without NX.
StoreOver(r) ==
  /\ pc[r] = "claiming"
  /\ pending[r] = {}
  /\ forecast' = [forecast EXCEPT ![end[r]] = version[r]]
  /\ version' = [version EXCEPT ![r] = None]
  /\ end' = [end EXCEPT ![r] = 0]
  /\ GoTo(r, "answered")
  /\ UNCHANGED <<scored, errors, now, pod, counted, pending, won, shows>>

\* The rest of the pipeline: the windows are read, the forecast is stored if it is
\* the first of its instant (SET NX).
Store(r) ==
  /\ pc[r] = "claiming"
  /\ pending[r] = {}
  /\ forecast' = [forecast EXCEPT ![end[r]] = IF @ = None THEN version[r] ELSE @]
  /\ version' = [version EXCEPT ![r] = None]
  /\ end' = [end EXCEPT ![r] = 0]
  /\ GoTo(r, "answered")
  /\ UNCHANGED <<scored, errors, now, pod, counted, pending, won, shows>>

\* The replies: what was won is counted, the gauges are set.
Answered(r) ==
  LET p == PodOf[r] IN
  /\ pc[r] = "answered"
  /\ counted' = counted \cup won[r]
  /\ gauge' = [gauge EXCEPT ![p] =
                 [k \in Horizon |-> IF shows[r][k] # None THEN shows[r][k] ELSE @[k]]]
  /\ Done(r)
  /\ UNCHANGED <<redis, now, serving, swapping, current, paused>>

\* _failed(): Redis or the network fails in a round trip, whatever of it Redis has
\* done.
Fail(r) ==
  LET p == PodOf[r] IN
  /\ \/ pc[r] = "recording" /\ ~paused[p] /\ AdoptFirst(r)
     \/ pc[r] \in {"claiming", "answered"} /\ UNCHANGED current
  /\ paused' = [paused EXCEPT ![p] = TRUE]
  /\ Done(r)
  /\ UNCHANGED <<redis, now, serving, swapping, gauge, counted>>

\* cooldown_seconds are over.
Cool(p) ==
  /\ paused[p]
  /\ paused' = [paused EXCEPT ![p] = FALSE]
  /\ UNCHANGED <<redis, now, serving, swapping, current, gauge, counted, request>>

(***************************************************************************)
(* Around the pods.                                                        *)
(***************************************************************************)

\* A pod is replaced, and the new one loads a model: its requests are lost,
\* whatever of them Redis has done.
Restart(p) ==
  LET lost == {r \in Requests : PodOf[r] = p} IN
  /\ \E v \in Versions : serving' = [serving EXCEPT ![p] = v]
  /\ swapping' = [swapping EXCEPT ![p] = TRUE]
  /\ current' = [current EXCEPT ![p] = None]
  /\ paused' = [paused EXCEPT ![p] = FALSE]
  /\ gauge' = [gauge EXCEPT ![p] = Nowhere]
  /\ pc' = [r \in Requests |-> IF r \in lost THEN "idle" ELSE pc[r]]
  /\ version' = [r \in Requests |-> IF r \in lost THEN None ELSE version[r]]
  /\ end' = [r \in Requests |-> IF r \in lost THEN 0 ELSE end[r]]
  /\ pending' = [r \in Requests |-> IF r \in lost THEN {} ELSE pending[r]]
  /\ won' = [r \in Requests |-> IF r \in lost THEN {} ELSE won[r]]
  /\ shows' = [r \in Requests |-> IF r \in lost THEN Nowhere ELSE shows[r]]
  /\ UNCHANGED <<redis, now, counted>>

Tick ==
  /\ now < MaxTime
  /\ now' = now + 1
  /\ UNCHANGED <<redis, pod, counted, request>>

Serve(r) ==
  \/ Predict(r) \/ Skip(r) \/ FindClaims(r) \/ Prepare(r) \/ Claim(r) \/ Store(r)
  \/ Answered(r) \/ Fail(r)

Next ==
  \/ \E p \in Pods : Swap(p) \/ Adopt(p) \/ Cool(p) \/ Restart(p)
  \/ \E r \in Requests : Serve(r)
  \/ Tick

Spec == Init /\ [][Next]_vars

-----------------------------------------------------------------------------
(***************************************************************************)
(* Properties.                                                             *)
(***************************************************************************)
Labels == {"idle", "recording", "preparing", "claiming", "answered"}

\* Every variable stays in its type; error windows are "bounded Redis lists".
TypeOK ==
  /\ forecast \in [Instants -> Versions \cup {None}]
  /\ scored \in [Instants -> SUBSET Horizon]
  /\ errors \in [Versions -> [Horizon -> Seq(Instants)]]
  /\ \A v \in Versions, k \in Horizon : Len(errors[v][k]) <= RollingWindow
  /\ now \in Instants
  /\ serving \in [Pods -> Versions]
  /\ swapping \in [Pods -> BOOLEAN]
  /\ current \in [Pods -> Versions \cup {None}]
  /\ paused \in [Pods -> BOOLEAN]
  /\ gauge \in [Pods -> [Horizon -> Versions \cup {None}]]
  /\ counted \subseteq Pairs
  /\ pc \in [Requests -> Labels]
  /\ version \in [Requests -> Versions \cup {None}]
  /\ end \in [Requests -> Instants]
  /\ pending \in [Requests -> SUBSET Pairs]
  /\ won \in [Requests -> SUBSET Pairs]
  /\ shows \in [Requests -> [Horizon -> Versions \cup {None}]]

\* "Each (forecast, step) pair is scored at most once", by whichever replica: an
\* error that enters a window belongs to a pair nobody had claimed, and claims stay.
ScoredOnce ==
  [][/\ \A v \in Versions, k \in Horizon :
          errors'[v][k] # errors[v][k] => k \notin scored[Head(errors'[v][k])]
     /\ \A i \in Instants : scored[i] \subseteq scored'[i]]_vars

\* "Its forecasts score into their own windows, never the new one's": an error is
\* in the window of the version that made the forecast, whichever version the pod
\* that scored it serves.
OwnWindows ==
  \A v \in Versions, k \in Horizon :
    \A a \in DOMAIN errors[v][k] : forecast[errors[v][k][a]] = v

\* No pair is counted by two pods, or twice by one: what a request has won nobody
\* else has won or counted.
CountedOnce ==
  \A r \in Requests :
    /\ won[r] \cap counted = {}
    /\ \A s \in Requests \ {r} : won[r] \cap won[s] = {}

\* "Gauges follow the version that serves from now on, and a record of the old
\* version still in flight cannot move them back" (serving/quality.py:578-580).
GaugesFollow ==
  \A p \in Pods, k \in Horizon :
    ~swapping[p] /\ gauge[p][k] # None => gauge[p][k] = serving[p]

=============================================================================
