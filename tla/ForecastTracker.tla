--------------------------- MODULE ForecastTracker ---------------------------
(***************************************************************************)
(* The in-memory quality tracker of one pod of forecast-serving            *)
(* (serving/quality.py, ForecastTracker) between the requests that record  *)
(* in it (serving/app.py, predict) and the swaps of the model (install).   *)
(* A request reads the model once, at its start; its record is made by a   *)
(* thread of the quality pool, in any order with those of other requests.  *)
(*                                                                         *)
(* Windows hold every one of the last Window instants, as prepare_input()  *)
(* makes sure, and all callers have the same step.                         *)
(***************************************************************************)
EXTENDS Integers, FiniteSets, SequencesExt

CONSTANTS
  Series,      \* keys of the callers
  Requests,    \* requests that can be under way at a time
  Window,      \* time_steps
  Horizon,
  MaxSeries,   \* max_series
  MaxPending,  \* max_pending
  MaxTime,     \* bound: newest instant
  MaxVersion   \* bound: versions of the model

ASSUME TrackerAssumption ==
  /\ Window \in Nat \ {0} /\ Horizon \in Nat \ {0}
  /\ MaxSeries \in Nat \ {0} /\ MaxPending \in Nat \ {0}
  /\ MaxTime \in Nat \ {0} /\ MaxVersion \in Nat \ {0}

VARIABLES
  newest,   \* newest instant callers have
  served,   \* version of STORE._bundle
  version,  \* _version
  queues,   \* _pending: least recently used first
  request,  \* the requests
  counted,  \* history: instants and steps of each series whose error was counted
  twice,    \* history: series one of whose instants was counted twice for a step
  latest,   \* history: newest instant recorded of each series
  late      \* history: series with a record older than one before it

tracker == <<version, queues>>
history == <<counted, twice, latest, late>>
trackerVars == <<newest, served, version, queues, request, counted, twice, latest, late>>

Free == [pc |-> "free"]

Forecast(at, v) == [made_at |-> at, version |-> v, resolved |-> {}]

-----------------------------------------------------------------------------
TrackerInit ==
  /\ newest = 1
  /\ served = 1
  /\ version = 1
  /\ queues = <<>>
  /\ request = [r \in Requests |-> Free]
  /\ counted = {}
  /\ twice = {}
  /\ latest = [s \in Series |-> 0]
  /\ late = {}

NextInstant ==
  /\ newest < MaxTime
  /\ newest' = newest + 1
  /\ UNCHANGED <<served, tracker, request, history>>

\* install() puts the bundle in its place and then resets the tracker; it runs
\* on the event loop, where no request begins meanwhile.
InstallBundle ==
  /\ served = version
  /\ served < MaxVersion
  /\ served' = served + 1
  /\ UNCHANGED <<newest, tracker, request, history>>

Reset ==
  /\ served # version
  /\ version' = served
  /\ queues' = <<>>
  /\ UNCHANGED <<newest, served, request, history>>

\* predict() reads the bundle; the caller's window ends at the newest instant.
Begin(r) ==
  /\ request[r].pc = "free"
  /\ served = version
  /\ \E s \in Series :
       request' = [request EXCEPT ![r] =
         [pc |-> "recording", series |-> s, at |-> newest, version |-> served]]
  /\ UNCHANGED <<newest, served, tracker, history>>

\* Validation or inference fails, or the caller is gone.
Drop(r) ==
  /\ request[r].pc = "recording"
  /\ request' = [request EXCEPT ![r] = Free]
  /\ UNCHANGED <<newest, served, tracker, history>>

(***************************************************************************)
(* record(), under the lock.                                               *)
(***************************************************************************)
QueueOf(s) == SelectInSeq(queues, LAMBDA q : q.series = s)

\* The queues with that of s last, evicting the one least recently used.
Taken(s) ==
  IF QueueOf(s) # 0
    THEN Append(RemoveAt(queues, QueueOf(s)), queues[QueueOf(s)])
    ELSE Append(IF Len(queues) >= MaxSeries THEN Tail(queues) ELSE queues,
                [series |-> s, forecasts |-> <<>>])

\* Steps of a forecast a window ending at t holds the actual value of.
Due(f, t) ==
  {k \in (1..Horizon) \ f.resolved : f.made_at + k \in (t - Window + 1)..t}

\* _resolve().
Resolved(q, t) == [j \in DOMAIN q |-> [q[j] EXCEPT !.resolved = @ \cup Due(q[j], t)]]

Expired(f, t) ==
  \/ Cardinality(f.resolved) = Horizon
  \/ f.made_at + Horizon < t - Window + 1

\* _expire(): from the oldest on, up to the first that stays.
Live(q, t) ==
  LET staying == {j \in DOMAIN q : ~Expired(q[j], t)}
  IN IF staying = {} THEN <<>>
     ELSE SubSeq(q, CHOOSE j \in staying : \A k \in staying : j <= k, Len(q))

\* deque(maxlen=max_pending).
Bounded(q) == IF Len(q) > MaxPending THEN Tail(q) ELSE q

\* Faulty variant: every call leaves its forecast.
QueuedAlways(q, t, v) == Bounded(Append(q, Forecast(t, v)))

\* One forecast per instant, if it is the last one.
Queued(q, t, v) ==
  IF q # <<>> /\ Last(q).made_at = t THEN q ELSE Bounded(Append(q, Forecast(t, v)))

\* Faulty variant: records of another version are taken.
OwnAny(r) == TRUE

Own(r) == request[r].version = version

Record(r) ==
  LET s == request[r].series
      t == request[r].at
      taken == Taken(s)
      mine == CHOOSE j \in DOMAIN taken : taken[j].series = s
      q == taken[mine].forecasts
      scored == UNION {{<<s, q[j].made_at, k>> : k \in Due(q[j], t)} : j \in DOMAIN q}
      double == \E i, j \in DOMAIN q : i # j /\ q[i].made_at = q[j].made_at
                                         /\ Due(q[i], t) \cap Due(q[j], t) # {}
  IN /\ request[r].pc = "recording"
     /\ IF Own(r)
          THEN /\ queues' = [taken EXCEPT ![mine].forecasts =
                               Queued(Live(Resolved(q, t), t), t, request[r].version)]
               /\ counted' = counted \cup scored
               /\ twice' = twice \cup (IF scored \cap counted # {} \/ double THEN {s} ELSE {})
               /\ latest' = [latest EXCEPT ![s] = IF t > @ THEN t ELSE @]
               /\ late' = late \cup (IF t < latest[s] THEN {s} ELSE {})
          ELSE UNCHANGED <<queues, history>>
     /\ request' = [request EXCEPT ![r] = Free]
     /\ UNCHANGED <<newest, served, version>>

TrackerNext ==
  \/ NextInstant \/ InstallBundle \/ Reset
  \/ \E r \in Requests : Begin(r) \/ Drop(r) \/ Record(r)

TrackerSpec == TrackerInit /\ [][TrackerNext]_trackerVars

-----------------------------------------------------------------------------
(***************************************************************************)
(* Properties.                                                             *)
(***************************************************************************)
ForecastType == [made_at : 1..MaxTime, version : 1..MaxVersion, resolved : SUBSET (1..Horizon)]

TrackerTypeOK ==
  /\ newest \in 1..MaxTime
  /\ served \in 1..MaxVersion /\ version \in 1..MaxVersion
  /\ queues \in Seq([series : Series, forecasts : Seq(ForecastType)])
  /\ Len(queues) <= MaxSeries
  /\ \A j \in DOMAIN queues : Len(queues[j].forecasts) <= MaxPending
  /\ request \in [Requests ->
        {Free} \cup [pc : {"recording"}, series : Series, at : 1..MaxTime, version : 1..MaxVersion]]

\* "The old model's forecasts are not the new one's errors": what can be scored
\* was forecast by the version that is tracked, whatever was in flight at the swap.
OwnForecasts ==
  \A j \in DOMAIN queues : \A i \in DOMAIN queues[j].forecasts :
    queues[j].forecasts[i].version = version

\* "Must not count its error twice": of a series whose records come in order of
\* their instants, no instant's error is counted twice for a step, whichever
\* callers repeat themselves, queues are evicted and models are swapped.
CountedOnce == twice \subseteq late

=============================================================================
