-------------------------------- MODULE Scaler --------------------------------
(***************************************************************************)
(* The scaler process around a decision (scaler/predictive_scaler): the    *)
(* gRPC server with its pool of threads (server.py), and the state that    *)
(* the polls of all ScaledObjects share by key (engine.py): the capacity   *)
(* references (capacity.py) and the two dictionaries of breakers.  What a  *)
(* decision then makes of them is in Engine and in the breakers' modules.  *)
(*                                                                         *)
(* Only the newest configuration of a ScaledObject is asked about; KEDA    *)
(* closes a stream whose ScaledObject changes and opens another.           *)
(***************************************************************************)
EXTENDS Integers, FiniteSets, SequencesExt

CONSTANTS
  Keys,        \* ScaledObjects
  Calls,       \* gRPC calls that can be under way at a time
  Streams,     \* of these, the calls of StreamIsActive
  KeyOf,       \* whom each call is about
  Workers,     \* max_workers
  MaxStreams,  \* streams KEDA has open at a time
  MaxChanges   \* bound: changes of configurations and of capacities

ASSUME ScalerAssumption ==
  /\ IsFiniteSet(Calls) /\ Streams \subseteq Calls
  /\ KeyOf \in [Calls -> Keys]
  /\ Workers \in Nat \ {0} /\ MaxStreams \in Nat
  /\ MaxChanges \in Nat

VARIABLES
  config,    \* scalerMetadata of each ScaledObject, by number
  envelope,  \* capacity of each workload, by number
  queue,     \* calls waiting for a thread
  call,      \* the calls
  capacity,  \* CapacityResolver._cache
  breakers,  \* PredictiveEngine._breakers
  services   \* PredictiveEngine._service_breakers

world == <<config, envelope>>
shared == <<capacity, breakers, services>>
scalerVars == <<config, envelope, queue, call, capacity, breakers, services>>

Off == [pc |-> "off", config |-> 0, gone |-> FALSE, answer |-> 0, copy |-> {}]

NoRef == [config |-> 0, envelope |-> 0]

Busy == {c \in Calls : call[c].pc \notin {"off", "queued"}}

\* The dictionary's key of a call.
Entry(c) == <<KeyOf[c], call[c].config>>

Go(c, label) == call' = [call EXCEPT ![c].pc = label]

\* A thread is free again.
Over(c) == call' = [call EXCEPT ![c] = Off]

-----------------------------------------------------------------------------
ScalerInit ==
  /\ config = [k \in Keys |-> 1]
  /\ envelope = [k \in Keys |-> 1]
  /\ queue = <<>>
  /\ call = [c \in Calls |-> Off]
  /\ capacity = [k \in Keys |-> NoRef]
  /\ breakers = {}
  /\ services = {}

(***************************************************************************)
(* The surroundings: KEDA, the workloads, Prometheus, Kubernetes.          *)
(***************************************************************************)
\* How often either has changed.
Changes == MapThenSumSet(LAMBDA k : config[k] + envelope[k] - 2, Keys)

Reconfigure(k) ==
  /\ Changes < MaxChanges
  /\ config' = [config EXCEPT ![k] = @ + 1]
  /\ call' = [c \in Calls |->
                IF c \in Streams /\ KeyOf[c] = k /\ call[c].pc # "off"
                  THEN [call[c] EXCEPT !.gone = TRUE] ELSE call[c]]
  /\ UNCHANGED <<envelope, queue, shared>>

Resize(k) ==
  /\ Changes < MaxChanges
  /\ envelope' = [envelope EXCEPT ![k] = @ + 1]
  /\ UNCHANGED <<config, queue, call, shared>>

Open == {c \in Streams : call[c].pc # "off" /\ ~call[c].gone}

Call(c) ==
  /\ call[c].pc = "off"
  /\ c \in Streams => Cardinality(Open) < MaxStreams
  /\ queue' = Append(queue, c)
  /\ call' = [call EXCEPT ![c] = [Off EXCEPT !.pc = "queued", !.config = config[KeyOf[c]]]]
  /\ UNCHANGED <<world, shared>>

Disconnect(c) ==
  /\ c \in Open
  /\ call' = [call EXCEPT ![c].gone = TRUE]
  /\ UNCHANGED <<world, queue, shared>>

(***************************************************************************)
(* server.py: a thread takes the call that waits longest.  A stream asks   *)
(* the engine until its client is gone.                                    *)
(***************************************************************************)

\* Faulty variant: the client is not looked for.
NeverOver(c) == FALSE

StreamOver(c) == call[c].gone

Taken(c) ==
  /\ queue # <<>> /\ c = Head(queue)
  /\ Cardinality(Busy) < Workers
  /\ queue' = Tail(queue)
  /\ UNCHANGED <<world, shared>>

Start(c) ==
  /\ Taken(c)
  /\ IF c \in Streams /\ StreamOver(c) THEN Over(c) ELSE Go(c, "fetching")

\* The metadata is invalid (INVALID_ARGUMENT); or GetMetricSpec or the health
\* service is called, which answer without the engine.
AnswerAtOnce(c) == Taken(c) /\ Over(c)

Returns(c) == IF c \in Streams THEN Go(c, "sleeping") ELSE Over(c)

\* stop_event.wait(), then the condition of the loop.
Wake(c) ==
  /\ call[c].pc = "sleeping"
  /\ IF StreamOver(c) THEN Over(c) ELSE Go(c, "fetching")
  /\ UNCHANGED <<world, queue, shared>>

\* The decision of another poll is still cached, or there is no history, which
\* is answered UNAVAILABLE.
DecisionCached(c) ==
  /\ call[c].pc = "fetching"
  /\ Returns(c)
  /\ UNCHANGED <<world, queue, shared>>

(***************************************************************************)
(* engine.py, _compute: the history; then capacity.py, resolve().          *)
(***************************************************************************)

\* Faulty variant: an answer once had is good for ever.
KnownIsFresh(k) == {capacity[k] # NoRef}

\* Whether the reference is younger than capacityRefreshSeconds: it may be if
\* there is one.
Fresh(k) == IF capacity[k] = NoRef THEN {FALSE} ELSE BOOLEAN

\* Under the lock: a hit, or the query.  The history before it is the call's own.
CapacityHit(c) ==
  /\ call[c].pc = "fetching"
  /\ TRUE \in Fresh(KeyOf[c])
  /\ Go(c, "breaker")
  /\ UNCHANGED <<world, queue, shared>>

CapacityMiss(c) ==
  /\ call[c].pc = "fetching"
  /\ FALSE \in Fresh(KeyOf[c])
  /\ Go(c, "asking")
  /\ UNCHANGED <<world, queue, shared>>

Ask(c) ==
  /\ call[c].pc = "asking"
  /\ call' = [call EXCEPT ![c].pc = "storing", ![c].answer = envelope[KeyOf[c]]]
  /\ UNCHANGED <<world, queue, shared>>

\* Without an answer the last one, or the static capacity, is returned.
Fallback(c) ==
  /\ call[c].pc = "asking"
  /\ Go(c, "breaker")
  /\ UNCHANGED <<world, queue, shared>>

\* The answers of overlapping calls are stored in any order.
CapacityStore(c) ==
  /\ call[c].pc = "storing"
  /\ capacity' = [capacity EXCEPT ![KeyOf[c]] =
       [config |-> call[c].config, envelope |-> call[c].answer]]
  /\ call' = [call EXCEPT ![c].pc = "breaker", ![c].answer = 0]
  /\ UNCHANGED <<world, queue, breakers, services>>

(***************************************************************************)
(* engine.py, _breaker(): no lock.                                         *)
(***************************************************************************)
Others(dict, c) == {entry \in dict : entry[1] # KeyOf[c]}

\* Missing: the entries of the other keys are copied ...
Look(c) ==
  /\ call[c].pc = "breaker"
  /\ IF Entry(c) \in breakers THEN Go(c, "found")
     ELSE call' = [call EXCEPT ![c].pc = "copied", ![c].copy = Others(breakers, c)]
  /\ UNCHANGED <<world, queue, shared>>

\* (or not: a dictionary that grows while it is copied raises RuntimeError)
CopyFails(c) ==
  /\ call[c].pc = "breaker"
  /\ Entry(c) \notin breakers
  /\ \E d \in Calls : call[d].pc = "assigned"
  /\ Over(c)
  /\ UNCHANGED <<world, queue, shared>>

\* ... the copy takes the place of the dictionary, whatever that is by now ...
Assign(c) ==
  /\ call[c].pc = "copied"
  /\ breakers' = call[c].copy
  /\ call' = [call EXCEPT ![c].pc = "assigned", ![c].copy = {}]
  /\ UNCHANGED <<world, queue, capacity, services>>

\* ... and the new breaker goes into the dictionary there is.
Insert(c) ==
  /\ call[c].pc = "assigned"
  /\ breakers' = breakers \cup {Entry(c)}
  /\ Go(c, "found")
  /\ UNCHANGED <<world, queue, capacity, services>>

\* KeyError if another call's copy has come between.
Lost(c) ==
  /\ call[c].pc = "found"
  /\ Entry(c) \notin breakers
  /\ Over(c)
  /\ UNCHANGED <<world, queue, shared>>

(***************************************************************************)
(* engine.py, _service_breaker(): under the lock.  What comes after it is  *)
(* the call's own: the forecast, the decision and its answer.              *)
(***************************************************************************)

\* Faulty variant: all others are dropped.
Alone(c) == {Entry(c)}

Rebuilt(c) == Others(services, c) \cup {Entry(c)}

Answer(c) ==
  /\ call[c].pc = "found"
  /\ Entry(c) \in breakers
  /\ services' = IF Entry(c) \in services THEN services ELSE Rebuilt(c)
  /\ Returns(c)
  /\ UNCHANGED <<world, queue, capacity, breakers>>

Work(c) ==
  \/ DecisionCached(c)
  \/ CapacityHit(c) \/ CapacityMiss(c) \/ Ask(c) \/ Fallback(c) \/ CapacityStore(c)
  \/ Look(c) \/ CopyFails(c) \/ Assign(c) \/ Insert(c) \/ Lost(c) \/ Answer(c) \/ Wake(c)

ScalerNext ==
  \/ \E k \in Keys : Reconfigure(k) \/ Resize(k)
  \/ \E c \in Calls : Call(c) \/ Disconnect(c) \/ Start(c) \/ AnswerAtOnce(c) \/ Work(c)

\* KEDA polls again and again, with valid metadata some time; threads run and
\* every wait has a timeout; cached decisions and references expire, and
\* Prometheus answers some time.
ScalerFairness ==
  /\ \A c \in Calls : WF_scalerVars(Start(c)) /\ WF_scalerVars(Work(c))
  /\ \A c \in Calls \ Streams :
       /\ WF_scalerVars(Call(c)) /\ SF_scalerVars(Start(c))
       /\ SF_scalerVars(CapacityMiss(c)) /\ SF_scalerVars(Ask(c))

ScalerSpec == ScalerInit /\ [][ScalerNext]_scalerVars /\ ScalerFairness

-----------------------------------------------------------------------------
(***************************************************************************)
(* Properties.                                                             *)
(***************************************************************************)
Dictionary == SUBSET (Keys \X Nat)

Places == {"off", "queued", "fetching", "asking", "storing", "breaker", "copied", "assigned",
           "found", "sleeping"}

CallType == [pc : Places, config : Nat, gone : BOOLEAN, answer : Nat, copy : Dictionary]

ScalerTypeOK ==
  /\ config \in [Keys -> Nat \ {0}]
  /\ envelope \in [Keys -> Nat \ {0}]
  /\ queue \in Seq(Calls)
  /\ call \in [Calls -> CallType]
  /\ capacity \in [Keys -> [config : Nat, envelope : Nat]]
  /\ breakers \in Dictionary
  /\ services \in Dictionary

\* Polls of one ScaledObject do not cost another its open breaker: an entry is
\* dropped only for a poll of the same ScaledObject with another configuration.
ServiceKept ==
  [][\A b \in services \ services' :
       \E d \in services' \ services : d[1] = b[1] /\ d # b]_scalerVars

\* With more threads than KEDA has streams open, every poll is answered: no
\* stream that has lost its client keeps its thread, nor does any fault.
Answered ==
  \A c \in Calls \ Streams : call[c].pc = "queued" ~> call[c].pc = "off"

\* "A limit change in a rollout reaches the scaler": the reference of a
\* ScaledObject that is polled comes to be that of the workload as it is, by the
\* query that is configured, in whatever order overlapping answers were stored.
CapacityArrives ==
  \A c \in Calls \ Streams :
    <>[](capacity[KeyOf[c]] = [config |-> config[KeyOf[c]], envelope |-> envelope[KeyOf[c]]])

\* "One breaker per ScaledObject": no poll drops a breaker but for another
\* configuration of its own ScaledObject.
BreakerKept ==
  [][\A b \in breakers \ breakers' :
       \E c \in Calls : call[c].pc = "copied" /\ KeyOf[c] = b[1] /\ Entry(c) # b]_scalerVars

=============================================================================
