--------------------------- MODULE ModelStoreProofs ---------------------------
(***************************************************************************)
(* Proofs about ModelStore, for every set of versions, and about           *)
(* ForecastTracker, for every number of series and requests.               *)
(***************************************************************************)
EXTENDS ModelStore, ForecastTracker, WellFoundedInduction, TLAPS

-----------------------------------------------------------------------------
(***************************************************************************)
(* The inductive invariant.                                                *)
(***************************************************************************)
Writing == {"clearing", "saving", "parking", "placing"}

\* What the load holds: from the resolution on a bundle, behind an alias that
\* never goes away; from the warm-up on a model that can forecast; and from the
\* swap on the bundle that is being served.
FlightInv ==
  /\ flight \in {"downloading", "swapping"} \cup Writing => loaded \in Bundles
  /\ flight = "downloading" => alias \in Versions
  /\ flight \in {"swapping"} \cup Writing => loaded.model \notin Unusable
  /\ flight \in Writing => bundle = loaded /\ stage = "registry"
  /\ flight \in {"parking", "placing"} => tmp = loaded

\* What the startup has read: as long as nothing serves, no load has written, so
\* the cache still holds what the startup read first.
CopyInv ==
  main \in {"unpickling", "offering"} =>
    /\ copy \in Bundles
    /\ bundle = None => copy = final

IInv == TypeOK /\ FlightInv /\ CopyInv /\ CacheIsKnownGood

\* None is no bundle.
LEMMA NoneIsNoBundle == None \notin Bundles
BY ConstantsAssumption DEF Bundles

\* The first state satisfies the invariant.
LEMMA InitInv == Init => IInv
BY DEF Init, IInv, TypeOK, FlightInv, CopyInv, CacheIsKnownGood, Flights, Writing

\* A load that is joined or started.
LEMMA LoadTaskKeeps ==
  ASSUME IInv, LoadTask, UNCHANGED <<registry, disk, store>>,
         UNCHANGED copy \/ main' \notin {"unpickling", "offering"},
         main' \in {"unpickling", "offering"} => main \in {"unpickling", "offering"},
         main' \in {"down", "waiting", "reading", "unpickling", "offering", "open"},
         worker' \in {"off", "awake", "awaiting"},
         copy' \in Bundles \cup {None}
  PROVE  IInv'
<1>1. TypeOK'
  BY DEF IInv, TypeOK, LoadTask, load, registry, disk, store, Flights
<1>2. FlightInv'
  BY DEF IInv, FlightInv, LoadTask, load, registry, disk, store, Writing
<1>3. CopyInv' /\ CacheIsKnownGood'
  BY DEF IInv, CopyInv, CacheIsKnownGood, disk, store
<1> QED
  BY <1>1, <1>2, <1>3 DEF IInv

\* Every step preserves it.
LEMMA StepInv == IInv /\ [Next]_vars => IInv'
<1> SUFFICES ASSUME IInv, [Next]_vars PROVE IInv'
  OBVIOUS
<1> USE NoneIsNoBundle DEF IInv, registry, disk, store, load
<1>1. CASE Resolve
  <2>1. up /\ alias # None => [version |-> alias, model |-> alias] \in Bundles
    BY DEF TypeOK, Bundles
  <2>2. TypeOK'
    <3>1. failed' \in BOOLEAN
      BY <1>1, Zenon DEF Resolve, TypeOK, EndLoad
    <3>2. loaded' \in Bundles \cup {None} /\ flight' \in Flights
      BY <1>1, <2>1 DEF Resolve, EndLoad, Flights
    <3> QED
      BY <1>1, <3>1, <3>2 DEF Resolve, TypeOK
  <2>3. FlightInv'
    BY <1>1, <2>1 DEF Resolve, TypeOK, EndLoad, FlightInv, Writing
  <2>4. CopyInv' /\ CacheIsKnownGood'
    BY <1>1 DEF Resolve, CopyInv, CacheIsKnownGood
  <2> QED
    BY <2>2, <2>3, <2>4
<1>2. CASE Download
  <2>1. [loaded EXCEPT !.model = alias] \in Bundles /\ [loaded EXCEPT !.model = alias].model = alias
    BY <1>2 DEF Download, FlightInv, Bundles
  <2>2. TypeOK'
    <3>1. failed' \in BOOLEAN
      BY <1>2, Zenon DEF Download, TypeOK, EndLoad
    <3>2. loaded' \in Bundles \cup {None} /\ flight' \in Flights
      BY <1>2, <2>1 DEF Download, EndLoad, Flights
    <3> QED
      BY <1>2, <3>1, <3>2 DEF Download, TypeOK
  <2>3. FlightInv'
    BY <1>2, <2>1 DEF Download, EndLoad, FlightInv, Writing
  <2>4. CopyInv' /\ CacheIsKnownGood'
    BY <1>2 DEF Download, CopyInv, CacheIsKnownGood
  <2> QED
    BY <2>2, <2>3, <2>4
<1>3. CASE Swap
  <2>1. loaded \in Bundles /\ loaded.model \notin Unusable
    BY <1>3 DEF Swap, FlightInv
  <2>2. TypeOK' /\ FlightInv'
    BY <1>3, <2>1 DEF Swap, Install, TypeOK, FlightInv, Flights, Writing
  <2>3. CopyInv' /\ CacheIsKnownGood'
    BY <1>3, <2>1 DEF Swap, Install, CopyInv, CacheIsKnownGood
  <2> QED
    BY <2>2, <2>3
<1>4. CASE Clear
  BY <1>4 DEF Clear, TypeOK, FlightInv, CopyInv, CacheIsKnownGood, Flights, Writing
<1>5. CASE Save
  BY <1>5 DEF Save, TypeOK, FlightInv, CopyInv, CacheIsKnownGood, Flights, Writing
<1>6. CASE Park
  <2>1. bundle = loaded /\ loaded \in Bundles /\ stage = "registry"
    BY <1>6 DEF Park, FlightInv, Writing
  <2>2. TypeOK' /\ FlightInv'
    BY <1>6 DEF Park, TypeOK, FlightInv, Flights, Writing
  <2>3. CopyInv' /\ CacheIsKnownGood'
    BY <1>6, <2>1 DEF Park, CopyInv, CacheIsKnownGood
  <2> QED
    BY <2>2, <2>3
<1>7. CASE Place
  <2>1. /\ bundle = loaded /\ loaded \in Bundles /\ stage = "registry"
        /\ tmp = loaded /\ loaded.model \notin Unusable
    BY <1>7 DEF Place, FlightInv, Writing
  <2>2. TypeOK' /\ FlightInv'
    BY <1>7, <2>1 DEF Place, TypeOK, FlightInv, Flights, Writing
  <2>3. CopyInv' /\ CacheIsKnownGood'
    BY <1>7, <2>1 DEF Place, CopyInv, CacheIsKnownGood
  <2> QED
    BY <2>2, <2>3
<1>8. CASE Sweep \/ WriteFails
  BY <1>8 DEF Sweep, WriteFails, EndLoad, TypeOK, FlightInv, CopyInv, CacheIsKnownGood, Flights, Writing
<1>9. CASE Start \/ Retry \/ Refresh
  BY <1>9, LoadTaskKeeps DEF Start, Retry, Refresh, TypeOK
<1>10. CASE StartLoaded \/ GiveUp \/ Sleep
  <2>1. TypeOK'
    BY <1>10 DEF StartLoaded, GiveUp, Sleep, Open, TypeOK
  <2>2. FlightInv'
    BY <1>10 DEF StartLoaded, GiveUp, Sleep, FlightInv
  <2>3. CopyInv' /\ CacheIsKnownGood'
    BY <1>10 DEF StartLoaded, GiveUp, Sleep, Open, CopyInv, CacheIsKnownGood
  <2> QED
    BY <2>1, <2>2, <2>3
<1>11. CASE ReadInfo
  <2>1. TypeOK' /\ FlightInv'
    BY <1>11 DEF ReadInfo, Open, TypeOK, FlightInv
  <2>2. CopyInv' /\ CacheIsKnownGood'
    BY <1>11 DEF ReadInfo, Open, TypeOK, CopyInv, CacheIsKnownGood
  <2> QED
    BY <2>1, <2>2
<1>12. CASE ReadModel
  <2>1. copy \in Bundles /\ (bundle = None => copy = final)
    BY <1>12 DEF ReadModel, CopyInv
  <2>2. final # None => /\ [copy EXCEPT !.model = final.model] \in Bundles
                        /\ copy = final => [copy EXCEPT !.model = final.model] = final
    BY <2>1 DEF TypeOK, Bundles
  <2>3. TypeOK' /\ FlightInv'
    BY <1>12, <2>2 DEF ReadModel, Open, TypeOK, FlightInv
  <2>4. CopyInv' /\ CacheIsKnownGood'
    BY <1>12, <2>1, <2>2 DEF ReadModel, Open, CopyInv, CacheIsKnownGood
  <2> QED
    BY <2>3, <2>4
<1>13. CASE Offer
  <2>1. copy \in Bundles /\ (bundle = None => copy = final)
    BY <1>13 DEF Offer, CopyInv
  <2>2. TypeOK'
    BY <1>13, <2>1 DEF Offer, Install, Open, TypeOK
  <2>3. FlightInv'
    BY <1>13 DEF Offer, Install, FlightInv
  <2>4. CopyInv' /\ CacheIsKnownGood'
    BY <1>13, <2>1 DEF Offer, Install, Open, CopyInv, CacheIsKnownGood
  <2> QED
    BY <2>2, <2>3, <2>4
<1>14. CASE Crash
  BY <1>14 DEF Crash, EndLoad, TypeOK, FlightInv, CopyInv, CacheIsKnownGood, Flights, Writing
<1>15. CASE RegistryChange
  <2>1. alias' \in Versions \cup {None} /\ up' \in BOOLEAN /\ (alias \in Versions => alias' \in Versions)
    BY <1>15 DEF RegistryChange
  <2>2. TypeOK' /\ FlightInv'
    BY <1>15, <2>1 DEF RegistryChange, TypeOK, FlightInv
  <2>3. CopyInv' /\ CacheIsKnownGood'
    BY <1>15 DEF RegistryChange, CopyInv, CacheIsKnownGood
  <2> QED
    BY <2>2, <2>3
<1>16. CASE UNCHANGED vars
  BY <1>16 DEF vars, TypeOK, FlightInv, CopyInv, CacheIsKnownGood
<1> QED
  BY <1>1, <1>2, <1>3, <1>4, <1>5, <1>6, <1>7, <1>8, <1>9, <1>10, <1>11, <1>12, <1>13, <1>14, <1>15, <1>16
  DEF Next, Load, Startup, Worker

LEMMA Invariant == Spec => []IInv
<1> QED
  BY InitInv, StepInv, PTL DEF Spec

-----------------------------------------------------------------------------
(***************************************************************************)
(* The theorems.                                                           *)
(***************************************************************************)

\* Type correctness: no half-written directory is ever read or placed.
THEOREM TypeCorrect == Spec => []TypeOK
<1>1. IInv => TypeOK
  BY DEF IInv
<1> QED
  BY <1>1, Invariant, PTL

\* However the startup's reading, the load it gave up on and crashes interleave,
\* the pod serves from the cache exactly what lies there, and that can forecast.
THEOREM CacheCorrect == Spec => []CacheIsKnownGood
<1>1. IInv => CacheIsKnownGood
  BY DEF IInv
<1> QED
  BY <1>1, Invariant, PTL

\* The model that serves can forecast.
ReadyForecasts == Ready => bundle.model \notin Unusable

\* install() after a warm-up, and load_from_cache_async(): a pod to which Kubernetes
\* sends requests has a model that can forecast, whichever of the loads that
\* overlapped it comes from, and although alias and file may have changed under
\* them.
THEOREM ReadyCanForecast == Spec => []ReadyForecasts
<1>1. Init => ReadyForecasts
  BY DEF Init, ReadyForecasts, Ready
<1>2. IInv /\ ReadyForecasts /\ [Next]_vars => ReadyForecasts'
  <2> SUFFICES ASSUME IInv, ReadyForecasts, [Next]_vars PROVE ReadyForecasts'
    OBVIOUS
  <2>1. CASE Swap
    BY <2>1 DEF Swap, Install, IInv, FlightInv, ReadyForecasts, Ready
  <2>2. CASE Offer
    BY <2>2, NoneIsNoBundle
       DEF Offer, Install, store, IInv, CopyInv, CacheIsKnownGood, ReadyForecasts, Ready
  <2>3. CASE Crash
    BY <2>3 DEF Crash, ReadyForecasts, Ready
  <2>4. CASE ~(Swap \/ Offer \/ Crash)
    <3>1. bundle' = bundle
      BY <2>4 DEF Next, vars, store, Load, Startup, Worker, Resolve, Download, Clear, Save, Park,
         Place, Sweep, WriteFails, Start, StartLoaded, GiveUp, ReadInfo, ReadModel, Retry,
         Refresh, Sleep, RegistryChange
    <3> QED BY <3>1 DEF ReadyForecasts, Ready
  <2> QED BY <2>1, <2>2, <2>3, <2>4
<1> QED
  BY <1>1, <1>2, Invariant, PTL DEF Spec

\* Only a model that serves, from the registry, is ever kept.
THEOREM CacheWrites == Spec => CacheKeepsServed
<1>1. ASSUME IInv, [Next]_vars
      PROVE  final' \notin {final, None} => bundle = final' /\ stage = "registry"
  <2>1. CASE Place
    BY <1>1, <2>1 DEF Place, IInv, FlightInv, Writing
  <2>2. CASE ~Place
    BY <1>1, <2>2 DEF Next, vars, Load, Startup, Worker, Resolve, Download, Swap, Clear, Save, Park,
       Sweep, WriteFails, Start, StartLoaded, GiveUp, ReadInfo, ReadModel, Offer, Retry, Refresh,
       Sleep, Crash, RegistryChange, disk
  <2> QED
    BY <2>1, <2>2
<1>2. ASSUME IInv, [Next]_vars
      PROVE  [final' \notin {final, None} => bundle = final' /\ stage = "registry"]_vars
  BY <1>1, <1>2
<1> QED
  BY <1>2, Invariant, PTL DEF Spec, CacheKeepsServed

\* No interleaving replaces a model of the registry by the cache.
THEOREM RegistryIsKept == Spec => RegistryWins
<1>1. ASSUME [Next]_vars
      PROVE  [bundle # None /\ stage = "registry" /\ main' # "down" => stage' = "registry"]_vars
  <2>1. CASE Swap \/ Offer \/ Crash
    BY <2>1 DEF Swap, Offer, Install, Crash, store
  <2>2. CASE ~(Swap \/ Offer \/ Crash)
    BY <1>1, <2>2 DEF Next, vars, Load, Startup, Worker, Resolve, Download, Clear, Save, Park, Place,
       Sweep, WriteFails, Start, StartLoaded, GiveUp, ReadInfo, ReadModel, Retry, Refresh,
       Sleep, RegistryChange, store
  <2> QED
    BY <2>1, <2>2
<1> QED
  BY <1>1, PTL DEF Spec, RegistryWins

-----------------------------------------------------------------------------
(***************************************************************************)
(* The in-memory tracker (ForecastTracker).                                *)
(***************************************************************************)
QueueType == [series : Series, forecasts : Seq(ForecastType)]

\* A set of numbers that is not empty has a smallest one.
LEMMA HasSmallest ==
  ASSUME NEW S \in SUBSET Nat, S # {}
  PROVE  \E n \in S : \A m \in S : n <= m
<1>1. PICK n \in S : \A m \in S : ~(<<m, n>> \in OpToRel(<, Nat))
  BY NatLessThanWellFounded, WFMin
<1>2. \A m \in S : ~(m < n)
  BY <1>1 DEF OpToRel
<1> QED BY <1>2

(***************************************************************************)
(* The queue of one series.                                                *)
(***************************************************************************)
\* p is q without some of its first elements.
Rest(p, q) ==
  \E d \in 0..Len(q) : /\ Len(p) = Len(q) - d
                       /\ \A i \in 1..Len(p) : p[i] = q[i + d]

LEMMA RestOfRest ==
  ASSUME NEW S, NEW p \in Seq(S), NEW q \in Seq(S), NEW r \in Seq(S), Rest(p, q), Rest(q, r)
  PROVE  Rest(p, r)
<1>1. PICK d \in 0..Len(q) : Len(p) = Len(q) - d /\ \A i \in 1..Len(p) : p[i] = q[i + d]
  BY DEF Rest
<1>2. PICK e \in 0..Len(r) : Len(q) = Len(r) - e /\ \A i \in 1..Len(q) : q[i] = r[i + e]
  BY DEF Rest
<1>3. Len(p) \in Nat /\ Len(q) \in Nat /\ Len(r) \in Nat
  OBVIOUS
<1>4. d + e \in 0..Len(r) /\ Len(p) = Len(r) - (d + e)
  BY <1>1, <1>2, <1>3
<1>5. ASSUME NEW i \in 1..Len(p) PROVE p[i] = r[i + (d + e)]
  <2>1. i + d \in 1..Len(q) /\ (i + d) + e = i + (d + e)  BY <1>1, <1>2, <1>3
  <2> QED BY <1>1, <1>2, <2>1
<1> QED BY <1>4, <1>5 DEF Rest

\* _resolve() adds the steps that are due to what is resolved.
LEMMA ResolvedParts ==
  ASSUME NEW q \in Seq(ForecastType), NEW t \in 1..MaxTime
  PROVE  /\ Resolved(q, t) \in Seq(ForecastType) /\ Len(Resolved(q, t)) = Len(q)
         /\ \A j \in 1..Len(q) :
              /\ Resolved(q, t)[j].made_at = q[j].made_at
              /\ Resolved(q, t)[j].version = q[j].version
              /\ Resolved(q, t)[j].resolved = q[j].resolved \cup Due(q[j], t)
<1> DEFINE r == [j \in 1..Len(q) |-> [q[j] EXCEPT !.resolved = @ \cup Due(q[j], t)]]
<1>1. Resolved(q, t) = r
  BY DEF Resolved
<1>2. ASSUME NEW j \in 1..Len(q)
      PROVE  /\ r[j] \in ForecastType
             /\ r[j].made_at = q[j].made_at /\ r[j].version = q[j].version
             /\ r[j].resolved = q[j].resolved \cup Due(q[j], t)
  <2>1. q[j] \in ForecastType  OBVIOUS
  <2>2. Due(q[j], t) \subseteq 1..Horizon  BY DEF Due
  <2>3. q[j].resolved \cup Due(q[j], t) \in SUBSET (1..Horizon)  BY <2>1, <2>2 DEF ForecastType
  <2>4. r[j] = [q[j] EXCEPT !.resolved = q[j].resolved \cup Due(q[j], t)]  OBVIOUS
  <2> HIDE DEF r
  <2> QED BY <2>1, <2>3, <2>4 DEF ForecastType
<1>3. DOMAIN r = 1..Len(q) /\ r \in [1..Len(q) -> ForecastType]
  BY <1>2
<1> HIDE DEF r
<1>4. r \in Seq(ForecastType) /\ Len(r) = Len(q)
  BY <1>3
<1> QED BY <1>1, <1>2, <1>4

\* _expire() leaves a rest of the queue; what is dropped has expired.
LEMMA LiveRest ==
  ASSUME NEW q \in Seq(ForecastType), NEW t \in 1..MaxTime
  PROVE  /\ Live(q, t) \in Seq(ForecastType) /\ Rest(Live(q, t), q)
         /\ q # <<>> /\ ~Expired(q[Len(q)], t) =>
              Live(q, t) # <<>> /\ Last(Live(q, t)) = q[Len(q)]
<1> DEFINE staying == {j \in DOMAIN q : ~Expired(q[j], t)}
           first == CHOOSE j \in staying : \A k \in staying : j <= k
<1>1. DOMAIN q = 1..Len(q) /\ Len(q) \in Nat
  OBVIOUS
<1>2. CASE staying = {}
  <2>1. Live(q, t) = <<>>  BY <1>2 DEF Live
  <2>2. Rest(<<>>, q)
    <3>1. Len(<<>>) = 0  OBVIOUS
    <3>2. Len(q) \in 0..Len(q) /\ 0 = Len(q) - Len(q) /\ 1..0 = {}  BY <1>1
    <3> QED BY <3>1, <3>2 DEF Rest
  <2>3. q # <<>> => Len(q) \in DOMAIN q  BY <1>1
  <2> QED BY <1>2, <2>1, <2>2, <2>3
<1>3. CASE staying # {}
  <2>1. first \in staying
    <3>1. staying \in SUBSET Nat  BY <1>1
    <3> HIDE DEF staying
    <3>2. \E n \in staying : \A m \in staying : n <= m  BY <1>3, <3>1, HasSmallest
    <3> QED BY <3>2
  <2>2. Live(q, t) = SubSeq(q, first, Len(q))  BY <1>3 DEF Live
  <2>3. first \in 1..Len(q)  BY <1>1, <2>1
  <2> HIDE DEF first, staying
  <2> DEFINE p == SubSeq(q, first, Len(q))
  <2>4. p \in Seq(ForecastType) /\ Len(p) = Len(q) - (first - 1)
    BY <1>1, <2>3
  <2>5. \A i \in 1..Len(p) : p[i] = q[i + (first - 1)]
    BY <1>1, <2>3, <2>4
  <2> HIDE DEF p
  <2>6. first - 1 \in 0..Len(q)  BY <1>1, <2>3
  <2>7. Rest(p, q)  BY <2>4, <2>5, <2>6 DEF Rest
  <2>8. Len(p) \in Nat \ {0} /\ p[Len(p)] = q[Len(q)]
    <3>1. Len(p) \in 1..Len(q) /\ Len(p) + (first - 1) = Len(q)  BY <1>1, <2>3, <2>4
    <3>2. p[Len(p)] = q[Len(p) + (first - 1)]  BY <2>5, <3>1
    <3> QED BY <3>1, <3>2
  <2>9. p # <<>>  BY <2>4, <2>8
  <2> QED BY <2>2, <2>4, <2>7, <2>8, <2>9 DEF p, Last
<1> QED BY <1>2, <1>3

\* A full deque drops its first.
LEMMA BoundedRest ==
  ASSUME NEW q \in Seq(ForecastType)
  PROVE  Bounded(q) \in Seq(ForecastType) /\ Rest(Bounded(q), q)
<1>1. CASE Len(q) > MaxPending
  <2>1. q # <<>> /\ Bounded(q) = Tail(q) /\ Len(q) \in Nat \ {0}
    BY <1>1, TrackerAssumption DEF Bounded
  <2>2. Tail(q) \in Seq(ForecastType) /\ Len(Tail(q)) = Len(q) - 1
    BY <2>1
  <2>3. \A i \in 1..Len(Tail(q)) : Tail(q)[i] = q[i + 1]
    BY <2>1, <2>2
  <2>4. 1 \in 0..Len(q)  BY <2>1
  <2> QED BY <2>1, <2>2, <2>3, <2>4 DEF Rest
<1>2. CASE ~(Len(q) > MaxPending)
  <2>1. 0 \in 0..Len(q) /\ Len(q) = Len(q) - 0 /\ \A i \in 1..Len(q) : i + 0 = i
    OBVIOUS
  <2>2. Bounded(q) = q  BY <1>2 DEF Bounded
  <2> QED BY <2>1, <2>2 DEF Rest
<1> QED BY <1>1, <1>2

Increasing(q) == \A i, j \in 1..Len(q) : i < j => q[i].made_at < q[j].made_at

LEMMA RestIncreases ==
  ASSUME NEW p \in Seq(ForecastType), NEW q \in Seq(ForecastType), Rest(p, q), Increasing(q)
  PROVE  Increasing(p)
<1>1. PICK d \in 0..Len(q) : Len(p) = Len(q) - d /\ \A i \in 1..Len(p) : p[i] = q[i + d]
  BY DEF Rest
<1>2. SUFFICES ASSUME NEW i \in 1..Len(p), NEW j \in 1..Len(p), i < j
               PROVE  p[i].made_at < p[j].made_at
  BY DEF Increasing
<1>3. i + d \in 1..Len(q) /\ j + d \in 1..Len(q) /\ i + d < j + d
  BY <1>1, <1>2
<1>4. q[i + d].made_at < q[j + d].made_at
  BY <1>3 DEF Increasing
<1> QED BY <1>1, <1>4

\* What record() makes of the queue of its series.
Recorded(q, t, v) == Queued(Live(Resolved(q, t), t), t, v)

\* Of each forecast that is in it after a record: it was there before, and the steps
\* that were due are resolved, or it is the new one.
LEMMA RecordedParts ==
  ASSUME NEW q \in Seq(ForecastType), NEW t \in 1..MaxTime, NEW v \in 1..MaxVersion
  PROVE  /\ Recorded(q, t, v) \in Seq(ForecastType)
         /\ \A i \in 1..Len(Recorded(q, t, v)) :
              \/ Recorded(q, t, v)[i] = Forecast(t, v)
              \/ \E j \in 1..Len(q) :
                   /\ Recorded(q, t, v)[i].made_at = q[j].made_at
                   /\ Recorded(q, t, v)[i].version = q[j].version
                   /\ Recorded(q, t, v)[i].resolved = q[j].resolved \cup Due(q[j], t)
         /\ Len(q) <= MaxPending => Len(Recorded(q, t, v)) <= MaxPending
         /\ Increasing(q) /\ (\A j \in 1..Len(q) : q[j].made_at <= t) =>
              /\ Increasing(Recorded(q, t, v))
              /\ \A i \in 1..Len(Recorded(q, t, v)) : Recorded(q, t, v)[i].made_at <= t
<1> DEFINE r == Resolved(q, t)
           p == Live(r, t)
           new == Append(p, Forecast(t, v))
           z == Recorded(q, t, v)
           Kept(f) == \E j \in 1..Len(q) : /\ f.made_at = q[j].made_at
                                           /\ f.version = q[j].version
                                           /\ f.resolved = q[j].resolved \cup Due(q[j], t)
           Orderly == Increasing(q) /\ (\A j \in 1..Len(q) : q[j].made_at <= t)
<1>1. r \in Seq(ForecastType) /\ Len(r) = Len(q) /\ \A j \in 1..Len(r) : Kept(r[j])
  BY ResolvedParts
<1>2. Orderly => Increasing(r) /\ \A j \in 1..Len(r) : r[j].made_at <= t
  BY ResolvedParts DEF Increasing
<1>3. p \in Seq(ForecastType) /\ Rest(p, r)
  BY <1>1, LiveRest
<1> HIDE DEF r, Kept
<1>4. PICK d \in 0..Len(r) : Len(p) = Len(r) - d /\ \A i \in 1..Len(p) : p[i] = r[i + d]
  BY <1>3 DEF Rest
<1>5. \A i \in 1..Len(p) : i + d \in 1..Len(r)
  BY <1>4
<1>6. \A i \in 1..Len(p) : Kept(p[i])
  BY <1>1, <1>4, <1>5
<1>7. Orderly => Increasing(p) /\ \A i \in 1..Len(p) : p[i].made_at <= t
  BY <1>1, <1>2, <1>3, <1>4, <1>5, RestIncreases
<1> HIDE DEF p, Orderly
<1>8. Forecast(t, v) \in ForecastType /\ Forecast(t, v).made_at = t
  BY DEF Forecast, ForecastType
<1>9. CASE p # <<>> /\ Last(p).made_at = t
  <2>1. z = p  BY <1>9 DEF Recorded, Queued, p, r
  <2> HIDE DEF z
  <2>2. Len(q) <= MaxPending => Len(p) <= MaxPending  BY <1>1, <1>4, TrackerAssumption
  <2> QED BY <1>3, <1>6, <1>7, <2>1, <2>2 DEF z, Kept, Orderly
<1>10. CASE ~(p # <<>> /\ Last(p).made_at = t)
  <2>1. z = Bounded(new)  BY <1>10 DEF Recorded, Queued, p, r
  <2>2. /\ new \in Seq(ForecastType) /\ Len(new) = Len(p) + 1 /\ Len(p) \in Nat
        /\ new[Len(p) + 1] = Forecast(t, v) /\ \A i \in 1..Len(p) : new[i] = p[i]
    BY <1>3, <1>8
  <2> HIDE DEF new
  <2>3. \A i \in 1..Len(new) : new[i] = Forecast(t, v) \/ Kept(new[i])
    <3>1. \A i \in 1..Len(new) : i = Len(p) + 1 \/ i \in 1..Len(p)  BY <2>2
    <3> QED BY <1>6, <2>2, <3>1
  <2>4. Orderly => Increasing(new) /\ \A i \in 1..Len(new) : new[i].made_at <= t
    <3>1. SUFFICES ASSUME Orderly
                   PROVE  Increasing(new) /\ \A i \in 1..Len(new) : new[i].made_at <= t
      OBVIOUS
    <3>2. \A i \in 1..Len(p) : p[i].made_at \in Nat /\ p[i].made_at < t
      <4>1. SUFFICES ASSUME NEW i \in 1..Len(p) PROVE p[i].made_at \in Nat /\ p[i].made_at < t
        OBVIOUS
      <4>2. p # <<>> /\ Len(p) \in 1..Len(p) /\ i <= Len(p)  BY <1>3
      <4>3. p[i] \in ForecastType /\ p[Len(p)] \in ForecastType  BY <1>3, <4>2
      <4>4. p[i].made_at \in Nat /\ p[Len(p)].made_at \in Nat  BY <4>3 DEF ForecastType
      <4>5. p[Len(p)].made_at # t /\ p[Len(p)].made_at <= t
        BY <1>7, <1>10, <3>1, <4>2 DEF Last
      <4>6. p[i].made_at <= p[Len(p)].made_at
        <5>1. CASE i = Len(p)  BY <4>4, <5>1
        <5>2. CASE i < Len(p)  BY <1>7, <3>1, <4>2, <4>4, <5>2 DEF Increasing
        <5> QED BY <4>2, <5>1, <5>2
      <4> QED BY <4>4, <4>5, <4>6
    <3>3. \A i \in 1..Len(new) : i = Len(p) + 1 \/ i \in 1..Len(p)  BY <2>2
    <3>4. \A i \in 1..Len(new) : new[i].made_at <= t
      BY <1>8, <2>2, <3>2, <3>3
    <3>5. ASSUME NEW i \in 1..Len(new), NEW j \in 1..Len(new), i < j
          PROVE  new[i].made_at < new[j].made_at
      <4>1. i \in 1..Len(p)  BY <2>2, <3>5
      <4>2. CASE j \in 1..Len(p)  BY <1>7, <2>2, <3>1, <3>5, <4>1, <4>2 DEF Increasing
      <4>3. CASE j = Len(p) + 1  BY <1>8, <2>2, <3>2, <4>1, <4>3
      <4> QED BY <3>3, <4>2, <4>3
    <3> QED BY <3>4, <3>5 DEF Increasing
  <2>5. z \in Seq(ForecastType) /\ Rest(z, new)  BY <2>1, <2>2, BoundedRest
  <2> HIDE DEF z
  <2>6. PICK e \in 0..Len(new) : Len(z) = Len(new) - e /\ \A i \in 1..Len(z) : z[i] = new[i + e]
    BY <2>5 DEF Rest
  <2>7. \A i \in 1..Len(z) : i + e \in 1..Len(new)  BY <2>2, <2>6
  <2>8. \A i \in 1..Len(z) : z[i] = Forecast(t, v) \/ Kept(z[i])  BY <2>3, <2>6, <2>7
  <2>9. Orderly => Increasing(z) /\ \A i \in 1..Len(z) : z[i].made_at <= t
    BY <2>2, <2>4, <2>5, <2>6, <2>7, RestIncreases
  <2>10. Len(q) <= MaxPending => Len(z) <= MaxPending
    <3>1. Len(q) <= MaxPending => Len(new) <= MaxPending + 1
      BY <1>1, <1>4, <2>2, TrackerAssumption
    <3>2. CASE Len(new) > MaxPending
      <4>1. z = Tail(new) /\ Len(z) = Len(new) - 1
        BY <2>1, <2>2, <3>2, TrackerAssumption DEF Bounded
      <4> QED BY <2>2, <3>1, <4>1, TrackerAssumption
    <3>3. CASE ~(Len(new) > MaxPending)
      BY <2>1, <2>2, <3>3, TrackerAssumption DEF Bounded
    <3> QED BY <3>2, <3>3
  <2> QED BY <2>5, <2>8, <2>9, <2>10 DEF z, Kept, Orderly
<1> QED BY <1>9, <1>10

(***************************************************************************)
(* The queues by series.                                                   *)
(***************************************************************************)
LEMMA AppendParts ==
  ASSUME NEW S, NEW z \in Seq(S), NEW x \in S
  PROVE  /\ Append(z, x) \in Seq(S) /\ Len(Append(z, x)) = Len(z) + 1 /\ Append(z, x) # <<>>
         /\ Len(z) \in Nat
         /\ \A i \in 1..Len(z) : Append(z, x)[i] = z[i]
         /\ Append(z, x)[Len(z) + 1] = x
OBVIOUS

LEMMA ReplaceParts ==
  ASSUME NEW S, NEW z \in Seq(S), NEW n \in 1..Len(z), NEW x \in S
  PROVE  /\ [z EXCEPT ![n] = x] \in Seq(S) /\ Len([z EXCEPT ![n] = x]) = Len(z)
         /\ [z EXCEPT ![n] = x][n] = x
         /\ \A i \in 1..Len(z) : i # n => [z EXCEPT ![n] = x][i] = z[i]
OBVIOUS

LEMMA ConcatParts ==
  ASSUME NEW S, NEW b \in Seq(S), NEW a \in Seq(S)
  PROVE  /\ b \o a \in Seq(S) /\ Len(b \o a) = Len(b) + Len(a)
         /\ \A i \in 1..Len(b \o a) : (b \o a)[i] = IF i <= Len(b) THEN b[i] ELSE a[i - Len(b)]
OBVIOUS

\* One queue per series.
Single(qs) == \A i, j \in 1..Len(qs) : qs[i].series = qs[j].series => i = j

\* Taken() puts the queue of s last; the others are some of those there were.
LEMMA TakenParts ==
  ASSUME NEW s \in Series, queues \in Seq(QueueType), Single(queues)
  PROVE  /\ Taken(s) \in Seq(QueueType) /\ Taken(s) # <<>> /\ Single(Taken(s))
         /\ Taken(s)[Len(Taken(s))].series = s
         /\ \/ Taken(s)[Len(Taken(s))].forecasts = <<>>
            \/ \E j \in 1..Len(queues) : Taken(s)[Len(Taken(s))] = queues[j]
         /\ \A i \in 1..(Len(Taken(s)) - 1) :
              \E j \in 1..Len(queues) : Taken(s)[i] = queues[j]
         /\ Len(queues) <= MaxSeries => Len(Taken(s)) <= MaxSeries
<1> DEFINE at == {i \in 1..Len(queues) : queues[i].series = s}
           new == [series |-> s, forecasts |-> <<>>]
<1>1. Len(queues) \in Nat /\ \A i \in 1..Len(queues) : queues[i] \in QueueType
  OBVIOUS
<1>2. QueueOf(s) = IF at # {} THEN Min(at) ELSE 0
  BY DEF QueueOf, SelectInSeq
<1>3. CASE at # {}
  <2> DEFINE p == QueueOf(s)
             z == RemoveAt(queues, p)
  <2>1. p \in at
    <3>1. at \in SUBSET Nat  OBVIOUS
    <3>2. p = Min(at)  BY <1>2, <1>3
    <3> HIDE DEF at, p
    <3>3. \E n \in at : \A m \in at : n <= m  BY <1>3, <3>1, HasSmallest
    <3> QED BY <3>2, <3>3 DEF Min
  <2>2. p \in 1..Len(queues) /\ queues[p].series = s /\ p # 0  BY <2>1
  <2>3. Taken(s) = Append(z, queues[p])  BY <2>2 DEF Taken
  <2> HIDE DEF p, at
  <2>4. /\ z \in Seq(QueueType) /\ Len(z) = Len(queues) - 1
        /\ \A i \in 1..Len(z) : z[i] = IF i < p THEN queues[i] ELSE queues[i + 1]
    <3> DEFINE b == SubSeq(queues, 1, p - 1)
               a == SubSeq(queues, p + 1, Len(queues))
    <3>1. b \in Seq(QueueType) /\ Len(b) = p - 1 /\ \A i \in 1..(p - 1) : b[i] = queues[i]
      BY <1>1, <2>2
    <3>2. /\ a \in Seq(QueueType) /\ Len(a) = Len(queues) - p
          /\ \A i \in 1..(Len(queues) - p) : a[i] = queues[i + p]
      BY <1>1, <2>2
    <3>3. z = b \o a  BY DEF RemoveAt
    <3> HIDE DEF a, b, z
    <3>4. /\ z \in Seq(QueueType) /\ Len(z) = Len(queues) - 1
          /\ \A i \in 1..Len(z) : z[i] = IF i <= Len(b) THEN b[i] ELSE a[i - Len(b)]
      <4>1. /\ z \in Seq(QueueType) /\ Len(z) = Len(b) + Len(a)
            /\ \A i \in 1..Len(z) : z[i] = IF i <= Len(b) THEN b[i] ELSE a[i - Len(b)]
        BY <3>1, <3>2, <3>3, ConcatParts
      <4> QED BY <1>1, <2>2, <3>1, <3>2, <4>1
    <3>5. ASSUME NEW i \in 1..Len(z) PROVE z[i] = IF i < p THEN queues[i] ELSE queues[i + 1]
      <4>1. CASE i < p  BY <2>2, <3>1, <3>4, <3>5, <4>1
      <4>2. CASE ~(i < p)
        <5>1. i - Len(b) \in 1..(Len(queues) - p) /\ (i - Len(b)) + p = i + 1
          BY <1>1, <2>2, <3>1, <3>4, <3>5, <4>2
        <5>2. z[i] = a[i - Len(b)]  BY <2>2, <3>1, <3>4, <3>5, <4>2
        <5> QED BY <3>2, <4>2, <5>1, <5>2
      <4> QED BY <4>1, <4>2
    <3> QED BY <3>4, <3>5
  <2> HIDE DEF z
  <2> DEFINE T == Append(z, queues[p])
  <2>5. /\ T \in Seq(QueueType) /\ Len(T) = Len(queues) /\ T # <<>>
        /\ \A i \in 1..(Len(queues) - 1) : T[i] = z[i]
        /\ T[Len(queues)] = queues[p]
    BY <1>1, <2>2, <2>4
  <2> HIDE DEF T
  <2> DEFINE src(i) == IF i = Len(queues) THEN p ELSE IF i < p THEN i ELSE i + 1
  <2>6. \A i \in 1..Len(queues) : src(i) \in 1..Len(queues) /\ T[i] = queues[src(i)]
    BY <1>1, <2>2, <2>4, <2>5
  <2>7. \A i, j \in 1..Len(queues) : src(i) = src(j) => i = j
    BY <1>1, <2>2
  <2> HIDE DEF src
  <2>8. Single(T)  BY <2>5, <2>6, <2>7 DEF Single
  <2>9. \A i \in 1..(Len(T) - 1) : i \in 1..Len(queues)  BY <1>1, <2>5
  <2>10. T[Len(T)] = queues[p]  BY <2>5
  <2>11. \A i \in 1..(Len(T) - 1) : \E j \in 1..Len(queues) : T[i] = queues[j]
    BY <2>6, <2>9
  <2>12. Taken(s) = T  BY <2>3 DEF T
  <2> QED BY <2>2, <2>5, <2>8, <2>10, <2>11, <2>12
<1>4. CASE at = {}
  <2> DEFINE z == IF Len(queues) >= MaxSeries THEN Tail(queues) ELSE queues
             e == IF Len(queues) >= MaxSeries THEN 1 ELSE 0
  <2>1. QueueOf(s) = 0  BY <1>2, <1>4
  <2>2. Taken(s) = Append(z, new)  BY <2>1 DEF Taken
  <2>3. new \in QueueType /\ new.series = s /\ new.forecasts = <<>>  BY DEF QueueType
  <2>4. z \in Seq(QueueType) /\ Len(z) = Len(queues) - e /\ \A i \in 1..Len(z) : z[i] = queues[i + e]
    <3>1. CASE Len(queues) >= MaxSeries
      <4>1. queues # <<>> /\ Len(queues) \in Nat \ {0}  BY <3>1, TrackerAssumption
      <4> QED BY <3>1, <4>1
    <3>2. CASE ~(Len(queues) >= MaxSeries)  BY <1>1, <3>2
    <3> QED BY <3>1, <3>2
  <2>5. e \in {0, 1} /\ e <= Len(queues)  BY <1>1, TrackerAssumption
  <2> HIDE DEF z, e, new
  <2> DEFINE T == Append(z, new)
  <2>6. /\ T \in Seq(QueueType) /\ Len(T) = Len(z) + 1 /\ T # <<>> /\ Len(z) \in Nat
        /\ \A i \in 1..Len(z) : T[i] = z[i]
        /\ T[Len(z) + 1] = new
    BY <2>3, <2>4, AppendParts
  <2> HIDE DEF T
  <2>7. \A i \in 1..Len(z) : i + e \in 1..Len(queues) /\ T[i] = queues[i + e]
    BY <1>1, <2>4, <2>5, <2>6
  <2>8. \A i \in 1..Len(z) : T[i].series # s
    BY <1>4, <2>7 DEF at
  <2>9. Single(T)
    <3>1. SUFFICES ASSUME NEW i \in 1..Len(T), NEW j \in 1..Len(T), T[i].series = T[j].series
                   PROVE  i = j
      BY DEF Single
    <3>2. \A k \in 1..Len(T) : k = Len(z) + 1 \/ k \in 1..Len(z)  BY <2>6
    <3>3. CASE i \in 1..Len(z) /\ j \in 1..Len(z)
      <4>1. i + e = j + e  BY <2>7, <3>1, <3>3 DEF Single
      <4> QED BY <2>5, <3>3, <4>1
    <3> QED BY <2>3, <2>6, <2>8, <3>1, <3>2, <3>3
  <2>10. \A i \in 1..(Len(T) - 1) : i \in 1..Len(z)  BY <2>6
  <2>11. Len(queues) <= MaxSeries => Len(T) <= MaxSeries
    BY <1>1, <2>4, <2>6, TrackerAssumption DEF e
  <2> QED BY <2>2, <2>3, <2>6, <2>7, <2>9, <2>10, <2>11 DEF T
<1> QED BY <1>3, <1>4

(***************************************************************************)
(* The inductive invariant.  Of a series whose records come in order: its  *)
(* forecasts are in the order of their instants and none is of an instant  *)
(* to come; a step that is not resolved was never counted, also for an     *)
(* earlier queue of the series; and what was counted is past.              *)
(***************************************************************************)
InOrder ==
  \A j \in 1..Len(queues) :
    queues[j].series \notin late =>
      /\ Increasing(queues[j].forecasts)
      /\ \A i \in 1..Len(queues[j].forecasts) :
           queues[j].forecasts[i].made_at <= latest[queues[j].series]

NeverCounted ==
  \A j \in 1..Len(queues) :
    queues[j].series \notin late =>
      \A i \in 1..Len(queues[j].forecasts) :
        \A k \in (1..Horizon) \ queues[j].forecasts[i].resolved :
          <<queues[j].series, queues[j].forecasts[i].made_at, k>> \notin counted

CountedPast ==
  \A s \in Series : s \notin late =>
    \A m \in 1..MaxTime, k \in 1..Horizon : <<s, m, k>> \in counted => m + k <= latest[s]

TrackerInv ==
  /\ TrackerTypeOK
  /\ latest \in [Series -> 0..MaxTime]
  /\ Single(queues) /\ OwnForecasts
  /\ InOrder /\ NeverCounted /\ CountedPast /\ CountedOnce

LEMMA TrackerInitInv == TrackerInit => TrackerInv
<1> SUFFICES ASSUME TrackerInit PROVE TrackerInv
  OBVIOUS
<1>1. queues = <<>> /\ Len(<<>>) = 0 /\ 1..0 = {} /\ DOMAIN <<>> = {}
  BY DEF TrackerInit
<1>2. queues \in Seq([series : Series, forecasts : Seq(ForecastType)])
  BY <1>1
<1>3. TrackerTypeOK
  BY <1>1, <1>2, TrackerAssumption DEF TrackerInit, TrackerTypeOK
<1>4. latest \in [Series -> 0..MaxTime]
  BY TrackerAssumption DEF TrackerInit
<1>5. Single(queues) /\ OwnForecasts /\ InOrder /\ NeverCounted
  BY <1>1 DEF Single, OwnForecasts, InOrder, NeverCounted
<1>6. CountedPast /\ CountedOnce
  BY DEF TrackerInit, CountedPast, CountedOnce
<1> QED BY <1>3, <1>4, <1>5, <1>6 DEF TrackerInv

\* Steps that leave the queues alone, and the swap, which forgets them.
LEMMA QuietKeeps ==
  ASSUME TrackerInv,
         \/ NextInstant \/ InstallBundle \/ UNCHANGED trackerVars
         \/ \E r \in Requests : Begin(r) \/ Drop(r) \/ (Record(r) /\ ~Own(r))
  PROVE  TrackerInv'
<1>1. UNCHANGED <<version, queues, counted, twice, latest, late>>
  BY DEF NextInstant, InstallBundle, Begin, Drop, Record, tracker, history, trackerVars
<1>2. newest' \in 1..MaxTime /\ served' \in 1..MaxVersion
  <2>1. newest \in 1..MaxTime /\ served \in 1..MaxVersion  BY DEF TrackerInv, TrackerTypeOK
  <2>2. CASE NextInstant  BY <2>1, <2>2, TrackerAssumption DEF NextInstant
  <2>3. CASE InstallBundle  BY <2>1, <2>3, TrackerAssumption DEF InstallBundle
  <2>4. CASE UNCHANGED <<newest, served>>  BY <2>1, <2>4
  <2> QED BY <2>2, <2>3, <2>4 DEF Begin, Drop, Record, trackerVars
<1> DEFINE Recording == [pc : {"recording"}, series : Series, at : 1..MaxTime, version : 1..MaxVersion]
<1>3. request' \in [Requests -> {Free} \cup Recording]
  <2>1. request \in [Requests -> {Free} \cup Recording] /\ newest \in 1..MaxTime
        /\ served \in 1..MaxVersion
    BY DEF TrackerInv, TrackerTypeOK
  <2>2. ASSUME NEW s \in Series
        PROVE  [pc |-> "recording", series |-> s, at |-> newest, version |-> served] \in Recording
    BY <2>1
  <2> HIDE DEF Recording
  <2>3. ASSUME NEW r \in Requests, Begin(r) PROVE request' \in [Requests -> {Free} \cup Recording]
    BY <2>1, <2>2, <2>3 DEF Begin
  <2>4. ASSUME NEW r \in Requests, Drop(r) \/ Record(r)
        PROVE  request' \in [Requests -> {Free} \cup Recording]
    BY <2>1, <2>4 DEF Drop, Record
  <2>5. CASE NextInstant \/ InstallBundle \/ UNCHANGED trackerVars
    BY <2>1, <2>5 DEF NextInstant, InstallBundle, trackerVars
  <2> QED BY <2>3, <2>4, <2>5
<1>4. TrackerTypeOK'
  BY <1>1, <1>2, <1>3 DEF TrackerInv, TrackerTypeOK
<1>5. (latest \in [Series -> 0..MaxTime] /\ Single(queues) /\ OwnForecasts)'
  BY <1>1 DEF TrackerInv, Single, OwnForecasts
<1>6. (InOrder /\ NeverCounted /\ CountedPast /\ CountedOnce)'
  BY <1>1 DEF TrackerInv, InOrder, NeverCounted, CountedPast, CountedOnce, Increasing
<1> QED BY <1>4, <1>5, <1>6 DEF TrackerInv

LEMMA ResetKeeps == TrackerInv /\ Reset => TrackerInv'
<1> SUFFICES ASSUME TrackerInv, Reset PROVE TrackerInv'
  OBVIOUS
<1>1. /\ queues' = <<>> /\ version' = served
      /\ UNCHANGED <<newest, served, request, counted, twice, latest, late>>
  BY DEF Reset, history
<1>2. Len(<<>>) = 0 /\ 1..0 = {} /\ DOMAIN <<>> = {}
  OBVIOUS
<1>3. queues' \in Seq([series : Series, forecasts : Seq(ForecastType)])
  BY <1>1
<1>4. TrackerTypeOK'
  BY <1>1, <1>2, <1>3, TrackerAssumption DEF TrackerInv, TrackerTypeOK
<1>5. (Single(queues) /\ OwnForecasts /\ InOrder /\ NeverCounted)'
  BY <1>1, <1>2 DEF Single, OwnForecasts, InOrder, NeverCounted
<1>6. (latest \in [Series -> 0..MaxTime] /\ CountedPast /\ CountedOnce)'
  BY <1>1 DEF TrackerInv, CountedPast, CountedOnce
<1> QED BY <1>4, <1>5, <1>6 DEF TrackerInv

\* record(), under the lock.
LEMMA RecordKeeps ==
  ASSUME TrackerInv, NEW r \in Requests, Record(r), Own(r)
  PROVE  TrackerInv'
<1> DEFINE s == request[r].series
           t == request[r].at
           T == Taken(s)
           n == Len(T)
           q == T[n].forecasts
           z == Recorded(q, t, version)
           mine == CHOOSE j \in DOMAIN T : T[j].series = s
           scored == UNION {{<<s, q[j].made_at, k>> : k \in Due(q[j], t)} : j \in DOMAIN q}
           double == \E i, j \in DOMAIN q : i # j /\ q[i].made_at = q[j].made_at
                                              /\ Due(q[i], t) \cap Due(q[j], t) # {}
\* The request, and the queues before.
<1>1. s \in Series /\ t \in 1..MaxTime /\ version \in 1..MaxVersion /\ request[r].version = version
  <2>1. request[r].pc = "recording" /\ request[r].version = version  BY DEF Record, Own
  <2>2. request[r] \in {Free} \cup
          [pc : {"recording"}, series : Series, at : 1..MaxTime, version : 1..MaxVersion]
    BY DEF TrackerInv, TrackerTypeOK
  <2>3. request[r] # Free  BY <2>1 DEF Free
  <2>4. request[r] \in [pc : {"recording"}, series : Series, at : 1..MaxTime,
                        version : 1..MaxVersion]
    BY <2>2, <2>3
  <2> QED BY <2>1, <2>4
<1>2. /\ queues \in Seq(QueueType) /\ Single(queues) /\ Len(queues) \in Nat
      /\ Len(queues) <= MaxSeries /\ latest \in [Series -> 0..MaxTime]
      /\ \A j \in 1..Len(queues) :
           /\ queues[j] \in QueueType /\ queues[j].series \in Series
           /\ queues[j].forecasts \in Seq(ForecastType)
           /\ Len(queues[j].forecasts) <= MaxPending
           /\ \A i \in 1..Len(queues[j].forecasts) : queues[j].forecasts[i].version = version
  <2>1. queues \in Seq(QueueType)  BY DEF TrackerInv, TrackerTypeOK, QueueType
  <2>2. DOMAIN queues = 1..Len(queues) /\ Len(queues) \in Nat  BY <2>1
  <2>3. ASSUME NEW j \in 1..Len(queues)
        PROVE  /\ queues[j] \in QueueType /\ queues[j].series \in Series
               /\ queues[j].forecasts \in Seq(ForecastType)
               /\ Len(queues[j].forecasts) <= MaxPending
               /\ \A i \in 1..Len(queues[j].forecasts) : queues[j].forecasts[i].version = version
    <3>1. queues[j] \in QueueType  BY <2>1, <2>2
    <3>2. queues[j].series \in Series /\ queues[j].forecasts \in Seq(ForecastType)
      BY <3>1 DEF QueueType
    <3>3. DOMAIN queues[j].forecasts = 1..Len(queues[j].forecasts)  BY <3>2
    <3> QED BY <2>2, <3>1, <3>2, <3>3 DEF TrackerInv, TrackerTypeOK, OwnForecasts
  <2> QED BY <2>1, <2>2, <2>3 DEF TrackerInv, TrackerTypeOK
<1>3. /\ T \in Seq(QueueType) /\ T # <<>> /\ Single(T) /\ T[n].series = s
      /\ q = <<>> \/ \E j \in 1..Len(queues) : T[n] = queues[j]
      /\ \A i \in 1..(n - 1) : \E j \in 1..Len(queues) : T[i] = queues[j]
      /\ n <= MaxSeries
  BY <1>1, <1>2, TakenParts
<1> HIDE DEF T
<1>4. n \in Nat \ {0} /\ DOMAIN T = 1..n /\ n \in 1..n
  BY <1>3
<1>5. T[n] \in QueueType /\ q \in Seq(ForecastType) /\ DOMAIN q = 1..Len(q) /\ Len(q) \in Nat
  <2>1. T[n] \in QueueType  BY <1>3, <1>4
  <2>2. q \in Seq(ForecastType)  BY <2>1 DEF QueueType
  <2> QED BY <2>1, <2>2
<1>6. mine = n
  <2>1. \A j \in DOMAIN T : T[j].series = s => j = n  BY <1>3, <1>4 DEF Single
  <2> QED BY <1>3, <1>4, <2>1
\* What the queue of the series was.
<1>7. /\ \A i \in 1..Len(q) : q[i].version = version
      /\ Len(q) <= MaxPending
      /\ s \notin late =>
           /\ Increasing(q) /\ \A i \in 1..Len(q) : q[i].made_at <= latest[s]
           /\ \A i \in 1..Len(q), k \in 1..Horizon :
                k \notin q[i].resolved => <<s, q[i].made_at, k>> \notin counted
  <2>1. CASE q = <<>>
    <3>1. Len(q) = 0 /\ 1..0 = {}  BY <2>1
    <3> QED BY <3>1, TrackerAssumption DEF Increasing
  <2>2. ASSUME NEW j \in 1..Len(queues), T[n] = queues[j]
        PROVE  /\ \A i \in 1..Len(q) : q[i].version = version
               /\ Len(q) <= MaxPending
               /\ s \notin late =>
                    /\ Increasing(q) /\ \A i \in 1..Len(q) : q[i].made_at <= latest[s]
                    /\ \A i \in 1..Len(q), k \in 1..Horizon :
                         k \notin q[i].resolved => <<s, q[i].made_at, k>> \notin counted
    <3>1. q = queues[j].forecasts /\ s = queues[j].series  BY <1>3, <2>2
    <3> HIDE DEF q, s
    <3> QED BY <1>2, <2>2, <3>1 DEF TrackerInv, InOrder, NeverCounted
  <2> QED BY <1>3, <2>1, <2>2
<1>8. \A i \in 1..Len(q) : q[i].made_at \in 1..MaxTime /\ q[i].resolved \subseteq 1..Horizon
  <2>1. \A i \in 1..Len(q) : q[i] \in ForecastType  BY <1>5
  <2> HIDE DEF q
  <2> QED BY <2>1 DEF ForecastType
\* The step.
<1>9. /\ queues' = [T EXCEPT ![n].forecasts = z]
      /\ counted' = counted \cup scored
      /\ twice' = twice \cup (IF scored \cap counted # {} \/ double THEN {s} ELSE {})
      /\ latest' = [latest EXCEPT ![s] = IF t > @ THEN t ELSE @]
      /\ late' = late \cup (IF t < latest[s] THEN {s} ELSE {})
      /\ request' = [request EXCEPT ![r] = Free]
      /\ UNCHANGED <<newest, served, version>>
  <2>1. /\ queues' = [T EXCEPT ![mine].forecasts =
                        Queued(Live(Resolved(T[mine].forecasts, t), t), t, request[r].version)]
        /\ LET p == T[mine].forecasts
               sc == UNION {{<<s, p[j].made_at, k>> : k \in Due(p[j], t)} : j \in DOMAIN p}
               db == \E i, j \in DOMAIN p : i # j /\ p[i].made_at = p[j].made_at
                                              /\ Due(p[i], t) \cap Due(p[j], t) # {}
           IN /\ counted' = counted \cup sc
              /\ twice' = twice \cup (IF sc \cap counted # {} \/ db THEN {s} ELSE {})
        /\ latest' = [latest EXCEPT ![s] = IF t > @ THEN t ELSE @]
        /\ late' = late \cup (IF t < latest[s] THEN {s} ELSE {})
        /\ request' = [request EXCEPT ![r] = Free]
        /\ UNCHANGED <<newest, served, version>>
    BY Zenon DEF Record, T
  <2>2. request[r].version = version  BY <1>1
  <2> HIDE DEF mine
  <2> QED BY <1>6, <2>1, <2>2 DEF Recorded
<1> HIDE DEF mine
<1>10. /\ z \in Seq(ForecastType) /\ Len(z) <= MaxPending
       /\ \A i \in 1..Len(z) :
            \/ z[i] = Forecast(t, version)
            \/ \E j \in 1..Len(q) : /\ z[i].made_at = q[j].made_at
                                    /\ z[i].version = q[j].version
                                    /\ z[i].resolved = q[j].resolved \cup Due(q[j], t)
       /\ Increasing(q) /\ (\A j \in 1..Len(q) : q[j].made_at <= t) =>
            Increasing(z) /\ \A i \in 1..Len(z) : z[i].made_at <= t
  <2>1. q \in Seq(ForecastType) /\ t \in 1..MaxTime /\ version \in 1..MaxVersion
        /\ Len(q) <= MaxPending
    BY <1>1, <1>5, <1>7
  <2> HIDE DEF q, t, z
  <2>2. z = Recorded(q, t, version)  BY DEF z
  <2> HIDE DEF s, scored, double
  <2>3. q \in Seq(ForecastType) /\ t \in 1..MaxTime /\ version \in 1..MaxVersion
          => /\ Recorded(q, t, version) \in Seq(ForecastType)
             /\ \A i \in 1..Len(Recorded(q, t, version)) :
                  \/ Recorded(q, t, version)[i] = Forecast(t, version)
                  \/ \E j \in 1..Len(q) :
                       /\ Recorded(q, t, version)[i].made_at = q[j].made_at
                       /\ Recorded(q, t, version)[i].version = q[j].version
                       /\ Recorded(q, t, version)[i].resolved = q[j].resolved \cup Due(q[j], t)
             /\ Len(q) <= MaxPending => Len(Recorded(q, t, version)) <= MaxPending
             /\ Increasing(q) /\ (\A j \in 1..Len(q) : q[j].made_at <= t) =>
                  /\ Increasing(Recorded(q, t, version))
                  /\ \A i \in 1..Len(Recorded(q, t, version)) :
                       Recorded(q, t, version)[i].made_at <= t
    BY RecordedParts, Zenon
  <2> QED BY <2>1, <2>2, <2>3, Zenon
<1> HIDE DEF z
<1> DEFINE new == [series |-> s, forecasts |-> z]
<1>11. /\ queues' \in Seq(QueueType) /\ Len(queues') = n
       /\ queues'[n] = new
       /\ \A i \in 1..(n - 1) : queues'[i] = T[i]
  <2>1. [T[n] EXCEPT !.forecasts = z] = new
    BY <1>3, <1>5 DEF QueueType
  <2>2. new \in QueueType  BY <1>1, <1>10 DEF QueueType
  <2>3. queues' = [T EXCEPT ![n] = new]  BY <1>4, <1>9, <2>1
  <2> HIDE DEF new
  <2>4. /\ queues' \in Seq(QueueType) /\ Len(queues') = n /\ queues'[n] = new
        /\ \A i \in 1..n : i # n => queues'[i] = T[i]
    BY <1>3, <1>4, <2>2, <2>3, ReplaceParts
  <2>5. \A i \in 1..(n - 1) : i \in 1..n /\ i # n
    <3> HIDE DEF n, s, t, q, scored, double
    <3> QED BY <1>4
  <2> QED BY <2>4, <2>5
<1>12. \A i \in 1..(n - 1) : T[i].series # s /\ \E j \in 1..Len(queues) : queues'[i] = queues[j]
  <2>1. SUFFICES ASSUME NEW i \in 1..(n - 1)
                 PROVE  T[i].series # s /\ \E j \in 1..Len(queues) : queues'[i] = queues[j]
    OBVIOUS
  <2>2. i \in 1..n /\ i # n
    <3> HIDE DEF n, s, t, q, scored, double
    <3> QED BY <1>4
  <2>3. T[i].series # s  BY <1>3, <1>4, <2>2 DEF Single
  <2> QED BY <1>3, <1>11, <2>3
<1>13. \A i \in 1..n : i = n \/ i \in 1..(n - 1)
  <2> HIDE DEF n, s, t, q, scored, double
  <2> QED BY <1>4
\* A record that is not late.
<1>14. ASSUME s \notin late'
       PROVE  /\ s \notin late /\ latest[s] <= t /\ latest'[s] = t
              /\ \A i \in 1..Len(q) : q[i].made_at <= t
              /\ scored \cap counted = {} /\ ~double
  <2>1. s \notin late /\ ~(t < latest[s])  BY <1>9, <1>14
  <2>2. latest[s] \in 0..MaxTime /\ t \in Nat  BY <1>1, <1>2, TrackerAssumption
  <2>3. latest'[s] = IF t > latest[s] THEN t ELSE latest[s]
    BY <1>1, <1>2, <1>9
  <2>4. latest[s] <= t /\ latest'[s] = t
    <3> HIDE DEF s, t
    <3> QED BY <2>1, <2>2, <2>3, TrackerAssumption
  <2>5. \A i \in 1..Len(q) : q[i].made_at <= t
    <3> HIDE DEF s, t, q
    <3> QED BY <1>7, <1>8, <2>1, <2>2, <2>4, TrackerAssumption
  <2>6. scored \cap counted = {}
    <3>1. SUFFICES ASSUME NEW j \in 1..Len(q), NEW k \in Due(q[j], t),
                          <<s, q[j].made_at, k>> \in counted
                   PROVE  FALSE
      BY <1>5
    <3>2. k \in 1..Horizon /\ k \notin q[j].resolved  BY DEF Due
    <3> HIDE DEF s, q, t
    <3> QED BY <1>7, <2>1, <3>1, <3>2
  <2>7. ~double
    <3>1. SUFFICES ASSUME NEW i \in 1..Len(q), NEW j \in 1..Len(q), i # j,
                          q[i].made_at = q[j].made_at
                   PROVE  FALSE
      BY <1>5
    <3> HIDE DEF s, q, t
    <3>2. q[i].made_at \in Int /\ q[j].made_at \in Int  BY <1>8
    <3>3. i < j \/ j < i  BY <3>1
    <3> QED BY <1>7, <2>1, <3>1, <3>2, <3>3 DEF Increasing
  <2> QED BY <2>1, <2>4, <2>5, <2>6, <2>7
\* The conjuncts.
<1>15. TrackerTypeOK'
  <2>1. request' \in [Requests -> {Free} \cup
          [pc : {"recording"}, series : Series, at : 1..MaxTime, version : 1..MaxVersion]]
    BY <1>9 DEF TrackerInv, TrackerTypeOK
  <2>2. queues' \in Seq([series : Series, forecasts : Seq(ForecastType)]) /\ Len(queues') <= MaxSeries
    BY <1>3, <1>11 DEF QueueType
  <2>3. \A j \in DOMAIN queues' : Len(queues'[j].forecasts) <= MaxPending
    <3>1. DOMAIN queues' = 1..n  BY <1>11
    <3>2. queues'[n].forecasts = z  BY <1>11
    <3> QED BY <1>2, <1>10, <1>12, <1>13, <3>1, <3>2
  <2> QED BY <1>9, <2>1, <2>2, <2>3 DEF TrackerInv, TrackerTypeOK
<1>16. latest' \in [Series -> 0..MaxTime]
  <2>1. t \in 0..MaxTime  BY <1>1
  <2> QED BY <1>2, <1>9, <2>1
<1>17. Single(queues)'
  <2>1. \A i \in 1..n : queues'[i].series = T[i].series
    BY <1>3, <1>11, <1>13
  <2> QED BY <1>3, <1>11, <2>1 DEF Single
<1>18. OwnForecasts'
  <2>1. \A i \in 1..Len(z) : z[i].version = version
    BY <1>7, <1>10 DEF Forecast
  <2>2. DOMAIN queues' = 1..n /\ queues'[n].forecasts = z /\ DOMAIN z = 1..Len(z)
    BY <1>10, <1>11
  <2>3. \A j \in 1..Len(queues) : DOMAIN queues[j].forecasts = 1..Len(queues[j].forecasts)
    BY <1>2
  <2>4. ASSUME NEW j \in 1..n
        PROVE  \A i \in DOMAIN queues'[j].forecasts : queues'[j].forecasts[i].version = version
    <3>1. CASE j = n  BY <2>1, <2>2, <3>1
    <3>2. CASE j \in 1..(n - 1)  BY <1>2, <1>12, <2>3, <3>2
    <3> QED BY <1>13, <3>1, <3>2
  <2> QED BY <1>9, <2>2, <2>4 DEF OwnForecasts
<1>19. ASSUME NEW u \in Series, u # s
       PROVE  /\ (u \in late' <=> u \in late) /\ latest'[u] = latest[u]
              /\ \A m, k : <<u, m, k>> \in counted' <=> <<u, m, k>> \in counted
  <2>1. late' \ {s} = late \ {s} /\ latest'[u] = latest[u]  BY <1>2, <1>9, <1>19
  <2>2. \A m, k : <<u, m, k>> \notin scored  BY <1>19
  <2> HIDE DEF scored
  <2> QED BY <1>9, <1>19, <2>1, <2>2
<1>20. InOrder'
  <2>1. SUFFICES ASSUME NEW j \in 1..n, queues'[j].series \notin late'
                 PROVE  /\ Increasing(queues'[j].forecasts)
                        /\ \A i \in 1..Len(queues'[j].forecasts) :
                             queues'[j].forecasts[i].made_at <= latest'[queues'[j].series]
    BY <1>11 DEF InOrder, Increasing
  <2>2. CASE j = n
    <3>1. queues'[j].series = s /\ queues'[j].forecasts = z  BY <1>11, <2>2
    <3>2. s \notin late'  BY <2>1, <3>1
    <3>3. s \notin late /\ latest'[s] = t /\ \A i \in 1..Len(q) : q[i].made_at <= t
      BY <1>14, <3>2
    <3>4. Increasing(z) /\ \A i \in 1..Len(z) : z[i].made_at <= t
      <4> HIDE DEF s, t, q
      <4> QED BY <1>7, <1>10, <3>3
    <3> HIDE DEF s, t, q, n
    <3> QED BY <3>1, <3>3, <3>4
  <2>3. CASE j \in 1..(n - 1)
    <3>1. PICK k \in 1..Len(queues) : queues'[j] = queues[k]  BY <1>12, <2>3
    <3>2. queues[k].series \in Series /\ queues[k].series # s  BY <1>2, <1>11, <1>12, <2>3, <3>1
    <3>3. queues[k].series \notin late /\ latest'[queues[k].series] = latest[queues[k].series]
      BY <1>19, <2>1, <3>1, <3>2
    <3> QED BY <3>1, <3>3 DEF TrackerInv, InOrder
  <2> QED BY <1>13, <2>2, <2>3
<1>21. NeverCounted'
  <2>1. SUFFICES ASSUME NEW j \in 1..n, queues'[j].series \notin late',
                        NEW i \in 1..Len(queues'[j].forecasts),
                        NEW k \in (1..Horizon) \ queues'[j].forecasts[i].resolved
                 PROVE  <<queues'[j].series, queues'[j].forecasts[i].made_at, k>> \notin counted'
    BY <1>11 DEF NeverCounted
  <2>2. CASE j = n
    <3>1. queues'[j].series = s /\ queues'[j].forecasts = z  BY <1>11, <2>2
    <3>2. s \notin late'  BY <2>1, <3>1
    <3>3. s \notin late /\ latest[s] <= t /\ \A m \in 1..Len(q) : q[m].made_at <= t
      BY <1>14, <3>2
    <3>4. i \in 1..Len(z) /\ k \in 1..Horizon /\ k \notin z[i].resolved  BY <2>1, <3>1
    <3>5. CASE z[i] = Forecast(t, version)
      <4>1. z[i].made_at = t  BY <3>5 DEF Forecast
      <4>2. t \in 1..MaxTime /\ t \in Nat /\ k \in Nat \ {0} /\ latest[s] \in Nat
        BY <1>1, <1>2, <3>4, TrackerAssumption
      <4>3. <<s, t, k>> \notin counted
        <5>1. t + k > latest[s]
          <6> HIDE DEF s, t
          <6> QED BY <3>3, <4>2
        <5> HIDE DEF t, s
        <5> QED BY <1>1, <3>3, <3>4, <4>2, <5>1 DEF TrackerInv, CountedPast
      <4>4. <<s, t, k>> \notin scored
        <5>1. SUFFICES ASSUME NEW m \in 1..Len(q), q[m].made_at = t, k \in Due(q[m], t) PROVE FALSE
          BY <1>5
        <5>2. q[m].made_at + k <= t  BY <5>1 DEF Due
        <5> HIDE DEF t, q
        <5> QED BY <4>2, <5>1, <5>2
      <4> HIDE DEF s, t, scored, q, n
      <4> QED BY <1>9, <3>1, <4>1, <4>3, <4>4
    <3>6. ASSUME NEW m \in 1..Len(q), z[i].made_at = q[m].made_at,
                 z[i].resolved = q[m].resolved \cup Due(q[m], t)
          PROVE  <<s, z[i].made_at, k>> \notin counted'
      <4>1. k \notin q[m].resolved /\ k \notin Due(q[m], t)  BY <3>4, <3>6
      <4>2. <<s, q[m].made_at, k>> \notin counted
        <5> HIDE DEF s, t, q
        <5> QED BY <1>7, <3>3, <3>4, <4>1
      <4>3. <<s, q[m].made_at, k>> \notin scored
        <5>1. SUFFICES ASSUME NEW p \in 1..Len(q), q[p].made_at = q[m].made_at, k \in Due(q[p], t)
                       PROVE  FALSE
          BY <1>5
        <5> HIDE DEF s, t, q
        <5>2. q[p].made_at \in Int /\ q[m].made_at \in Int  BY <1>8
        <5>3. ~(p < m) /\ ~(m < p)  BY <1>7, <3>3, <5>1, <5>2 DEF Increasing
        <5>4. p = m  BY <5>3
        <5> QED BY <4>1, <5>1, <5>4
      <4> HIDE DEF s, t, q, scored
      <4> QED BY <1>9, <3>6, <4>2, <4>3
    <3> HIDE DEF s, t, q, n, scored
    <3> QED BY <1>10, <3>1, <3>4, <3>5, <3>6
  <2>3. CASE j \in 1..(n - 1)
    <3>1. PICK m \in 1..Len(queues) : queues'[j] = queues[m]  BY <1>12, <2>3
    <3>2. queues[m].series \in Series /\ queues[m].series # s  BY <1>2, <1>11, <1>12, <2>3, <3>1
    <3>3. queues[m].series \notin late  BY <1>19, <2>1, <3>1, <3>2
    <3>4. <<queues[m].series, queues[m].forecasts[i].made_at, k>> \notin counted
      BY <2>1, <3>1, <3>3 DEF TrackerInv, NeverCounted
    <3> QED BY <1>19, <3>1, <3>2, <3>4
  <2> QED BY <1>13, <2>2, <2>3
<1>22. CountedPast'
  <2>1. SUFFICES ASSUME NEW u \in Series, u \notin late', NEW m \in 1..MaxTime, NEW k \in 1..Horizon,
                        <<u, m, k>> \in counted'
                 PROVE  m + k <= latest'[u]
    BY DEF CountedPast
  <2>2. CASE u = s
    <3>1. s \notin late /\ latest[s] <= t /\ latest'[s] = t  BY <1>14, <2>1, <2>2
    <3>2. CASE <<s, m, k>> \in counted
      <4>1. m + k <= latest[s]
        <5> HIDE DEF s, t
        <5> QED BY <1>1, <2>1, <3>1, <3>2 DEF TrackerInv, CountedPast
      <4>2. latest[s] \in Int /\ t \in Int  BY <1>1, <1>2
      <4> HIDE DEF s, t
      <4> QED BY <2>2, <3>1, <4>1, <4>2
    <3>3. CASE <<s, m, k>> \in scored
      <4>1. PICK j \in 1..Len(q) : q[j].made_at = m /\ k \in Due(q[j], t)  BY <1>5, <3>3
      <4>2. m + k <= t  BY <4>1 DEF Due
      <4> HIDE DEF s, t
      <4> QED BY <2>2, <3>1, <4>2
    <3> HIDE DEF scored, s, t
    <3> QED BY <1>9, <2>1, <2>2, <3>2, <3>3
  <2>3. CASE u # s
    <3>1. u \notin late /\ latest'[u] = latest[u] /\ <<u, m, k>> \in counted
      BY <1>19, <2>1, <2>3
    <3> QED BY <2>1, <3>1 DEF TrackerInv, CountedPast
  <2> QED BY <2>2, <2>3
<1>23. CountedOnce'
  <2>1. twice \subseteq late /\ late \subseteq late'  BY <1>9 DEF TrackerInv, CountedOnce
  <2>2. s \notin late' => twice' = twice
    <3> HIDE DEF scored, double, s
    <3> QED BY <1>9, <1>14
  <2>3. twice' \subseteq twice \cup {s}  BY <1>9
  <2> QED BY <2>1, <2>2, <2>3 DEF CountedOnce
<1> QED
  BY <1>15, <1>16, <1>17, <1>18, <1>20, <1>21, <1>22, <1>23 DEF TrackerInv

LEMMA TrackerAlways == TrackerSpec => []TrackerInv
<1>1. TrackerInv /\ [TrackerNext]_trackerVars => TrackerInv'
  BY QuietKeeps, ResetKeeps, RecordKeeps DEF TrackerNext
<1> QED BY <1>1, TrackerInitInv, PTL DEF TrackerSpec

\* Every variable keeps to its type: no more series than max_series are kept, and no
\* more forecasts of one than max_pending, however many requests overlap.
THEOREM TrackerTypeCorrect == TrackerSpec => []TrackerTypeOK
<1>1. TrackerInv => TrackerTypeOK  BY DEF TrackerInv
<1> QED BY <1>1, TrackerAlways, PTL

\* record() and reset(): see OwnForecasts.
THEOREM ForecastsAreOwn == TrackerSpec => []OwnForecasts
<1>1. TrackerInv => OwnForecasts  BY DEF TrackerInv
<1> QED BY <1>1, TrackerAlways, PTL

\* record(): see CountedOnce.
THEOREM InstantsAreCountedOnce == TrackerSpec => []CountedOnce
<1>1. TrackerInv => CountedOnce  BY DEF TrackerInv
<1> QED BY <1>1, TrackerAlways, PTL

=============================================================================
