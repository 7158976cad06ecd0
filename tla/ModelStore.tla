------------------------------ MODULE ModelStore ------------------------------
(***************************************************************************)
(* How one pod of forecast-serving comes by its model (serving/app.py):    *)
(* the load from the registry as a single flight, the startup that waits   *)
(* for it, the lifecycle worker that follows the alias, and the copy of    *)
(* the model on disk, which survives the process.                          *)
(*                                                                         *)
(* A bundle is its version, which stands for run, scalers, metadata and    *)
(* tags, and the version its model really is: the two are fetched by       *)
(* different names.                                                        *)
(***************************************************************************)
EXTENDS Naturals

CONSTANTS
  Versions,  \* registered versions
  Unusable,  \* of these, the ones whose model cannot forecast
  None,      \* nothing
  Partial    \* a directory whose files are not all written

ASSUME ConstantsAssumption ==
  /\ Unusable \subseteq Versions
  /\ None \notin [version : Versions, model : Versions]

VARIABLES
  alias,    \* the version the alias points to, or None
  up,       \* the registry answers
  final,    \* MODEL_CACHE_DIR/champion
  tmp,      \* MODEL_CACHE_DIR/.champion.tmp
  old,      \* MODEL_CACHE_DIR/champion.old
  main,     \* where the startup is; "down" while there is no process
  worker,   \* where the lifecycle worker is
  flight,   \* where the registry load is, "none" without one
  loaded,   \* what the load has fetched
  failed,   \* the last load ended in an exception
  copy,     \* what the startup has read from the cache
  bundle,   \* STORE._bundle
  stage     \* its model_stage: "registry", or "cache"

registry == <<alias, up>>
disk == <<final, tmp, old>>
store == <<bundle, stage>>
load == <<flight, loaded, failed>>
vars == <<alias, up, final, tmp, old, main, worker, flight, loaded, failed, copy,
          bundle, stage>>

Bundles == [version : Versions, model : Versions]

\* /readyz answers 200: Kubernetes sends requests to the pod.
Ready == bundle # None

-----------------------------------------------------------------------------
Init ==
  /\ alias \in Versions \cup {None}
  /\ up \in BOOLEAN
  /\ final = None
  /\ tmp = None
  /\ old = None
  /\ main = "down"
  /\ worker = "off"
  /\ flight = "none"
  /\ loaded = None
  /\ failed = FALSE
  /\ copy = None
  /\ bundle = None
  /\ stage = "registry"

(***************************************************************************)
(* The registry load.                                                      *)
(***************************************************************************)

\* load_task(): the load in progress, or a new one.
LoadTask ==
  IF flight = "none"
    THEN flight' = "resolving" /\ failed' = FALSE /\ UNCHANGED loaded
    ELSE UNCHANGED load

\* The load is over; whoever waits for it goes on.
EndLoad(exception) ==
  /\ flight' = "none"
  /\ failed' = exception
  /\ loaded' = None

\* resolve_version(): the version behind the alias.
Resolve ==
  /\ flight = "resolving"
  /\ IF up /\ alias # None
       THEN /\ loaded' = [version |-> alias, model |-> alias]
            /\ flight' = "downloading"
            /\ UNCHANGED failed
       ELSE EndLoad(TRUE)
  /\ UNCHANGED <<registry, disk, main, worker, copy, store>>

\* Faulty variant: without the warm-up.
DownloadCold ==
  /\ flight = "downloading"
  /\ IF up
       THEN /\ loaded' = [loaded EXCEPT !.model = alias]
            /\ flight' = "swapping"
            /\ UNCHANGED failed
       ELSE EndLoad(TRUE)
  /\ UNCHANGED <<registry, disk, main, worker, copy, store>>

\* The model is fetched by the alias, which may have moved on; scalers and
\* metadata by the run of the version.  Then validation and the warm-up.
Download ==
  /\ flight = "downloading"
  /\ IF up /\ alias \notin Unusable
       THEN /\ loaded' = [loaded EXCEPT !.model = alias]
            /\ flight' = "swapping"
            /\ UNCHANGED failed
       ELSE EndLoad(TRUE)
  /\ UNCHANGED <<registry, disk, main, worker, copy, store>>

\* install(), for a bundle of the registry or of the cache.
Install(b, selector) ==
  /\ bundle' = b
  /\ stage' = selector

\* The swap under the lock; then the copy is written.
Swap ==
  /\ flight = "swapping"
  /\ Install(loaded, "registry")
  /\ flight' = "clearing"
  /\ UNCHANGED <<registry, disk, main, worker, loaded, failed, copy>>

(***************************************************************************)
(* write_cache(), one file operation at a time.                            *)
(***************************************************************************)

\* rmtree(tmp), makedirs(tmp).
Clear ==
  /\ flight = "clearing"
  /\ tmp' = Partial
  /\ flight' = "saving"
  /\ UNCHANGED <<registry, final, old, main, worker, loaded, failed, copy, store>>

\* model, scalers and cache.json are in tmp; rmtree(old).
Save ==
  /\ flight = "saving"
  /\ tmp' = loaded
  /\ old' = None
  /\ flight' = "parking"
  /\ UNCHANGED <<registry, final, main, worker, loaded, failed, copy, store>>

\* rename(final, old), if there is one.
Park ==
  /\ flight = "parking"
  /\ old' = final
  /\ final' = None
  /\ flight' = "placing"
  /\ UNCHANGED <<registry, tmp, main, worker, loaded, failed, copy, store>>

\* rename(tmp, final).
Place ==
  /\ flight = "placing"
  /\ final' = tmp
  /\ tmp' = None
  /\ flight' = "sweeping"
  /\ UNCHANGED <<registry, old, main, worker, loaded, failed, copy, store>>

\* rmtree(old).
Sweep ==
  /\ flight = "sweeping"
  /\ old' = None
  /\ EndLoad(FALSE)
  /\ UNCHANGED <<registry, final, tmp, main, worker, copy, store>>

\* The disk is full or read-only: logged, the load has succeeded.
WriteFails ==
  /\ flight \in {"clearing", "saving", "parking", "placing"}
  /\ EndLoad(FALSE)
  /\ UNCHANGED <<registry, disk, main, worker, copy, store>>

Load ==
  \/ Resolve \/ Download \/ Swap
  \/ Clear \/ Save \/ Park \/ Place \/ Sweep

(***************************************************************************)
(* startup_load().                                                         *)
(***************************************************************************)
Start ==
  /\ main = "down"
  /\ main' = "waiting"
  /\ LoadTask
  /\ UNCHANGED <<registry, disk, worker, copy, store>>

\* The startup is over: the port opens and the worker starts.
Open == main' = "open" /\ worker' = "awake"

StartLoaded ==
  /\ main = "waiting"
  /\ flight = "none" /\ ~failed
  /\ Open
  /\ UNCHANGED <<registry, disk, load, copy, store>>

\* Faulty variant: after a failure the port opens, the cache is not read.
GiveUpOpens ==
  /\ main = "waiting"
  /\ flight # "none" \/ failed
  /\ Open
  /\ UNCHANGED <<registry, disk, load, copy, store>>

\* The load failed, or the wait timed out and the load goes on.
GiveUp ==
  /\ main = "waiting"
  /\ flight # "none" \/ failed
  /\ main' = "reading"
  /\ UNCHANGED <<registry, disk, worker, load, copy, store>>

\* read_cache(): cache.json first.
ReadInfo ==
  /\ main = "reading"
  /\ IF final = None
       THEN Open /\ UNCHANGED copy
       ELSE main' = "unpickling" /\ copy' = final /\ UNCHANGED worker
  /\ UNCHANGED <<registry, disk, load, store>>

\* Then the model and the scalers, which a write of the cache may have taken away
\* or replaced meanwhile; and the warm-up.
ReadModel ==
  /\ main = "unpickling"
  /\ \/ /\ final # copy
        /\ Open
        /\ copy' = None
     \/ /\ final # None
        /\ main' = "offering"
        /\ copy' = [copy EXCEPT !.model = final.model]
        /\ UNCHANGED worker
  /\ UNCHANGED <<registry, disk, load, store>>

\* Faulty variant: the copy serves whatever is serving.
OfferAlways ==
  /\ main = "offering"
  /\ Install(copy, "cache")
  /\ Open
  /\ copy' = None
  /\ UNCHANGED <<registry, disk, load>>

\* Under the lock: the copy serves unless a model is already serving.
Offer ==
  /\ main = "offering"
  /\ IF bundle = None THEN Install(copy, "cache") ELSE UNCHANGED store
  /\ Open
  /\ copy' = None
  /\ UNCHANGED <<registry, disk, load>>

Startup == Start \/ StartLoaded \/ GiveUp \/ ReadInfo \/ ReadModel \/ Offer

(***************************************************************************)
(* lifecycle_worker().                                                     *)
(***************************************************************************)

\* Without a model it loads.
Retry ==
  /\ worker = "awake"
  /\ bundle = None
  /\ LoadTask
  /\ worker' = "awaiting"
  /\ UNCHANGED <<registry, disk, main, copy, store>>

\* Faulty variant: only the version counts.
NeedsRefreshMoved == up /\ alias # None /\ alias # bundle.version

\* _needs_refresh(): the alias has moved, or the model is the cache's.
NeedsRefresh == up /\ alias # None /\ (alias # bundle.version \/ stage = "cache")

\* With a model it checks the alias and loads when it has to, or joins the load.
Refresh ==
  /\ worker = "awake"
  /\ bundle # None
  /\ flight = "none"
  /\ NeedsRefresh
  /\ LoadTask
  /\ worker' = "awaiting"
  /\ UNCHANGED <<registry, disk, main, copy, store>>

\* The load it waited for is over; MODEL_REFRESH_SECONDS or MODEL_RETRY_SECONDS
\* go by.
Sleep ==
  /\ worker = "awaiting"
  /\ flight = "none"
  /\ worker' = "awake"
  /\ UNCHANGED <<registry, disk, main, load, copy, store>>

Worker == Retry \/ Refresh \/ Sleep

(***************************************************************************)
(* Around the pod.                                                         *)
(***************************************************************************)

\* The process ends, whatever it is doing; the disk stays.
Crash ==
  /\ main # "down"
  /\ main' = "down"
  /\ worker' = "off"
  /\ EndLoad(FALSE)
  /\ copy' = None
  /\ bundle' = None
  /\ stage' = "registry"
  /\ UNCHANGED <<registry, disk>>

\* Training, or a rollback by hand, moves the alias; the registry goes and comes
\* back.
RegistryChange ==
  /\ alias' \in IF alias = None THEN Versions \cup {None} ELSE Versions
  /\ up' \in BOOLEAN
  /\ UNCHANGED <<disk, main, worker, load, copy, store>>

Next == Load \/ WriteFails \/ Startup \/ Worker \/ Crash \/ RegistryChange

Fairness ==
  /\ WF_vars(Load)
  /\ WF_vars(Startup)
  /\ WF_vars(Worker)

Spec == Init /\ [][Next]_vars /\ Fairness

-----------------------------------------------------------------------------
(***************************************************************************)
(* Properties.                                                             *)
(***************************************************************************)
Flights == {"none", "resolving", "downloading", "swapping",
            "clearing", "saving", "parking", "placing", "sweeping"}

TypeOK ==
  /\ alias \in Versions \cup {None}
  /\ up \in BOOLEAN
  /\ final \in Bundles \cup {None}
  /\ tmp \in Bundles \cup {None, Partial}
  /\ old \in Bundles \cup {None}
  /\ main \in {"down", "waiting", "reading", "unpickling", "offering", "open"}
  /\ worker \in {"off", "awake", "awaiting"}
  /\ flight \in Flights
  /\ loaded \in Bundles \cup {None}
  /\ failed \in BOOLEAN
  /\ copy \in Bundles \cup {None}
  /\ bundle \in Bundles \cup {None}
  /\ stage \in {"registry", "cache"}

\* "The last-known-good bundle": what lies in the cache directory is a model that
\* can forecast, and what the pod serves from the cache is exactly what lies there,
\* although the startup may read it while the load it gave up on replaces it.
CacheIsKnownGood ==
  /\ final # None => final.model \notin Unusable
  /\ bundle # None /\ stage = "cache" => bundle = final

\* "Last-known-good copy of the loaded model": nothing comes to lie in the cache
\* directory but the model of the registry that the pod serves at that moment.
CacheKeepsServed ==
  [][final' \notin {final, None} => bundle = final' /\ stage = "registry"]_vars

\* "A registry load that finished first must never be replaced by the cache."
RegistryWins ==
  [][bundle # None /\ stage = "registry" /\ main' # "down" => stage' = "registry"]_vars

\* "So all replicas converge on the same version": once the registry answers, the
\* alias stays at a usable version and the pod stays alive, the pod ends up with
\* that version, from the registry.
FollowsAlias ==
  \A v \in Versions \ Unusable :
    <>[](up /\ alias = v /\ main # "down") =>
      <>[](Ready /\ bundle.version = v /\ stage = "registry")

\* "A pod that restarts while MLflow is down serves from it": once the pod stays
\* alive with a copy on disk it is ready, whatever the registry does.
CacheServes ==
  <>[](final # None /\ main # "down") => <>[]Ready

=============================================================================
