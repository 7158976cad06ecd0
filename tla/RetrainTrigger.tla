---------------------------- MODULE RetrainTrigger ----------------------------
(***************************************************************************)
(* The webhook receiver that turns a firing alert into a training Job      *)
(* (training/forecast_training/trigger.py), with what Kubernetes does of   *)
(* the Jobs it makes and of those the CronJob makes.  Every webhook has a  *)
(* thread of its own (ThreadingHTTPServer); between listing the Jobs and   *)
(* creating one it reads the CronJob and the breaker's intervals.          *)
(***************************************************************************)
EXTENDS Naturals

CONSTANTS
  Handlers,     \* threads of the receiver
  AlertJobs,    \* Jobs the receiver may create
  CronJobs,     \* Jobs the CronJob may create
  MinGap,       \* MIN_GAP_HOURS, in ticks
  BackoffLimit  \* failed pods of a Job that are replaced

ASSUME JobsAssumption ==
  /\ AlertJobs \cap CronJobs = {}
  /\ MinGap \in Nat
  /\ BackoffLimit \in Nat

VARIABLES
  firing,   \* the alert fires
  handler,  \* what each thread does
  job       \* the Jobs

triggerVars == <<firing, handler, job>>

Jobs == AlertJobs \cup CronJobs

\* Complete or failed.
Finished(j) == job[j].phase = "finished"

\* A name can be used again once its Job is of no more interest.
Free(j) ==
  \/ job[j].phase = "none"
  \/ Finished(j) /\ (j \in AlertJobs => job[j].since >= MinGap)

Unfinished(j) == job[j].phase \in {"new", "active", "backoff"}

-----------------------------------------------------------------------------
TriggerInit ==
  /\ firing = FALSE
  /\ handler = [h \in Handlers |-> "idle"]
  /\ job = [j \in Jobs |-> [phase |-> "none", since |-> 0, failures |-> 0]]

AlertChange ==
  /\ firing' = ~firing
  /\ UNCHANGED <<handler, job>>

\* Time passes for the Jobs that are over, as far as the receiver looks.
TickJobs ==
  /\ job' = [j \in Jobs |-> IF j \in AlertJobs /\ Finished(j) /\ job[j].since < MinGap
                              THEN [job[j] EXCEPT !.since = @ + 1]
                              ELSE job[j]]
  /\ job' # job
  /\ UNCHANGED <<firing, handler>>

(***************************************************************************)
(* handle_alerts().                                                        *)
(***************************************************************************)

\* recent_or_active(): a Job without a status, or between two pods, is neither
\* active nor finished.
Busy(j) ==
  \/ job[j].phase = "active"
  \/ Finished(j) /\ job[j].since < MinGap

\* Faulty variant: finished Jobs block for good.
WebhookBlocked(h) ==
  /\ firing
  /\ handler[h] = "idle"
  /\ \A j \in AlertJobs : ~(job[j].phase = "active" \/ Finished(j))
  /\ handler' = [handler EXCEPT ![h] = "creating"]
  /\ UNCHANGED <<firing, job>>

\* The alert is acted on unless a Job of the receiver's own is in the way.
Webhook(h) ==
  /\ firing
  /\ handler[h] = "idle"
  /\ \A j \in AlertJobs : ~Busy(j)
  /\ handler' = [handler EXCEPT ![h] = "creating"]
  /\ UNCHANGED <<firing, job>>

NewJob(j) == job' = [job EXCEPT ![j] = [phase |-> "new", since |-> 0, failures |-> 0]]

CreateJob(h) ==
  /\ handler[h] = "creating"
  /\ \E j \in AlertJobs : Free(j) /\ NewJob(j)
  /\ handler' = [handler EXCEPT ![h] = "idle"]
  /\ UNCHANGED firing

\* The Kubernetes API does not answer: 500 to Alertmanager, which will repeat.
CreateFails(h) ==
  /\ handler[h] = "creating"
  /\ handler' = [handler EXCEPT ![h] = "idle"]
  /\ UNCHANGED <<firing, job>>

(***************************************************************************)
(* Kubernetes.                                                             *)
(***************************************************************************)

\* The schedule of the CronJob; concurrencyPolicy is Forbid.
Schedule(j) ==
  /\ j \in CronJobs /\ Free(j)
  /\ \A k \in CronJobs : ~Unfinished(k)
  /\ NewJob(j)
  /\ UNCHANGED <<firing, handler>>

StartPod(j) ==
  /\ job[j].phase \in {"new", "backoff"}
  /\ job' = [job EXCEPT ![j].phase = "active"]
  /\ UNCHANGED <<firing, handler>>

Ended == [phase |-> "finished", since |-> 0, failures |-> 0]

PodSucceeds(j) ==
  /\ job[j].phase = "active"
  /\ job' = [job EXCEPT ![j] = Ended]
  /\ UNCHANGED <<firing, handler>>

\* Replaced, up to backoffLimit of the Job's pods.
PodFails(j) ==
  /\ job[j].phase = "active"
  /\ job' = [job EXCEPT ![j] =
       IF @.failures < BackoffLimit
         THEN [@ EXCEPT !.phase = "backoff", !.failures = job[j].failures + 1]
         ELSE Ended]
  /\ UNCHANGED <<firing, handler>>

\* activeDeadlineSeconds.
Deadline(j) ==
  /\ Unfinished(j)
  /\ job' = [job EXCEPT ![j] = Ended]
  /\ UNCHANGED <<firing, handler>>

Handle(h) == Webhook(h) \/ CreateJob(h) \/ CreateFails(h)

TriggerNext ==
  \/ AlertChange \/ TickJobs
  \/ \E h \in Handlers : Handle(h)
  \/ \E j \in Jobs : Schedule(j) \/ StartPod(j) \/ PodSucceeds(j) \/ PodFails(j) \/ Deadline(j)

\* Alertmanager repeats a notification while the alert fires, the Kubernetes API
\* answers some time, Jobs have a deadline, and time passes.
TriggerFairness ==
  /\ WF_triggerVars(TickJobs)
  /\ \A h \in Handlers : WF_triggerVars(Webhook(h)) /\ SF_triggerVars(CreateJob(h))
  /\ \A j \in Jobs : WF_triggerVars(Deadline(j))

TriggerSpec == TriggerInit /\ [][TriggerNext]_triggerVars /\ TriggerFairness

-----------------------------------------------------------------------------
(***************************************************************************)
(* Properties.                                                             *)
(***************************************************************************)
TriggerTypeOK ==
  /\ firing \in BOOLEAN
  /\ handler \in [Handlers -> {"idle", "creating"}]
  /\ job \in [Jobs -> [phase : {"none", "new", "active", "backoff", "finished"},
                       since : 0..MinGap, failures : 0..BackoffLimit]]

\* An alert that goes on firing is answered by a Job, whatever became of the
\* Jobs before it and however often the Kubernetes API failed.
AlertAnswered ==
  firing ~> (~firing \/ \E j \in AlertJobs : job[j].phase = "new")

=============================================================================
