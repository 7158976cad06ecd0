------------------------------ MODULE Retraining ------------------------------
(***************************************************************************)
(* The loop that renews the model: alerts and the schedule make Jobs       *)
(* (RetrainTrigger), each pod of a Job is a training run (Promotion), and  *)
(* the runs meet in the registry.  A Job has one pod at a time; its run is *)
(* known by the Job's name.                                                *)
(***************************************************************************)
EXTENDS Promotion, RetrainTrigger

ASSUME RunsAreJobs == Runs = Jobs

allVars == <<vars, triggerVars>>

RetrainInit == Init /\ TriggerInit

Trigger == AlertChange \/ TickJobs \/ \E h \in Handlers : Handle(h)

\* A pod is started: the process trains on what the series holds by now.
Pod(j) == StartPod(j) /\ Train(j)

PodStep(j) == RunNext(j) /\ UNCHANGED triggerVars

\* The process exits 0, promoted or not.
Exit(j) == PodSucceeds(j) /\ run[j].pc = "done" /\ Leave(j)

\* The process fails or is killed.
Fail(j) == PodFails(j) /\ Leave(j)

\* The Job is out of time, its pod with it.
Expire(j) == Deadline(j) /\ IF run[j].pc = "off" THEN UNCHANGED vars ELSE Leave(j)

RetrainNext ==
  \/ NewData /\ UNCHANGED triggerVars
  \/ Trigger /\ UNCHANGED vars
  \/ \E j \in Jobs :
       \/ Schedule(j) /\ UNCHANGED vars
       \/ Pod(j) \/ PodStep(j) \/ Exit(j) \/ Fail(j) \/ Expire(j)

\* As in RetrainTrigger; nothing is assumed of the training runs.
RetrainFairness ==
  /\ WF_allVars(TickJobs /\ UNCHANGED vars)
  /\ \A h \in Handlers :
       WF_allVars(Webhook(h) /\ UNCHANGED vars) /\ SF_allVars(CreateJob(h) /\ UNCHANGED vars)
  /\ \A j \in Jobs : WF_allVars(Expire(j))

RetrainSpec == RetrainInit /\ [][RetrainNext]_allVars /\ RetrainFairness

=============================================================================
