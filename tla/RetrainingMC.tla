----------------------------- MODULE RetrainingMC -----------------------------
(***************************************************************************)
(* Model checking instance of Retraining: the CronJob and the receiver     *)
(* with one Job each, which they may make again and again.  The Job of an  *)
(* alert asks for no improvement, the scheduled one for more than 40 %.    *)
(***************************************************************************)
EXTENDS Retraining

MCContract == [r \in Runs |-> "cpu,rps"]
MCMinImprovement == [r \in Runs |-> IF r \in AlertJobs THEN 0 ELSE 40]

=============================================================================
