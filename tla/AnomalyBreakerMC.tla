-------------------------- MODULE AnomalyBreakerMC --------------------------
(***************************************************************************)
(* Model checking instance of AnomalyBreaker.                              *)
(***************************************************************************)
EXTENDS AnomalyBreaker

=============================================================================
