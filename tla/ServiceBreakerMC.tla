-------------------------- MODULE ServiceBreakerMC --------------------------
(***************************************************************************)
(* Model checking instance of ServiceBreaker.                              *)
(***************************************************************************)
EXTENDS ServiceBreaker

=============================================================================
