-------------------------- MODULE ForecastTrackerMC --------------------------
(***************************************************************************)
(* Model checking instance of ForecastTracker.                             *)
(***************************************************************************)
EXTENDS ForecastTracker, TLC

CONSTANTS s1, s2, r1, r2

Symmetry == Permutations({r1, r2}) \cup Permutations({s1, s2})

=============================================================================
