-------------------------- MODULE ForecastLedgerMC --------------------------
(***************************************************************************)
(* Model checking instance of ForecastLedger.                              *)
(***************************************************************************)
EXTENDS ForecastLedger

=============================================================================
