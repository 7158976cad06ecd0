------------------------------- MODULE ScalerMC -------------------------------
(***************************************************************************)
(* Model checking instance of Scaler: two ScaledObjects with external-push *)
(* triggers, of which one is polled as well; two threads.                  *)
(***************************************************************************)
EXTENDS Scaler

CONSTANTS a, b, p, s1, s2

KeyOfCalls == [c \in Calls |-> IF c = s2 THEN a ELSE b]

=============================================================================
