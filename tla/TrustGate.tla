------------------------------ MODULE TrustGate ------------------------------
(***************************************************************************)
(* What the anomaly breaker promises, without its signals, its counters    *)
(* and its doubling holds: evidence against the forecast stops its use at  *)
(* once, whenever it comes, and the forecast is not used again until Hold  *)
(* ticks have passed since the last piece of evidence and, after that,     *)
(* Needed polls in a row have found the series calm.                       *)
(***************************************************************************)
EXTENDS Integers

CONSTANTS
  Hold,     \* ticks the forecast stays unused after the last evidence against it
  Horizon,  \* ticks the age of the evidence is counted to
  Needed    \* calm polls in a row before the forecast is used again

VARIABLES
  trusted,  \* the forecast is used
  quiet,    \* ticks since the last evidence against it, up to Horizon
  assents   \* calm polls in a row since the hold was over

vars == <<trusted, quiet, assents>>

Init == trusted = TRUE /\ quiet = Horizon /\ assents = 0

Distrust ==
  /\ trusted' = FALSE
  /\ quiet' = 0
  /\ assents' = 0

Assent ==
  /\ ~trusted
  /\ quiet >= Hold
  /\ assents + 1 < Needed
  /\ assents' = assents + 1
  /\ UNCHANGED <<trusted, quiet>>

Dissent ==
  /\ ~trusted
  /\ assents' = 0
  /\ UNCHANGED <<trusted, quiet>>

Trust ==
  /\ ~trusted
  /\ quiet >= Hold
  /\ assents + 1 = Needed
  /\ trusted' = TRUE
  /\ assents' = 0
  /\ UNCHANGED quiet

Tick ==
  /\ quiet < Horizon
  /\ quiet' = quiet + 1
  /\ UNCHANGED <<trusted, assents>>

Next == Distrust \/ Assent \/ Dissent \/ Trust \/ Tick

Spec == Init /\ [][Next]_vars

=============================================================================
