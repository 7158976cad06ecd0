------------------------------- MODULE EngineMC -------------------------------
(***************************************************************************)
(* Model checking instance of Engine.                                      *)
(***************************************************************************)
EXTENDS Engine

=============================================================================
