----------------------------- MODULE ModelStoreMC -----------------------------
(***************************************************************************)
(* Model checking instance of ModelStore.                                  *)
(***************************************************************************)
EXTENDS ModelStore

=============================================================================
