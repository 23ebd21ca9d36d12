---------------------------- MODULE MCLifecycle -----------------------------
(***************************************************************************)
(* Lifecycle for TLC.  One run checks safety and liveness, so requests are *)
(* not declared symmetric.                                                 *)
(***************************************************************************)
EXTENDS Lifecycle
=============================================================================
