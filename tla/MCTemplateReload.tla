---------------------------- MODULE MCTemplateReload ------------------------
(***************************************************************************)
(* TemplateReload for TLC.  One run checks safety and liveness, so loaders *)
(* are not declared symmetric.                                             *)
(***************************************************************************)
EXTENDS TemplateReload
=============================================================================
