---------------------------- MODULE MCNotificationQueue ---------------------
(***************************************************************************)
(* NotificationQueue for TLC.  The runs check safety and liveness, so the  *)
(* goroutines of one kind are not declared symmetric.                      *)
(***************************************************************************)
EXTENDS NotificationQueue
=============================================================================
