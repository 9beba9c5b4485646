-------------------------- MODULE MCNotificationQueue --------------------------
(***************************************************************************)
(* Instances of NotificationQueue for TLC.                                 *)
(***************************************************************************)
EXTENDS NotificationQueue, TLC

\* Workers are interchangeable (safety runs only).
Alike == Permutations(Workers)
=============================================================================
