------------------------- MODULE MCNotificationLedger -------------------------
(***************************************************************************)
(* One notification and the workers that meet on it.                       *)
(***************************************************************************)
EXTENDS NotificationChannel, TLC
===============================================================================
