------------------------ MODULE MCNotificationStream ------------------------
(* Instances of NotificationStream for TLC.                                *)
EXTENDS NotificationStream
=============================================================================
