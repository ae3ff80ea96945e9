------------------------ MODULE MCNotificationOutbox ------------------------
(* Constants for TLC. *)
EXTENDS NotificationOutbox

CONSTANTS t1, t2
=============================================================================
