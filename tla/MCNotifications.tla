-------------------------- MODULE MCNotifications --------------------------
(* Values for the constants of NotificationPages.                          *)
EXTENDS NotificationPages

(* The first two notifications are of one transaction: an overdue job that *)
(* found two bookings of the user.  The third may be committed before them.*)
TwoTogether == [n \in Notes |-> IF n = 3 THEN 2 ELSE 1]
=============================================================================
