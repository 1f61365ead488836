-------------------------- MODULE MCNotifications --------------------------
(* An instance of Notifications for TLC: every event is for every user, one *)
(* of them by two entries.                                                  *)
EXTENDS NotificationsInv

Addressed ==
  LET first == CHOOSE e \in Events : TRUE
  IN  [e \in Events |-> [u \in Users |-> IF e = first THEN 2 ELSE 1]]
=============================================================================
