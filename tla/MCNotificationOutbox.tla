------------------------ MODULE MCNotificationOutbox ------------------------
(***************************************************************************)
(* Values for the constants of NotificationOutbox.                          *)
(***************************************************************************)
EXTENDS NotificationOutbox, TLC

SchedulersAlike == Permutations(Schedulers)
=============================================================================
