--------------------------- MODULE MCNotifications ---------------------------
(* Notifications on two e-mail notes and one in-app note: the worker is    *)
(* busy with one e-mail while the other waits, stalls or is being added.   *)
EXTENDS Notifications, TLC

MCInAppNotes == {"a1"}
MCEmailNotes == {"e1", "e2"}
==============================================================================
