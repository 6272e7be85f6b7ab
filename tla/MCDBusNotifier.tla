--------------------------- MODULE MCDBusNotifier ---------------------------
(* Instances of DBusNotifier for TLC. *)
EXTENDS DBusNotifier

CONSTANTS id1, id2
=============================================================================
