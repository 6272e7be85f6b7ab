--------------------------- MODULE MCAppInstance ----------------------------
(* Instances of AppInstance for TLC. *)
EXTENDS AppInstance

CONSTANTS first, second, ctl, script
=============================================================================
