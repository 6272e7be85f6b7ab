--------------------------- MODULE MCControlToken ---------------------------
(* Instances of ControlToken for TLC. *)
EXTENDS ControlToken

CONSTANTS get1, get2, create1
=============================================================================
