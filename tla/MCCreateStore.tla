--------------------------- MODULE MCCreateStore ----------------------------
(* Instances of CreateStore for TLC. *)
EXTENDS CreateStore

CONSTANTS shedA, shedB
=============================================================================
