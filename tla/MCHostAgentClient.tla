------------------------- MODULE MCHostAgentClient --------------------------
(* Instances of HostAgentClient for TLC. *)
EXTENDS HostAgentClient

CONSTANTS call1
=============================================================================
