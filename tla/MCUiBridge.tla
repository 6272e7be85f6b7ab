----------------------------- MODULE MCUiBridge -----------------------------
(* Instances of UiBridge for TLC. *)
EXTENDS UiBridge

CONSTANTS h1, h2, c1, c2
=============================================================================
