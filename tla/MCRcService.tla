---------------------------- MODULE MCRcService -----------------------------
(* Instances of RcService for TLC: one session per shed. *)
EXTENDS RcService

CONSTANTS shed1, shed2, sess1, sess2, refresh1, refresh2

HomeOf == [x \in Sessions |-> IF x = sess1 THEN shed1 ELSE shed2]
=============================================================================
