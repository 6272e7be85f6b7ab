------------------------------ MODULE AppData -------------------------------
(***************************************************************************)
(* What the application keeps on disk, together: the preferences and the   *)
(* audit log.  They share the process, which stops for both at once.       *)
(***************************************************************************)
EXTENDS PrefsStore

CONSTANTS TailLimit, MaxEntries

ASSUME AppDataAssumption == TailLimit \in Nat

VARIABLES file, tail, recorded, since, lost

auditVars == <<file, tail, recorded, since, lost>>

Audit == INSTANCE AuditStore

AppDataInit == Init /\ Audit!Init

AppDataNext ==
  \/ Works /\ UNCHANGED auditVars
  \/ Audit!append /\ UNCHANGED vars
  \/ Restarts /\ Audit!Restarts

AppDataSpec == AppDataInit /\ [][AppDataNext]_<<vars, auditVars>>

(* The log of the application, see AuditTrail. *)
AuditTrail == Audit!AuditTrail
=============================================================================
