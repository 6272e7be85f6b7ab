----------------------------- MODULE AuditStore -----------------------------
(***************************************************************************)
(* The audit log (core/shed-app/src/audit_store.rs): a file that lines are *)
(* appended to, best effort, and a bounded tail in memory that feeds the   *)
(* Activity view.  An entry is its number.  A write may fail before or     *)
(* after part of the line has reached the file, and the process may stop   *)
(* in between; a line cut short has no newline, so that the next one       *)
(* continues it.                                                           *)
(***************************************************************************)
EXTENDS Naturals, Sequences, SequencesExt

CONSTANTS
  TailLimit,   \* tail_limit
  MaxEntries   \* bound on the entries that are recorded

VARIABLES
  file,        \* what was written: entries, and whether with their newline
  tail,
  recorded,    \* history: how many entries were recorded
  since,       \* history: how many of them before this start
  lost         \* history: entries whose write failed

(* with_tail_limit: the tail starts empty whatever the file holds. *)
Init ==
  /\ file = << >>
  /\ tail = << >>
  /\ recorded = 0
  /\ since = 0
  /\ lost = {}

(* append_to_file: all of the line, a part of it, or nothing. *)
append_to_file(e) ==
  \/ file' = Append(file, [entry |-> e, whole |-> TRUE]) /\ UNCHANGED lost
  \/ file' = Append(file, [entry |-> e, whole |-> FALSE]) /\ lost' = lost \cup {e}
  \/ file' = file /\ lost' = lost \cup {e}

(* Mutant of Bounded: the limit is checked before the entry is added. *)
Bounded_Late(entries) ==
  IF Len(entries) > TailLimit + 1 THEN Tail(entries) ELSE entries

Bounded(entries) ==
  IF Len(entries) > TailLimit THEN Tail(entries) ELSE entries

(* append: the file first, then the tail whatever became of the file. *)
append ==
  /\ recorded < MaxEntries
  /\ append_to_file(recorded + 1)
  /\ tail' = Bounded(Append(tail, recorded + 1))
  /\ recorded' = recorded + 1
  /\ UNCHANGED since

(* The process stops, perhaps with a part of a line written, and starts.   *)
(* An entry it stopped in was recorded by nobody.                          *)
Restarts ==
  /\ file' \in {file} \cup (IF recorded < MaxEntries
                             THEN {Append(file, [entry |-> recorded + 1, whole |-> FALSE])} ELSE {})
  /\ recorded' = recorded + (Len(file') - Len(file))
  /\ lost' = IF file' = file THEN lost ELSE lost \cup {recorded + 1}
  /\ since' = recorded'
  /\ tail' = << >>

(* recent: the newest first, at most limit of them. *)
recent(limit) == SubSeq(Reverse(tail), 1, IF Len(tail) < limit THEN Len(tail) ELSE limit)
-----------------------------------------------------------------------------
(* A reader of the file gets an entry from its line if nothing else is on  *)
(* the line.                                                               *)
Legible(e) ==
  \E i \in DOMAIN file : /\ file[i] = [entry |-> e, whole |-> TRUE]
                         /\ i > 1 => file[i - 1].whole

(* The Activity view shows the last decisions since the start, newest      *)
(* first and without a gap, whether or not they could be written.  The     *)
(* file keeps the order of the decisions, and a failed write costs at most *)
(* its own entry and the next one.                                         *)
AuditTrail ==
  /\ \A limit \in 0..TailLimit + 1 :
       LET shown == recent(limit)
           known == recorded - since
       IN  /\ Len(shown) = CHOOSE n \in 0..limit : /\ n <= known /\ n <= TailLimit
                                                   /\ n \in {limit, known, TailLimit}
           /\ \A i \in DOMAIN shown : shown[i] = recorded + 1 - i
  /\ \A i, j \in DOMAIN file : i < j => file[i].entry < file[j].entry
  /\ \A e \in 1..recorded : Legible(e) \/ {e, e - 1} \cap lost # {}
=============================================================================
