---------------------------- MODULE Stores_proofs ----------------------------
(***************************************************************************)
(* Proofs about the stores of the application: the preferences and the     *)
(* audit log that AppData keeps on disk, for any number of clients, values *)
(* and restarts and any length of the log, and the creations in memory     *)
(* (CreateStore), for any number of them and any stream of events.         *)
(***************************************************************************)
EXTENDS AppData, CreateStore, TLAPS

(* One client writes at a time; and whatever a client, PrefsStore or the   *)
(* file holds was read from the coordinator as a whole.                    *)
PrefsInv ==
  /\ TypeOK
  /\ \A c, d \in lock : c = d
  /\ Default \in past /\ held \in past
  /\ \A c \in Clients : client[c].pc = "read" => client[c].got \in past
  /\ \A p \in disk \cup {inner} : p.ssh \subseteq past
  /\ lock = {} /\ ~behind => load(disk) = inner

ClientRec == [pc: {"idle", "applied", "read", "saving"}, got: SshPrefs]

(* What a restart makes of SSH preferences that were stored. *)
Rehydrated(q, stored) ==
  \A f \in Fields : \/ q[f] = stored[f]
                    \/ f = "ttl" /\ stored[f] = "" /\ q[f] = Default[f]

(* An empty time-to-live is read as the default one, the rest as it is. *)
LEMMA StoredRead ==
  ASSUME NEW p \in Prefs, NEW q \in SshPrefs, p.ssh = {q}
  PROVE  ssh_prefs_from_store(p) \in SshPrefs /\ Rehydrated(ssh_prefs_from_store(p), q)
<1>1. ssh_prefs_from_store(p) = IF q["ttl"] = "" THEN [q EXCEPT !["ttl"] = Default["ttl"]] ELSE q
  BY DEF ssh_prefs_from_store
<1>2. CASE q["ttl"] = ""
  <2> DEFINE r == [q EXCEPT !["ttl"] = Default["ttl"]]
  <2>1. q \in [Fields -> UNION {Values[f] : f \in Fields}] /\ Default["ttl"] \in Values["ttl"]
    BY PrefsAssumption DEF SshPrefs, Fields
  <2>2. /\ r \in [Fields -> UNION {Values[f] : f \in Fields}]
        /\ \A f \in Fields : r[f] = IF f = "ttl" THEN Default["ttl"] ELSE q[f]
    BY <2>1 DEF Fields
  <2> HIDE DEF r
  <2>3. r \in SshPrefs
    BY <2>1, <2>2 DEF SshPrefs
  <2>4. Rehydrated(r, q)
    BY <1>2, <2>2 DEF Rehydrated
  <2>5. QED BY <1>1, <1>2, <2>3, <2>4 DEF r
<1>3. CASE q["ttl"] # ""
  BY <1>1, <1>3 DEF Rehydrated
<1>4. QED BY <1>2, <1>3

(* What PrefsStore has never been given is the default. *)
LEMMA StoredPrefs ==
  /\ NoPrefs \in Prefs /\ NoPrefs.ssh = {}
  /\ \A p \in Prefs : p.ssh = {} => ssh_prefs_from_store(p) = Default
  /\ \A p \in Prefs, q \in SshPrefs : /\ [p EXCEPT !.ssh = {q}] \in Prefs
                                      /\ [p EXCEPT !.ssh = {q}].ssh = {q}
  /\ \A p \in Prefs, v \in Terminals : /\ [p EXCEPT !.terminal = v] \in Prefs
                                       /\ [p EXCEPT !.terminal = v].ssh = p.ssh
  /\ load({}) = NoPrefs
  /\ \A p : load({p}) = p
  /\ \A f : f # {} => load(f) \in f
<1>1. NoPrefs \in Prefs /\ NoPrefs.ssh = {}
  BY PrefsAssumption DEF NoPrefs, Prefs
<1>2. \A p \in Prefs : p.ssh = {} => ssh_prefs_from_store(p) = Default
  BY DEF ssh_prefs_from_store
<1>3. ASSUME NEW p \in Prefs, NEW q \in SshPrefs
      PROVE  [p EXCEPT !.ssh = {q}] \in Prefs /\ [p EXCEPT !.ssh = {q}].ssh = {q}
  BY DEF Prefs
<1>4. ASSUME NEW p \in Prefs, NEW v \in Terminals
      PROVE  [p EXCEPT !.terminal = v] \in Prefs /\ [p EXCEPT !.terminal = v].ssh = p.ssh
  BY DEF Prefs
<1>5. load({}) = NoPrefs /\ (\A p : load({p}) = p) /\ (\A f : f # {} => load(f) \in f)
  BY DEF load
<1>6. QED BY <1>1, <1>2, <1>3, <1>4, <1>5

(* What a restart finds is what was held once, up to the empty *)
(* time-to-live, and is a whole again.                         *)
LEMMA RestoredHeld ==
  ASSUME NEW p \in Prefs, NEW known, p.ssh \subseteq known, Default \in known
  PROVE  /\ ssh_prefs_from_store(p) \in SshPrefs
         /\ \E q \in known : Rehydrated(ssh_prefs_from_store(p), q)
<1>1. CASE p.ssh = {}
  BY <1>1, StoredPrefs, PrefsAssumption DEF Rehydrated
<1>2. CASE p.ssh # {}
  <2>1. PICK q \in SshPrefs : p.ssh = {q}
    BY <1>2 DEF Prefs
  <2>2. q \in known
    BY <2>1
  <2>3. QED BY <2>1, <2>2, StoredRead
<1>3. QED BY <1>1, <1>2

(* What the coordinator holds after a partial update is a whole. *)
LEMMA UpdateType ==
  ASSUME NEW fields, NEW p \in SshPrefs, held \in SshPrefs
  PROVE  [f \in Fields |-> IF f \in fields THEN p[f] ELSE held[f]] \in SshPrefs
  BY DEF SshPrefs

(* A save begins or fails with the copy that was just set. *)
LEMMA SetsKeeps ==
  ASSUME PrefsInv, NEW c \in Clients, Sets(c)
  PROVE  PrefsInv'
<1>1. /\ held \in SshPrefs /\ inner \in Prefs /\ disk \subseteq Prefs
      /\ client \in [Clients -> ClientRec] /\ lock = {d \in Clients : client[d].pc = "saving"}
  BY DEF PrefsInv, TypeOK, ClientRec
<1>2. inner' \in Prefs /\ inner'.ssh \subseteq past
  <2>1. CASE set_ssh(c)
    <3>1. client[c].got \in SshPrefs /\ client[c].got \in past
      BY <1>1, <2>1 DEF set_ssh, PrefsInv, ClientRec
    <3>2. QED BY <1>1, <2>1, <3>1, StoredPrefs DEF set_ssh
  <2>2. CASE set_terminal(c)
    BY <1>1, <2>2, StoredPrefs DEF set_terminal, PrefsInv
  <2>3. QED BY <2>1, <2>2 DEF Sets
<1>3. Idle \in ClientRec /\ Idle.pc = "idle"
  BY PrefsAssumption DEF Idle, ClientRec
<1>4. [Idle EXCEPT !.pc = "saving"] \in ClientRec /\ [Idle EXCEPT !.pc = "saving"].pc = "saving"
  BY <1>3 DEF ClientRec
<1>5. CASE SaveBegins(c)
  <2>1. /\ client' \in [Clients -> ClientRec] /\ lock' = {d \in Clients : client'[d].pc = "saving"}
        /\ \A d \in Clients : client'[d].pc = "read" => client'[d] = client[d]
    BY <1>1, <1>4, <1>5 DEF SaveBegins
  <2>2. QED
    BY <1>1, <1>2, <1>5, <2>1 DEF SaveBegins, Sets, PrefsInv, TypeOK, ClientRec
<1>6. CASE SaveFails(c)
  <2>1. /\ client' \in [Clients -> ClientRec] /\ lock' = {d \in Clients : client'[d].pc = "saving"}
        /\ \A d \in Clients : client'[d].pc = "read" => client'[d] = client[d]
    BY <1>1, <1>3, <1>6 DEF SaveFails
  <2>2. QED
    BY <1>1, <1>2, <1>6, <2>1 DEF SaveFails, Sets, PrefsInv, TypeOK, ClientRec
<1>7. QED BY <1>5, <1>6 DEF Sets

(* Every step of the process, and every restart, keeps the invariant. *)
LEMMA StepPrefs ==
  ASSUME PrefsInv, Next \/ UNCHANGED vars
  PROVE  PrefsInv'
<1>1. /\ held \in SshPrefs /\ inner \in Prefs /\ disk \subseteq Prefs
      /\ client \in [Clients -> ClientRec] /\ lock = {d \in Clients : client[d].pc = "saving"}
  BY DEF PrefsInv, TypeOK, ClientRec
<1>2. Idle \in ClientRec /\ Idle.pc = "idle"
  BY PrefsAssumption DEF Idle, ClientRec
<1>3. ASSUME NEW c \in Clients, NEW fields, NEW p \in SshPrefs, set_ssh_approval(c, fields, p)
      PROVE  PrefsInv'
  <2>1. held' \in SshPrefs
    BY <1>1, <1>3, UpdateType DEF set_ssh_approval
  <2>2. [client[c] EXCEPT !.pc = "applied"] \in ClientRec
        /\ [client[c] EXCEPT !.pc = "applied"].pc = "applied"
    BY <1>1 DEF ClientRec
  <2>3. /\ client' \in [Clients -> ClientRec] /\ lock' = {d \in Clients : client'[d].pc = "saving"}
        /\ \A d \in Clients : client'[d].pc = "read" => client'[d] = client[d]
    BY <1>1, <1>3, <2>2 DEF set_ssh_approval
  <2>4. past' = past \cup {held'} /\ UNCHANGED <<inner, disk, lock, behind>>
    BY <1>3 DEF set_ssh_approval
  <2>5. QED BY <1>1, <2>1, <2>3, <2>4 DEF PrefsInv, TypeOK, ClientRec
<1>4. ASSUME NEW c \in Clients, ReadsBack(c) PROVE PrefsInv'
  <2>1. [pc |-> "read", got |-> held] \in ClientRec
    BY <1>1 DEF ClientRec
  <2>2. /\ client' \in [Clients -> ClientRec] /\ lock' = {d \in Clients : client'[d].pc = "saving"}
        /\ \A d \in Clients : client'[d].pc = "read" => client'[d] = client[d] \/ client'[d].got = held
    BY <1>1, <1>4, <2>1 DEF ReadsBack
  <2>3. QED BY <1>1, <1>4, <2>2 DEF ReadsBack, PrefsInv, TypeOK, ClientRec
<1>5. ASSUME NEW c \in Clients, Saved(c) PROVE PrefsInv'
  <2>1. c \in lock /\ lock = {c}
    BY <1>1, <1>5 DEF Saved, PrefsInv
  <2>2. /\ client' \in [Clients -> ClientRec] /\ lock' = {d \in Clients : client'[d].pc = "saving"}
        /\ \A d \in Clients : client'[d].pc = "read" => client'[d] = client[d]
    BY <1>1, <1>2, <1>5, <2>1 DEF Saved
  <2>3. disk' = {inner} /\ load(disk') = inner'
    BY <1>5, StoredPrefs DEF Saved
  <2>4. QED BY <1>1, <1>5, <2>2, <2>3 DEF Saved, PrefsInv, TypeOK, ClientRec
<1>6. ASSUME NEW c \in Clients, SaveBreaks(c) PROVE PrefsInv'
  <2>1. /\ client' \in [Clients -> ClientRec] /\ lock' = {d \in Clients : client'[d].pc = "saving"}
        /\ \A d \in Clients : client'[d].pc = "read" => client'[d] = client[d]
    <3>1. c \in lock /\ lock = {c}
      BY <1>1, <1>6 DEF SaveBreaks, PrefsInv
    <3>2. QED BY <1>1, <1>2, <1>6, <3>1 DEF SaveBreaks
  <2>2. QED BY <1>1, <1>6, <2>1 DEF SaveBreaks, PrefsInv, TypeOK, ClientRec
<1>7. CASE Restarts
  <2>1. inner' = NoPrefs \/ inner' \in disk
    BY <1>7, StoredPrefs DEF Restarts
  <2>2. inner' \in Prefs /\ inner'.ssh \subseteq past
    BY <1>1, <2>1, StoredPrefs DEF PrefsInv
  <2>3. held' = ssh_prefs_from_store(inner') /\ past' = past \cup {held'} /\ behind' = FALSE
    BY <1>7 DEF Restarts
  <2>4. Default \in past /\ (\A p \in disk : p.ssh \subseteq past)
    BY DEF PrefsInv
  <2>5. held' \in SshPrefs
    <3> DEFINE p == inner'
    <3>1. p \in Prefs /\ p.ssh \subseteq past /\ Default \in past
      BY <2>2, <2>4
    <3> HIDE DEF p
    <3>2. ssh_prefs_from_store(p) \in SshPrefs
      BY <3>1, RestoredHeld
    <3>3. ssh_prefs_from_store(inner') \in SshPrefs
      BY <3>2 DEF p
    <3>4. QED BY <2>3, <3>3
  <2>6. client' \in [Clients -> ClientRec] /\ \A d \in Clients : client'[d].pc = "idle"
    BY <1>2, <1>7 DEF Restarts
  <2>7. lock' = {d \in Clients : client'[d].pc = "saving"}
    BY <1>7, <2>6 DEF Restarts
  <2>8. load(disk') = inner' /\ disk' = disk /\ lock' = {}
    BY <1>7 DEF Restarts
  <2>9. QED BY <1>1, <2>2, <2>3, <2>4, <2>5, <2>6, <2>7, <2>8 DEF PrefsInv, TypeOK, ClientRec
<1>8. CASE UNCHANGED vars
  BY <1>8 DEF vars, PrefsInv, TypeOK, load
<1>9. QED BY <1>3, <1>4, <1>5, <1>6, <1>7, <1>8, SetsKeeps DEF Next, Works

(* prefs.json gives the coordinator, after any restart, preferences that   *)
(* it once held as a whole, but for an empty time-to-live, which is read   *)
(* as the default, whatever commands overlapped and whatever writes        *)
(* failed; and no command that was written through takes back what         *)
(* another one set.                                                        *)
THEOREM FileSnapshot == AppDataSpec => []FileIsASnapshot
<1>1. AppDataInit => PrefsInv
  <2>1. SUFFICES ASSUME Init PROVE PrefsInv
    BY DEF AppDataInit
  <2>2. Idle \in ClientRec /\ Idle.pc = "idle"
    BY PrefsAssumption DEF Idle, ClientRec
  <2>3. client \in [Clients -> ClientRec] /\ \A d \in Clients : client[d].pc = "idle"
    BY <2>1, <2>2 DEF Init
  <2>4. lock = {d \in Clients : client[d].pc = "saving"}
    BY <2>1, <2>3 DEF Init
  <2>5. QED BY <2>1, <2>3, <2>4, StoredPrefs, PrefsAssumption DEF Init, PrefsInv, TypeOK, ClientRec
<1>2. PrefsInv /\ [AppDataNext]_<<vars, auditVars>> => PrefsInv'
  BY StepPrefs DEF AppDataNext, Next, vars
<1>3. PrefsInv => FileIsASnapshot
  <2> SUFFICES ASSUME PrefsInv PROVE FileIsASnapshot
    OBVIOUS
  <2> DEFINE p == load(disk)
  <2>1. p \in Prefs /\ p.ssh \subseteq past /\ Default \in past
    <3>1. disk \subseteq Prefs /\ Default \in past
      BY DEF PrefsInv, TypeOK
    <3>2. p = NoPrefs \/ p \in disk
      BY StoredPrefs
    <3>3. QED BY <3>1, <3>2, StoredPrefs DEF PrefsInv
  <2>2. PICK q \in past : Rehydrated(ssh_prefs_from_store(p), q)
    <3> HIDE DEF p
    <3>1. QED BY <2>1, RestoredHeld
  <2>3. QED BY <2>2 DEF PrefsInv, FileIsASnapshot, Rehydrated
<1>4. QED BY <1>1, <1>2, <1>3, PTL DEF AppDataSpec
-----------------------------------------------------------------------------
Line == [entry: Nat, whole: BOOLEAN]

(* The tail is the last entries since the start, as many as fit. *)
TailInv ==
  /\ recorded \in Nat /\ since \in Nat /\ since <= recorded
  /\ tail \in Seq(Nat)
  /\ Len(tail) <= TailLimit /\ Len(tail) <= recorded - since
  /\ Len(tail) = TailLimit \/ Len(tail) = recorded - since
  /\ \A i \in DOMAIN tail : tail[i] = recorded - Len(tail) + i

(* The file is in the order of the entries.  After a line that was cut     *)
(* short nothing was written whole, so that the last entry is lost.        *)
FileInv ==
  /\ recorded \in Nat /\ file \in Seq(Line)
  /\ \A i \in DOMAIN file : file[i].entry <= recorded
  /\ \A i, j \in DOMAIN file : i < j => file[i].entry < file[j].entry
  /\ file # << >> /\ ~file[Len(file)].whole => recorded \in lost
  /\ \A e \in 1..recorded : Audit!Legible(e) \/ {e, e - 1} \cap lost # {}

(* An entry enters the tail at its end, and the oldest one leaves. *)
LEMMA AppendTail ==
  ASSUME TailInv, Audit!append
  PROVE  TailInv'
<1> DEFINE longer == Append(tail, recorded + 1)
           n == Len(tail)
<1>1. /\ recorded \in Nat /\ since \in Nat /\ since <= recorded /\ tail \in Seq(Nat)
      /\ n \in Nat /\ TailLimit \in Nat
      /\ n <= TailLimit /\ n <= recorded - since /\ (n = TailLimit \/ n = recorded - since)
      /\ \A i \in 1..n : tail[i] = recorded - n + i
  BY AppDataAssumption DEF TailInv
<1>2. /\ recorded' = recorded + 1 /\ since' = since
      /\ tail' = IF Len(longer) > TailLimit THEN Tail(longer) ELSE longer
  BY DEF Audit!append, Audit!Bounded
<1>3. /\ longer \in Seq(Nat) /\ Len(longer) = n + 1
      /\ \A i \in 1..(n + 1) : longer[i] = (recorded + 1) - (n + 1) + i
  BY <1>1
<1> HIDE DEF longer, n
<1>4. CASE n + 1 > TailLimit
  <2>1. /\ tail' = Tail(longer) /\ longer # << >>
        /\ Tail(longer) \in Seq(Nat) /\ Len(Tail(longer)) = n
    BY <1>1, <1>2, <1>3, <1>4
  <2>2. \A i \in 1..n : Tail(longer)[i] = longer[i + 1]
    BY <1>1, <1>3, <2>1
  <2>3. \A i \in 1..n : tail'[i] = recorded' - n + i
    BY <1>1, <1>2, <1>3, <2>1, <2>2
  <2>4. DOMAIN tail' = 1..n /\ Len(tail') = n /\ tail' \in Seq(Nat)
    BY <2>1
  <2>5. /\ recorded' \in Nat /\ since' \in Nat /\ since' <= recorded'
        /\ n <= TailLimit /\ n <= recorded' - since' /\ n = TailLimit
    BY <1>1, <1>2, <1>4
  <2>6. QED BY <2>3, <2>4, <2>5 DEF TailInv
<1>5. CASE n + 1 <= TailLimit
  <2>1. tail' = longer /\ DOMAIN tail' = 1..(n + 1) /\ Len(tail') = n + 1 /\ tail' \in Seq(Nat)
    BY <1>1, <1>2, <1>3, <1>5
  <2>2. /\ recorded' \in Nat /\ since' \in Nat /\ since' <= recorded'
        /\ Len(tail') <= TailLimit /\ Len(tail') <= recorded' - since'
        /\ Len(tail') = recorded' - since'
    BY <1>1, <1>2, <1>5, <2>1
  <2>3. \A i \in DOMAIN tail' : tail'[i] = recorded' - Len(tail') + i
    BY <1>2, <1>3, <2>1
  <2>4. QED BY <2>1, <2>2, <2>3 DEF TailInv
<1>6. QED BY <1>1, <1>4, <1>5

(* A line whose entry is the next one may follow, whole or cut short. *)
LEMMA AppendLine ==
  ASSUME FileInv, NEW w \in BOOLEAN,
         file' = Append(file, [entry |-> recorded + 1, whole |-> w]),
         recorded' = recorded + 1,
         lost' = IF w THEN lost ELSE lost \cup {recorded + 1}
  PROVE  FileInv'
<1> DEFINE line == [entry |-> recorded + 1, whole |-> w]
           n == Len(file)
<1>1. /\ recorded \in Nat /\ file \in Seq(Line) /\ n \in Nat /\ DOMAIN file = 1..n
      /\ line \in Line /\ line.entry = recorded + 1 /\ line.whole = w
  BY DEF FileInv, Line
<1>2. line = [entry |-> recorded + 1, whole |-> w] /\ file' = Append(file, line)
  OBVIOUS
<1> HIDE DEF line
<1>3. /\ file' \in Seq(Line) /\ Len(file') = n + 1 /\ DOMAIN file' = 1..(n + 1)
      /\ \A i \in 1..n : file'[i] = file[i]
      /\ file'[n + 1] = line
  BY <1>1, <1>2
<1> HIDE DEF n
<1>4. \A i \in 1..n : file[i].entry \in Nat /\ file[i].entry <= recorded
  <2>1. \A i \in 1..n : file[i] \in Line
    BY <1>1
  <2>2. QED BY <1>1, <2>1 DEF FileInv, Line
<1>5. \A i \in DOMAIN file' : file'[i].entry <= recorded'
  BY <1>1, <1>3, <1>4
<1>6. \A i, j \in DOMAIN file' : i < j => file'[i].entry < file'[j].entry
  BY <1>1, <1>3, <1>4 DEF FileInv
<1>7. file' # << >> /\ ~file'[Len(file')].whole => recorded' \in lost'
  BY <1>1, <1>3
<1>8. ASSUME NEW e \in 1..recorded' PROVE Audit!Legible(e)' \/ {e, e - 1} \cap lost' # {}
  <2>1. CASE e \in 1..recorded
    <3>1. CASE Audit!Legible(e)
      <4>1. PICK i \in DOMAIN file : /\ file[i] = [entry |-> e, whole |-> TRUE]
                                     /\ i > 1 => file[i - 1].whole
        BY <3>1 DEF Audit!Legible
      <4>2. i \in 1..n /\ i \in 1..(n + 1) /\ (i > 1 => i - 1 \in 1..n)
        BY <1>1
      <4>3. i \in DOMAIN file' /\ file'[i] = file[i] /\ (i > 1 => file'[i - 1] = file[i - 1])
        BY <1>3, <4>2
      <4>4. QED BY <4>1, <4>3 DEF Audit!Legible
    <3>2. QED BY <2>1, <3>1 DEF FileInv
  <2>2. CASE e = recorded + 1 /\ w
    <3>1. CASE n = 0 \/ file[n].whole
      <4>1. /\ n + 1 \in DOMAIN file' /\ file'[n + 1] = [entry |-> e, whole |-> TRUE]
            /\ n + 1 > 1 => file'[(n + 1) - 1].whole
        BY <1>1, <1>2, <1>3, <2>2, <3>1
      <4>2. QED BY <4>1 DEF Audit!Legible
    <3>2. CASE n # 0 /\ ~file[n].whole
      <4>1. recorded \in lost
        BY <1>1, <3>2 DEF FileInv, n
      <4>2. QED BY <1>1, <2>2, <4>1
    <3>3. QED BY <3>1, <3>2
  <2>3. CASE e = recorded + 1 /\ ~w
    BY <2>3
  <2>4. QED BY <1>1, <2>1, <2>2, <2>3
<1>9. QED BY <1>1, <1>3, <1>5, <1>6, <1>7, <1>8 DEF FileInv

(* A write that leaves nothing behind costs its own entry. *)
LEMMA SkipLine ==
  ASSUME FileInv, file' = file, recorded' = recorded + 1, lost' = lost \cup {recorded + 1}
  PROVE  FileInv'
<1>1. recorded \in Nat
  BY DEF FileInv
<1>2. \A i \in DOMAIN file : file[i].entry \in Nat
  <2>1. \A i \in DOMAIN file : file[i] \in Line
    BY DEF FileInv
  <2>2. QED BY <2>1 DEF Line
<1>3. \A e : Audit!Legible(e)' <=> Audit!Legible(e)
  BY DEF Audit!Legible
<1>4. \A e \in 1..recorded' : Audit!Legible(e)' \/ {e, e - 1} \cap lost' # {}
  <2>1. ASSUME NEW e \in 1..recorded PROVE Audit!Legible(e)' \/ {e, e - 1} \cap lost' # {}
    BY <1>3 DEF FileInv
  <2>2. ASSUME NEW e, e = recorded + 1 PROVE {e, e - 1} \cap lost' # {}
    BY <2>2
  <2>3. \A e \in 1..recorded' : e \in 1..recorded \/ e = recorded + 1
    BY <1>1
  <2>4. QED BY <2>1, <2>2, <2>3
<1>5. QED BY <1>1, <1>2, <1>4 DEF FileInv

(* Appends and restarts keep tail and file. *)
LEMMA StepAudit ==
  ASSUME TailInv, FileInv, [AppDataNext]_<<vars, auditVars>>
  PROVE  TailInv' /\ FileInv'
<1>1. CASE Audit!append
  <2>1. FileInv'
    BY <1>1, AppendLine, SkipLine DEF Audit!append, Audit!append_to_file
  <2>2. QED BY <1>1, <2>1, AppendTail
<1>2. CASE Audit!Restarts
  <2>1. recorded \in Nat /\ file \in Seq(Line) /\ Len(file) \in Nat
    BY DEF FileInv
  <2>2. CASE file' = file
    <3>1. recorded' = recorded /\ lost' = lost
      BY <1>2, <2>1, <2>2 DEF Audit!Restarts
    <3>2. \A e : Audit!Legible(e)' <=> Audit!Legible(e)
      BY <2>2 DEF Audit!Legible
    <3>3. FileInv'
      BY <2>2, <3>1, <3>2 DEF FileInv
    <3>4. TailInv'
      BY <1>2, <2>1, <3>1, AppDataAssumption DEF Audit!Restarts, TailInv
    <3>5. QED BY <3>3, <3>4
  <2>3. CASE file' = Append(file, [entry |-> recorded + 1, whole |-> FALSE])
    <3> DEFINE line == [entry |-> recorded + 1, whole |-> FALSE]
    <3>1. line \in Line
      BY <2>1 DEF Line
    <3>2. Len(file') = Len(file) + 1 /\ file' # file
      BY <2>1, <2>3, <3>1
    <3>3. recorded' = recorded + 1 /\ lost' = lost \cup {recorded + 1}
      BY <1>2, <2>1, <3>2 DEF Audit!Restarts
    <3>4. FileInv'
      BY <2>3, <3>3, AppendLine
    <3>5. TailInv'
      BY <1>2, <2>1, <3>3, AppDataAssumption DEF Audit!Restarts, TailInv
    <3>6. QED BY <3>4, <3>5
  <2>4. QED BY <1>2, <2>2, <2>3 DEF Audit!Restarts
<1>3. CASE UNCHANGED auditVars
  <2>1. UNCHANGED <<file, tail, recorded, since, lost>>
    BY <1>3 DEF auditVars
  <2>2. \A e : Audit!Legible(e)' <=> Audit!Legible(e)
    BY <2>1 DEF Audit!Legible
  <2>3. QED BY <2>1, <2>2 DEF TailInv, FileInv
<1>4. QED BY <1>1, <1>2, <1>3 DEF AppDataNext

(* What the view asks for is there, newest first, and no more. *)
LEMMA RecentIsLatest ==
  ASSUME TailInv, NEW limit \in 0..TailLimit + 1
  PROVE  LET shown == Audit!recent(limit)
             known == recorded - since
         IN  /\ Len(shown) = CHOOSE n \in 0..limit : /\ n <= known /\ n <= TailLimit
                                                     /\ n \in {limit, known, TailLimit}
             /\ \A i \in DOMAIN shown : shown[i] = recorded + 1 - i
<1> DEFINE k == Len(tail)
           known == recorded - since
           m == IF k < limit THEN k ELSE limit
           turned == [i \in 1..k |-> tail[(k - i) + 1]]
           Fits(n) == n <= known /\ n <= TailLimit /\ n \in {limit, known, TailLimit}
<1>1. /\ recorded \in Nat /\ since \in Nat /\ known \in Nat /\ tail \in Seq(Nat) /\ k \in Nat
      /\ TailLimit \in Nat /\ limit \in Nat /\ limit <= TailLimit + 1
      /\ k <= TailLimit /\ k <= known /\ (k = TailLimit \/ k = known)
      /\ \A i \in 1..k : tail[i] = recorded - k + i
  BY AppDataAssumption DEF TailInv
<1>2. Audit!recent(limit) = SubSeq(turned, 1, m)
  BY DEF Audit!recent, Audit!Reverse
<1>3. turned \in [1..k -> Nat]
  <2>1. \A i \in 1..k : (k - i) + 1 \in 1..k
    BY <1>1
  <2>2. QED BY <1>1, <2>1, SMTT(60)
<1>4. turned \in Seq(Nat) /\ Len(turned) = k
  BY <1>1, <1>3, SMTT(60)
<1>5. \A i \in 1..k : turned[i] = recorded + 1 - i
  BY <1>1
<1>6. m \in 0..limit /\ m <= k /\ m \in Nat
  BY <1>1
<1> HIDE DEF turned, k
<1>7. /\ Len(SubSeq(turned, 1, m)) = m /\ DOMAIN SubSeq(turned, 1, m) = 1..m
      /\ \A i \in 1..m : SubSeq(turned, 1, m)[i] = turned[i]
  BY <1>1, <1>4, <1>6
<1>8. Fits(m)
  BY <1>1, <1>6
<1>9. \A n \in 0..limit : Fits(n) => n = m
  BY <1>1, <1>6
<1>10. m = CHOOSE n \in 0..limit : Fits(n)
  <2> HIDE DEF Fits, m
  <2>1. QED BY <1>6, <1>8, <1>9
<1>11. \A i \in 1..m : SubSeq(turned, 1, m)[i] = recorded + 1 - i
  BY <1>1, <1>5, <1>6, <1>7
<1>12. QED BY <1>2, <1>7, <1>10, <1>11 DEF k

(* The Activity view and the log keep their promise through failed and     *)
(* partial writes and through restarts, with any tail limit and for any    *)
(* number of decisions.                                                    *)
THEOREM TrailKept == AppDataSpec => []AuditTrail
<1>1. AppDataInit => TailInv /\ FileInv
  BY AppDataAssumption DEF AppDataInit, Audit!Init, TailInv, FileInv
<1>2. TailInv /\ FileInv => AuditTrail
  BY RecentIsLatest DEF AuditTrail, Audit!AuditTrail, FileInv
<1>3. QED BY <1>1, <1>2, StepAudit, PTL DEF AppDataSpec
-----------------------------------------------------------------------------
(* One creation: what its record says is true, a task that was aborted or  *)
(* not started has no record, one without a record was aborted, a parked   *)
(* one was not, and a complete event leaves the record final.              *)
CreationSane(i) ==
  /\ \A p \in store[i] :
       /\ task[i].pc = "done" \/ task[i].saw_complete => p.state # "progress"
       /\ p.state = "complete" => p.shed /\ i \in good
       /\ p.state = "error" => p.error
  /\ task[i].pc = "none" => store[i] = {} /\ ~task[i].saw_complete /\ ~task[i].aborted
  /\ task[i].aborted => store[i] = {}
  /\ store[i] = {} /\ task[i].pc # "none" => task[i].aborted
  /\ task[i].parked => ~task[i].aborted /\ task[i].pc \in Awaiting

CreateInv == CreateTypeOK /\ \A i \in Creates : CreationSane(i)

(* Another creation is not touched. *)
LEMMA OthersSane ==
  ASSUME CreateInv, NEW j \in Creates,
         store'[j] = store[j], task'[j] = task[j], good \subseteq good'
  PROVE  CreationSane(j)'
  BY DEF CreateInv, CreationSane

(* The callbacks of the sink change a record that is still there. *)
LEMMA SinkType ==
  ASSUME NEW ps \in SUBSET CreateProgress
  PROVE  LET counted == {[p EXCEPT !.messages = @ + 1] : p \in ps}
             completed == {[p EXCEPT !.state = "complete", !.shed = TRUE] : p \in ps}
             failed == {[p EXCEPT !.state = "error", !.error = TRUE] : p \in ps}
         IN  /\ counted \subseteq CreateProgress /\ (counted = {} <=> ps = {})
             /\ \A q \in counted : \E p \in ps : /\ q.state = p.state /\ q.shed = p.shed
                                                 /\ q.error = p.error
             /\ completed \subseteq CreateProgress /\ (completed = {} <=> ps = {})
             /\ \A q \in completed : q.state = "complete" /\ q.shed
             /\ failed \subseteq CreateProgress /\ (failed = {} <=> ps = {})
             /\ \A q \in failed : q.state = "error" /\ q.error
<1> DEFINE counted(p) == [p EXCEPT !.messages = @ + 1]
           completed(p) == [p EXCEPT !.state = "complete", !.shed = TRUE]
           failed(p) == [p EXCEPT !.state = "error", !.error = TRUE]
<1>1. ASSUME NEW p \in ps
      PROVE  /\ counted(p) \in CreateProgress /\ counted(p).state = p.state
             /\ counted(p).shed = p.shed /\ counted(p).error = p.error
  <2>1. p \in CreateProgress
    OBVIOUS
  <2>2. p.messages + 1 \in Nat
    BY <2>1 DEF CreateProgress
  <2>3. QED BY <2>1, <2>2 DEF CreateProgress
<1>2. ASSUME NEW p \in ps
      PROVE  /\ completed(p) \in CreateProgress
             /\ completed(p).state = "complete" /\ completed(p).shed
  <2>1. p \in CreateProgress
    OBVIOUS
  <2>2. QED BY <2>1 DEF CreateProgress
<1>3. ASSUME NEW p \in ps
      PROVE  failed(p) \in CreateProgress /\ failed(p).state = "error" /\ failed(p).error
  <2>1. p \in CreateProgress
    OBVIOUS
  <2>2. QED BY <2>1 DEF CreateProgress
<1> HIDE DEF counted, completed, failed
<1>4. /\ {counted(p) : p \in ps} \subseteq CreateProgress
      /\ {counted(p) : p \in ps} = {} <=> ps = {}
      /\ \A q \in {counted(p) : p \in ps} :
           \E p \in ps : q.state = p.state /\ q.shed = p.shed /\ q.error = p.error
  BY <1>1
<1>5. /\ {completed(p) : p \in ps} \subseteq CreateProgress
      /\ {completed(p) : p \in ps} = {} <=> ps = {}
      /\ \A q \in {completed(p) : p \in ps} : q.state = "complete" /\ q.shed
  BY <1>2
<1>6. /\ {failed(p) : p \in ps} \subseteq CreateProgress
      /\ {failed(p) : p \in ps} = {} <=> ps = {}
      /\ \A q \in {failed(p) : p \in ps} : q.state = "error" /\ q.error
  BY <1>3
<1>7. QED BY <1>4, <1>5, <1>6, Zenon DEF counted, completed, failed

(* An error is reported as such, and is the last thing the task does. *)
LEMMA FailsSane ==
  ASSUME CreateInv, NEW i \in Creates, Fails(i), task[i].pc # "none",
         good' = good, dialog' = dialog, chunks' = chunks
  PROVE  CreateInv'
<1>1. /\ store \in [Creates -> SUBSET CreateProgress] /\ task \in [Creates -> Task]
  BY DEF CreateInv, CreateTypeOK
<1> DEFINE t == [task[i] EXCEPT !.pc = "done", !.events = << >>, !.parked = FALSE]
           ps == {[p EXCEPT !.state = "error", !.error = TRUE] : p \in store[i]}
<1>2. /\ t \in Task /\ t.pc = "done" /\ t.aborted = task[i].aborted /\ ~t.parked
      /\ t.saw_complete = task[i].saw_complete
  <2>1. task[i] \in Task
    BY <1>1
  <2>2. << >> \in Seq(SseEvent)
    OBVIOUS
  <2>3. QED BY <2>1, <2>2 DEF Task
<1>3. /\ ps \subseteq CreateProgress
      /\ \A q \in ps : q.state = "error" /\ q.error
      /\ ps = {} <=> store[i] = {}
  BY <1>1, SinkType
<1>4. task' = [task EXCEPT ![i] = t] /\ store' = [store EXCEPT ![i] = ps]
  BY <1>1 DEF Fails, on_error
<1> HIDE DEF t, ps
<1>5. CreateTypeOK'
  BY <1>1, <1>2, <1>3, <1>4 DEF CreateInv, CreateTypeOK
<1>6. CreationSane(i)'
  BY <1>1, <1>2, <1>3, <1>4 DEF CreateInv, CreationSane
<1>7. ASSUME NEW j \in Creates, j # i PROVE CreationSane(j)'
  BY <1>1, <1>4, <1>7, OthersSane
<1>8. QED BY <1>5, <1>6, <1>7 DEF CreateInv

(* Cancelling removes the record, and leaves at most a task that runs. *)
LEMMA CancelSane ==
  ASSUME CreateInv, NEW i \in Creates, cancel(i),
         dialog' \in [Creates -> {"closed", "polling", "complete", "error"}]
  PROVE  CreateInv'
<1>1. /\ store \in [Creates -> SUBSET CreateProgress] /\ task \in [Creates -> Task]
  BY DEF CreateInv, CreateTypeOK
<1> DEFINE t == [task[i] EXCEPT !.aborted = TRUE,
                               !.pc = IF task[i].parked THEN "done" ELSE @,
                               !.parked = FALSE]
<1>2. t \in Task /\ t.aborted /\ ~t.parked
      /\ (t.pc = "none" => task[i].pc = "none")
  <2>1. task[i] \in Task
    BY <1>1
  <2>2. QED BY <2>1 DEF Task
<1>3. task[i].pc # "none"
  BY DEF CreateInv, CreationSane, cancel
<1>4. /\ task' = [task EXCEPT ![i] = t] /\ store' = [store EXCEPT ![i] = {}]
      /\ UNCHANGED <<chunks, good>>
  BY <1>1 DEF cancel
<1> HIDE DEF t
<1>5. CreateTypeOK'
  BY <1>1, <1>2, <1>4 DEF CreateInv, CreateTypeOK
<1>6. CreationSane(i)'
  BY <1>1, <1>2, <1>3, <1>4 DEF CreationSane
<1>7. ASSUME NEW j \in Creates, j # i PROVE CreationSane(j)'
  BY <1>1, <1>4, <1>7, OthersSane
<1>8. QED BY <1>5, <1>6, <1>7 DEF CreateInv

(* A step of the task that leaves the record alone. *)
LEMMA MoveSane ==
  ASSUME CreateInv, NEW i \in Creates, NEW t \in Task,
         task' = [task EXCEPT ![i] = t], UNCHANGED <<store, dialog, good>>,
         chunks' \in 0..MaxChunks,
         t.aborted = task[i].aborted, t.saw_complete = task[i].saw_complete,
         task[i].pc # "none", t.pc # "none",
         t.pc = "done" => task[i].saw_complete \/ task[i].aborted,
         t.parked => ~t.aborted /\ t.pc \in Awaiting
  PROVE  CreateInv'
<1>1. task \in [Creates -> Task]
  BY DEF CreateInv, CreateTypeOK
<1>2. CreateTypeOK'
  BY <1>1 DEF CreateInv, CreateTypeOK
<1>3. CreationSane(i)'
  BY <1>1 DEF CreateInv, CreationSane
<1>4. ASSUME NEW j \in Creates, j # i PROVE CreationSane(j)'
  BY <1>1, <1>4, OthersSane
<1>5. QED BY <1>2, <1>3, <1>4 DEF CreateInv

(* An event of a chunk is folded into the record, if there still is one. *)
LEMMA EventSane ==
  ASSUME CreateInv, NEW i \in Creates, handle_create_event(i)
  PROVE  CreateInv'
<1>1. /\ store \in [Creates -> SUBSET CreateProgress] /\ task \in [Creates -> Task]
      /\ task[i] \in Task /\ store[i] \subseteq CreateProgress
      /\ task[i].pc \in {"feeding", "finishing"} /\ ~task[i].parked
  BY DEF CreateInv, CreateTypeOK, CreationSane, Awaiting, handle_create_event
<1> DEFINE t == [task[i] EXCEPT !.events = Tail(@)]
           u == [t EXCEPT !.saw_complete = TRUE]
           ps == {[p EXCEPT !.messages = @ + 1] : p \in store[i]}
           qs == {[p EXCEPT !.state = "complete", !.shed = TRUE] : p \in store[i]}
<1>2. task[i].events \in Seq(SseEvent) /\ task[i].events # << >>
  BY <1>1 DEF Task, handle_create_event
<1>3. Tail(task[i].events) \in Seq(SseEvent)
  BY <1>2
<1>4. /\ t \in Task /\ t.pc = task[i].pc /\ t.aborted = task[i].aborted
      /\ t.saw_complete = task[i].saw_complete /\ ~t.parked
      /\ u \in Task /\ u.pc = task[i].pc /\ u.aborted = task[i].aborted /\ u.saw_complete
      /\ ~u.parked
  BY <1>1, <1>3 DEF Task
<1>5. /\ ps \subseteq CreateProgress /\ (ps = {} <=> store[i] = {})
      /\ \A q \in ps : \E p \in store[i] : q.state = p.state /\ q.shed = p.shed /\ q.error = p.error
  BY <1>1, SinkType, ZenonT(60)
<1>6. /\ qs \subseteq CreateProgress /\ (qs = {} <=> store[i] = {})
      /\ \A q \in qs : q.state = "complete" /\ q.shed
  BY <1>1, SinkType, ZenonT(60)
<1>7. \/ /\ task' = [task EXCEPT ![i] = t] /\ store' = [store EXCEPT ![i] = ps]
         /\ UNCHANGED <<good, dialog, chunks>>
      \/ /\ task' = [task EXCEPT ![i] = u] /\ store' = [store EXCEPT ![i] = qs]
         /\ good' = good \cup {i} /\ UNCHANGED <<dialog, chunks>>
      \/ Fails(i) /\ UNCHANGED <<good, dialog, chunks>>
      \/ task' = [task EXCEPT ![i] = t] /\ UNCHANGED <<store, good, dialog, chunks>>
  <2>1. [task EXCEPT ![i].events = Tail(@)] = [task EXCEPT ![i] = t]
    BY <1>1
  <2>2. [[task EXCEPT ![i].events = Tail(@)] EXCEPT ![i].saw_complete = TRUE]
          = [task EXCEPT ![i] = u]
    BY <1>1
  <2> HIDE DEF t, u
  <2>3. QED
    BY <2>1, <2>2 DEF handle_create_event, on_progress, on_complete
<1> HIDE DEF t, u, ps, qs
<1>8. CASE /\ task' = [task EXCEPT ![i] = t] /\ store' = [store EXCEPT ![i] = ps]
           /\ UNCHANGED <<good, dialog, chunks>>
  <2>1. CreateTypeOK'
    BY <1>1, <1>4, <1>5, <1>8 DEF CreateInv, CreateTypeOK
  <2>2. CreationSane(i)'
    BY <1>1, <1>4, <1>5, <1>8 DEF CreateInv, CreationSane
  <2>3. ASSUME NEW j \in Creates, j # i PROVE CreationSane(j)'
    BY <1>1, <1>8, <2>3, OthersSane
  <2>4. QED BY <2>1, <2>2, <2>3 DEF CreateInv
<1>9. CASE /\ task' = [task EXCEPT ![i] = u] /\ store' = [store EXCEPT ![i] = qs]
           /\ good' = good \cup {i} /\ UNCHANGED <<dialog, chunks>>
  <2>1. CreateTypeOK'
    BY <1>1, <1>4, <1>6, <1>9 DEF CreateInv, CreateTypeOK
  <2>2. CreationSane(i)'
    BY <1>1, <1>4, <1>6, <1>9 DEF CreateInv, CreationSane
  <2>3. ASSUME NEW j \in Creates, j # i PROVE CreationSane(j)'
    BY <1>1, <1>9, <2>3, OthersSane
  <2>4. QED BY <2>1, <2>2, <2>3 DEF CreateInv
<1>10. CASE Fails(i) /\ UNCHANGED <<good, dialog, chunks>>
  BY <1>1, <1>10, FailsSane
<1>11. CASE task' = [task EXCEPT ![i] = t] /\ UNCHANGED <<store, good, dialog, chunks>>
  <2>1. chunks' \in 0..MaxChunks
    BY <1>11 DEF CreateInv, CreateTypeOK
  <2>2. QED BY <1>1, <1>4, <1>11, <2>1, MoveSane
<1>12. QED BY <1>7, <1>8, <1>9, <1>10, <1>11

(* What the task does otherwise: it waits, reads, and ends. *)
LEMMA TaskSane ==
  ASSUME CreateInv, NEW i \in Creates,
         \/ HasBearer(i) \/ Responds(i) \/ ChunkDone(i) \/ Parks(i)
         \/ \E batch \in Batches : Chunk(i, batch) \/ Eof(i, batch)
  PROVE  CreateInv'
<1>1. task \in [Creates -> Task] /\ task[i] \in Task
  BY DEF CreateInv, CreateTypeOK
<1>2. chunks \in 0..MaxChunks /\ (task[i].parked => task[i].pc \in Awaiting)
  BY DEF CreateInv, CreateTypeOK, CreationSane
<1> DEFINE At(pc, batch) == [task[i] EXCEPT !.pc = pc, !.events = batch, !.parked = FALSE]
           On(pc, parked) == [task[i] EXCEPT !.pc = pc, !.parked = parked]
<1>3. ASSUME NEW pc \in {"token", "sending", "streaming", "feeding", "finishing", "done"},
             NEW batch \in Seq(SseEvent), NEW parked \in BOOLEAN
      PROVE  /\ At(pc, batch) \in Task /\ At(pc, batch).pc = pc /\ ~At(pc, batch).parked
             /\ At(pc, batch).aborted = task[i].aborted
             /\ At(pc, batch).saw_complete = task[i].saw_complete
             /\ On(pc, parked) \in Task /\ On(pc, parked).pc = pc
             /\ On(pc, parked).parked = parked
             /\ On(pc, parked).aborted = task[i].aborted
             /\ On(pc, parked).saw_complete = task[i].saw_complete
  BY <1>1 DEF Task
<1>4. Batches \subseteq Seq(SseEvent)
  <2>1. \A n \in 0..2 : [1..n -> SseEvent] \subseteq Seq(SseEvent)
    OBVIOUS
  <2>2. QED BY <2>1 DEF Batches
<1>5. << >> \in Seq(SseEvent)
  OBVIOUS
<1>6. CASE HasBearer(i)
  <2>1. task' = [task EXCEPT ![i] = On("sending", FALSE)] /\ task[i].pc = "token"
        /\ UNCHANGED <<store, dialog, chunks, good>>
    BY <1>1, <1>6 DEF HasBearer
  <2> HIDE DEF On
  <2>2. QED BY <1>2, <1>3, <1>5, <2>1, MoveSane
<1>7. CASE Responds(i)
  <2>1. task' = [task EXCEPT ![i] = On("streaming", FALSE)] /\ task[i].pc = "sending"
        /\ UNCHANGED <<store, dialog, chunks, good>>
    BY <1>1, <1>7 DEF Responds
  <2> HIDE DEF On
  <2>2. QED BY <1>2, <1>3, <1>5, <2>1, MoveSane, ZenonT(60)
<1>8. CASE ChunkDone(i)
  <2>1. ~task[i].parked
    BY <1>2, <1>8 DEF ChunkDone, Awaiting
  <2>2. task' = [task EXCEPT ![i] = On("streaming", FALSE)] /\ task[i].pc = "feeding"
        /\ UNCHANGED <<store, dialog, chunks, good>>
    <3>1. [task[i] EXCEPT !.pc = "streaming"] = On("streaming", FALSE)
      BY <1>1, <2>1 DEF Task
    <3> HIDE DEF On
    <3>2. QED BY <1>1, <1>8, <3>1 DEF ChunkDone
  <2> HIDE DEF On
  <2>3. QED BY <1>2, <1>3, <1>5, <2>2, MoveSane
<1>9. CASE Parks(i)
  <2>1. task[i].aborted \in BOOLEAN /\ task[i].pc \in Awaiting
    BY <1>1, <1>9 DEF Parks, Task
  <2>2. CASE task[i].aborted
    <3>1. task' = [task EXCEPT ![i] = On("done", FALSE)]
          /\ UNCHANGED <<store, dialog, chunks, good>>
      BY <1>1, <1>9, <2>2 DEF Parks
    <3> HIDE DEF On
    <3>2. QED BY <1>2, <1>3, <1>5, <2>1, <2>2, <3>1, MoveSane, ZenonT(60) DEF Awaiting
  <2>3. CASE ~task[i].aborted
    <3>1. task' = [task EXCEPT ![i] = On(task[i].pc, TRUE)]
          /\ UNCHANGED <<store, dialog, chunks, good>>
      BY <1>1, <1>9, <2>3 DEF Parks
    <3>2. PICK at \in Awaiting : at = task[i].pc
      BY <2>1
    <3>3. task' = [task EXCEPT ![i] = On(at, TRUE)]
      BY <3>1, <3>2
    <3>4. /\ On(at, TRUE) \in Task /\ On(at, TRUE).pc = at /\ On(at, TRUE).parked
          /\ On(at, TRUE).aborted = task[i].aborted
          /\ On(at, TRUE).saw_complete = task[i].saw_complete
      BY <1>1 DEF Awaiting, Task
    <3> HIDE DEF On
    <3>5. QED BY <1>2, <2>3, <3>1, <3>2, <3>3, <3>4, MoveSane DEF Awaiting
  <2>4. QED BY <2>2, <2>3
<1>10. ASSUME NEW batch \in Batches, Chunk(i, batch) PROVE CreateInv'
  <2>1. /\ task' = [task EXCEPT ![i] = At("feeding", batch)] /\ task[i].pc = "streaming"
        /\ UNCHANGED <<store, dialog, good>>
    BY <1>1, <1>10 DEF Chunk
  <2>2. chunks' \in 0..MaxChunks
    <3>1. chunks < MaxChunks /\ chunks' = chunks + 1
      BY <1>10 DEF Chunk
    <3>2. QED BY <1>2, <3>1, CreateAssumption
  <2>3. batch \in Seq(SseEvent)
    BY <1>4
  <2> HIDE DEF At, On
  <2>4. QED BY <1>3, <2>1, <2>2, <2>3, MoveSane
<1>11. ASSUME NEW batch \in Batches, Eof(i, batch) PROVE CreateInv'
  <2>1. /\ task' = [task EXCEPT ![i] = At("finishing", batch)] /\ task[i].pc = "streaming"
        /\ UNCHANGED <<store, dialog, good, chunks>>
    BY <1>1, <1>11 DEF Eof
  <2>2. batch \in Seq(SseEvent)
    BY <1>4
  <2> HIDE DEF At, On
  <2>3. QED BY <1>2, <1>3, <2>1, <2>2, MoveSane
<1>12. QED BY <1>6, <1>7, <1>8, <1>9, <1>10, <1>11

(* A creation starts with a record of its own. *)
LEMMA StartSane ==
  ASSUME CreateInv, NEW i \in Creates, start(i)
  PROVE  CreateInv'
<1>1. /\ store \in [Creates -> SUBSET CreateProgress] /\ task \in [Creates -> Task]
      /\ task[i] \in Task /\ task[i].pc = "none"
  BY DEF CreateInv, CreateTypeOK, start
<1> DEFINE t == [task[i] EXCEPT !.pc = "token", !.parked = TRUE]
<1>2. /\ t \in Task /\ t.pc = "token" /\ t.aborted = task[i].aborted
      /\ t.saw_complete = task[i].saw_complete
  BY <1>1 DEF Task
<1>3. task' = [task EXCEPT ![i] = t]
  BY <1>1 DEF start
<1>4. {Fresh} \subseteq CreateProgress /\ Fresh.state = "progress"
  BY DEF Fresh, CreateProgress
<1> HIDE DEF t
<1>5. CreateTypeOK'
  BY <1>1, <1>2, <1>3, <1>4, ZenonT(60) DEF start, CreateInv, CreateTypeOK
<1>6. CreationSane(i)'
  BY <1>1, <1>2, <1>3, <1>4 DEF start, CreateInv, CreationSane, Awaiting
<1>7. ASSUME NEW j \in Creates, j # i PROVE CreationSane(j)'
  BY <1>1, <1>3, <1>7, OthersSane DEF start
<1>8. QED BY <1>5, <1>6, <1>7 DEF CreateInv

(* Every step of the application, the dialog, the server and the clock. *)
LEMMA StepCreate ==
  ASSUME CreateInv, [CreateNext]_createVars
  PROVE  CreateInv'
<1>0. dialog \in [Creates -> {"closed", "polling", "complete", "error"}]
      /\ store \in [Creates -> SUBSET CreateProgress] /\ task \in [Creates -> Task]
  BY DEF CreateInv, CreateTypeOK
<1>1. CASE UNCHANGED <<store, task, chunks, good>>
           /\ dialog' \in [Creates -> {"closed", "polling", "complete", "error"}]
  BY <1>1 DEF CreateInv, CreateTypeOK, CreationSane
<1>2. ASSUME NEW i \in Creates, IpcCancels(i) PROVE CreateInv'
  BY <1>0, <1>2, CancelSane DEF IpcCancels
<1>3. ASSUME NEW i \in Creates, Polls(i) PROVE CreateInv'
  <2>1. PICK p \in store[i] : /\ p.state # "progress"
                              /\ dialog' = [dialog EXCEPT ![i] = p.state]
    BY <1>3 DEF Polls
  <2>2. p.state \in {"complete", "error"}
    BY <1>0, <2>1 DEF CreateProgress
  <2>3. dialog' \in [Creates -> {"closed", "polling", "complete", "error"}]
    BY <1>0, <2>1, <2>2
  <2>4. QED BY <1>1, <1>3, <2>3 DEF Polls
<1>4. ASSUME NEW i \in Creates, Closes(i) PROVE CreateInv'
  <2>1. dialog' \in [Creates -> {"closed", "polling", "complete", "error"}]
    BY <1>0, <1>4 DEF Closes
  <2>2. QED BY <1>1, <1>4, <2>1, CancelSane DEF Closes
<1>5. ASSUME NEW i \in Creates, SendFails(i) \/ IdleTimeout(i) PROVE CreateInv'
  BY <1>5, FailsSane DEF SendFails, IdleTimeout
<1>6. ASSUME NEW i \in Creates, StreamEnds(i) PROVE CreateInv'
  <2>1. task[i].pc = "finishing" /\ UNCHANGED <<dialog, chunks, good>>
    BY <1>6 DEF StreamEnds
  <2>2. CASE Fails(i)
    BY <2>1, <2>2, FailsSane
  <2>3. CASE /\ task[i].saw_complete /\ UNCHANGED store
             /\ task' = [task EXCEPT ![i].pc = "done"]
    <3> DEFINE t == [task[i] EXCEPT !.pc = "done"]
    <3>1. task[i] \in Task
      BY <1>0
    <3>2. /\ t \in Task /\ t.pc = "done" /\ t.aborted = task[i].aborted
          /\ t.saw_complete = task[i].saw_complete /\ ~t.parked
      BY <2>1, <3>1 DEF Task, CreateInv, CreationSane, Awaiting
    <3>3. task' = [task EXCEPT ![i] = t] /\ chunks' \in 0..MaxChunks
      BY <1>0, <2>1, <2>3 DEF CreateInv, CreateTypeOK
    <3> HIDE DEF t
    <3>4. QED BY <2>1, <2>3, <3>2, <3>3, MoveSane
  <2>4. QED BY <1>6, <2>2, <2>3 DEF StreamEnds
<1>7. CASE UNCHANGED createVars
  BY <1>0, <1>1, <1>7 DEF createVars
<1>8. QED
  BY <1>2, <1>3, <1>4, <1>5, <1>6, <1>7, StartSane, EventSane, TaskSane
  DEF CreateNext, TaskRuns, Server

(* The invariant holds of every creation at any time. *)
LEMMA CreationsSane == CreateSpec => []CreateInv
<1>1. CreateInit => CreateInv
  <2> SUFFICES ASSUME CreateInit PROVE CreateInv
    OBVIOUS
  <2> DEFINE t == [pc |-> "none", events |-> << >>, saw_complete |-> FALSE, aborted |-> FALSE,
                   parked |-> FALSE]
  <2>1. << >> \in Seq(SseEvent)
    OBVIOUS
  <2>2. t \in Task /\ t.pc = "none" /\ ~t.saw_complete /\ ~t.aborted /\ ~t.parked
    BY <2>1 DEF Task
  <2>3. task = [i \in Creates |-> t]
    BY DEF CreateInit
  <2> HIDE DEF t
  <2>4. CreateTypeOK
    <3>1. store \in [Creates -> SUBSET CreateProgress]
      BY DEF CreateInit
    <3>2. task \in [Creates -> Task]
      BY <2>2, <2>3
    <3>3. /\ dialog \in [Creates -> {"closed", "polling", "complete", "error"}]
          /\ chunks \in 0..MaxChunks /\ good \subseteq Creates
      BY CreateAssumption DEF CreateInit
    <3>4. QED BY <3>1, <3>2, <3>3 DEF CreateTypeOK
  <2>5. ASSUME NEW i \in Creates PROVE CreationSane(i)
    <3>1. store[i] = {} /\ task[i] = t
      BY <2>3 DEF CreateInit
    <3>2. QED BY <2>2, <3>1 DEF CreationSane
  <2>6. QED BY <2>4, <2>5 DEF CreateInv
<1>2. QED BY <1>1, StepCreate, PTL DEF CreateSpec

(* However the stream of events goes, breaks, stalls or ends, a creation   *)
(* whose task is over shows success or failure, and success only when the  *)
(* server reported the shed.                                               *)
THEOREM CreationsEndTruthfully == CreateSpec => []EndsTruthfully
<1>1. CreateInv => EndsTruthfully
  BY DEF CreateInv, CreationSane, EndsTruthfully
<1>2. QED BY <1>1, CreationsSane, PTL

(* A cancelled creation stays gone, whatever its task is in the middle of  *)
(* and still reads, and the task never waits for the server again.         *)
THEOREM CancelFinal == CreateSpec => CancelIsFinal
<1> DEFINE Gone(i) == task[i].pc # "none" /\ store[i] = {} =>
              store'[i] = {} /\ ~task'[i].parked
<1>1. ASSUME CreateInv, [CreateNext]_createVars, NEW i \in Creates
      PROVE  Gone(i)
  <2> SUFFICES ASSUME task[i].pc # "none", store[i] = {}
               PROVE  store'[i] = {} /\ ~task'[i].parked
    OBVIOUS
  <2>1. CreateInv'
    BY <1>1, StepCreate
  <2>2. task[i].aborted
    BY <1>1 DEF CreateInv, CreationSane
  <2>3. /\ store \in [Creates -> SUBSET CreateProgress] /\ task \in [Creates -> Task]
        /\ task[i] \in Task
    BY <1>1 DEF CreateInv, CreateTypeOK
  <2>4. store'[i] = {} /\ task'[i].pc # "none"
    <3>1. CASE UNCHANGED createVars
      BY <3>1 DEF createVars
    <3>2. ASSUME NEW j \in Creates, start(j) PROVE store'[i] = {} /\ task'[i].pc # "none"
      BY <2>3, <3>2 DEF start
    <3>3. ASSUME NEW j \in Creates, cancel(j) PROVE store'[i] = {} /\ task'[i].pc # "none"
      BY <2>3, <3>3 DEF cancel
    <3>4. ASSUME NEW j \in Creates, Fails(j) PROVE store'[i] = {} /\ task'[i].pc # "none"
      BY <2>3, <3>4 DEF Fails, on_error, Task
    <3>5. ASSUME NEW j \in Creates, handle_create_event(j)
          PROVE  store'[i] = {} /\ task'[i].pc # "none"
      <4>1. on_progress(j) \/ on_complete(j) => store'[i] = {}
        BY <2>3 DEF on_progress, on_complete
      <4>2. task[j].events \in Seq(SseEvent)
        BY <2>3 DEF Task
      <4>3. [task EXCEPT ![j].events = Tail(@)][i].pc = task[i].pc
        BY <2>3 DEF Task
      <4>4. [[task EXCEPT ![j].events = Tail(@)] EXCEPT ![j].saw_complete = TRUE][i].pc = task[i].pc
        BY <2>3 DEF Task
      <4>5. QED BY <3>4, <3>5, <4>1, <4>3, <4>4 DEF handle_create_event
    <3>6. ASSUME NEW j \in Creates, TaskRuns(j) \/ Server(j)
          PROVE  store'[i] = {} /\ task'[i].pc # "none"
      <4>1. CASE HasBearer(j) \/ ChunkDone(j) \/ Responds(j) \/ Parks(j)
        <5>1. store' = store
          BY <4>1 DEF HasBearer, ChunkDone, Responds, Parks
        <5>2. CASE HasBearer(j)
          BY <2>3, <5>1, <5>2 DEF HasBearer, Task
        <5>3. CASE ChunkDone(j)
          BY <2>3, <5>1, <5>3 DEF ChunkDone, Task
        <5>4. CASE Responds(j)
          BY <2>3, <5>1, <5>4 DEF Responds, Task
        <5>5. CASE Parks(j)
          BY <2>3, <5>1, <5>5 DEF Parks, Task
        <5>6. QED BY <4>1, <5>1, <5>2, <5>3, <5>4, <5>5
      <4>2. ASSUME NEW batch, Chunk(j, batch) \/ Eof(j, batch)
            PROVE  store'[i] = {} /\ task'[i].pc # "none"
        <5>1. store' = store
          BY <4>2 DEF Chunk, Eof
        <5>2. CASE Chunk(j, batch)
          BY <2>3, <5>2 DEF Chunk, Task
        <5>3. CASE Eof(j, batch)
          BY <2>3, <5>3 DEF Eof, Task
        <5>4. QED BY <4>2, <5>1, <5>2, <5>3
      <4>3. CASE StreamEnds(j)
        BY <2>3, <3>4, <4>3 DEF StreamEnds, Task
      <4>4. CASE IdleTimeout(j) \/ SendFails(j)
        BY <3>4, <4>4 DEF IdleTimeout, SendFails
      <4>5. QED BY <3>5, <3>6, <4>1, <4>2, <4>3, <4>4 DEF TaskRuns, Server
    <3>7. QED
      BY <1>1, <3>1, <3>2, <3>3, <3>6
      DEF CreateNext, IpcCancels, Polls, Closes
  <2>5. ~task'[i].parked
    BY <2>1, <2>4 DEF CreateInv, CreationSane
  <2>6. QED BY <2>4, <2>5
<1>2. CreateInv /\ [CreateNext]_createVars => [\A i \in Creates : Gone(i)]_createVars
  BY <1>1
<1>3. QED BY <1>2, CreationsSane, PTL DEF CreateSpec, CancelIsFinal
=============================================================================
