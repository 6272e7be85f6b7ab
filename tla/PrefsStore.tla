----------------------------- MODULE PrefsStore -----------------------------
(***************************************************************************)
(* How preferences get to prefs.json and back (tauri/src-tauri/src/lib.rs, *)
(* ipc.rs, termctl.rs and prefs.rs).  A command that sets the SSH approval *)
(* preferences is three steps: the coordinator applies a partial update,   *)
(* the client reads the result back, and PrefsStore writes it through to   *)
(* the file.  The coordinator and PrefsStore each serialise their own      *)
(* steps, nothing serialises the three.  A command that sets the terminal  *)
(* goes to PrefsStore alone; both kinds share its copy and its file.       *)
(*                                                                         *)
(* The file is truncated and then written, and the write may fail while    *)
(* the process goes on.  The process may stop at any time and start again  *)
(* from what the file holds.                                               *)
(***************************************************************************)
EXTENDS Naturals, FiniteSets

CONSTANTS
  Clients,          \* the Preferences view and the IPC connections
  Values,           \* field -> its values; a time-to-live is any string
  Default,          \* SshPrefs::default()
  Terminals,        \* what the terminal may be set to, preset and template
  DefaultTerminal,
  MaxHeld           \* bound: SSH preferences that commands bring about

Fields == {"method", "policy", "ttl"}
SshPrefs == {p \in [Fields -> UNION {Values[f] : f \in Fields}] :
               \A f \in Fields : p[f] \in Values[f]}

ASSUME PrefsAssumption ==
  Default \in SshPrefs /\ DefaultTerminal \in Terminals

(* Prefs: SSH preferences that were never set are absent from the file. *)
Prefs == [ssh: {{}} \cup {{p} : p \in SshPrefs}, terminal: Terminals]
NoPrefs == [ssh |-> {}, terminal |-> DefaultTerminal]

VARIABLES
  held,    \* the coordinator's preferences
  inner,   \* PrefsStore's copy
  disk,    \* prefs.json: {} (absent or cut short) or {prefs}
  lock,    \* PrefsStore's mutex: {} or {client}
  client,  \* client -> where its command stands, and what it read back
  past,    \* history: the SSH preferences the coordinator has held
  behind   \* history: the last save failed

vars == <<held, inner, disk, lock, client, past, behind>>

Idle == [pc |-> "idle", got |-> Default]

Init ==
  /\ held = Default
  /\ inner = NoPrefs
  /\ disk = {}
  /\ lock = {}
  /\ client = [c \in Clients |-> Idle]
  /\ past = {Default}
  /\ behind = FALSE

(* The coordinator applies the fields that the command gives, as they are. *)
set_ssh_approval(c, fields, p) ==
  /\ client[c].pc = "idle"
  /\ held' = [f \in Fields |-> IF f \in fields THEN p[f] ELSE held[f]]
  /\ past' = past \cup {held'} /\ Cardinality(past') <= MaxHeld
  /\ client' = [client EXCEPT ![c].pc = "applied"]
  /\ UNCHANGED <<inner, disk, lock, behind>>

(* ssh_prefs().await: a second message to the coordinator. *)
ReadsBack(c) ==
  /\ client[c].pc = "applied"
  /\ client' = [client EXCEPT ![c] = [pc |-> "read", got |-> held]]
  /\ UNCHANGED <<held, inner, disk, lock, past, behind>>

(* Mutant of set_ssh: only the method is stored. *)
set_ssh_MethodOnly(c) ==
  /\ client[c].pc = "read"
  /\ inner' = [inner EXCEPT !.ssh = {[p EXCEPT !["method"] = client[c].got["method"]] :
                                       p \in IF @ = {} THEN {Default} ELSE @}]

(* PrefsStore::set_ssh, up to the save. *)
set_ssh(c) ==
  /\ client[c].pc = "read"
  /\ inner' = [inner EXCEPT !.ssh = {client[c].got}]

(* PrefsStore::set_terminal, up to the save. *)
set_terminal(c) ==
  /\ client[c].pc = "idle"
  /\ \E terminal \in Terminals : inner' = [inner EXCEPT !.terminal = terminal]

(* save, under the store's mutex: the file is opened, and is empty, *)
SaveBegins(c) ==
  /\ lock = {}
  /\ lock' = {c}
  /\ disk' = {}
  /\ client' = [client EXCEPT ![c] = [Idle EXCEPT !.pc = "saving"]]
  /\ UNCHANGED behind

(* or cannot be opened, which is ignored; *)
SaveFails(c) ==
  /\ lock = {}
  /\ client' = [client EXCEPT ![c] = Idle]
  /\ behind' = TRUE
  /\ UNCHANGED <<disk, lock>>

Sets(c) ==
  /\ set_ssh(c) \/ set_terminal(c)
  /\ SaveBegins(c) \/ SaveFails(c)
  /\ UNCHANGED <<held, past>>

(* then it is written, *)
Saved(c) ==
  /\ client[c].pc = "saving"
  /\ disk' = {inner}
  /\ lock' = {}
  /\ client' = [client EXCEPT ![c] = Idle]
  /\ behind' = FALSE
  /\ UNCHANGED <<held, inner, past>>

(* or not, or not all of it, which is ignored and leaves it unreadable. *)
SaveBreaks(c) ==
  /\ client[c].pc = "saving"
  /\ lock' = {}
  /\ client' = [client EXCEPT ![c] = Idle]
  /\ behind' = TRUE
  /\ UNCHANGED <<held, inner, disk, past>>

(* PrefsStore::load: an absent or unreadable file is the default. *)
load(file) == IF file = {} THEN NoPrefs ELSE CHOOSE p \in file : TRUE

(* ssh_prefs_from_store: what the file does not give is the default, and *)
(* so is an empty time-to-live that it does give.                        *)
ssh_prefs_from_store(p) ==
  IF p.ssh = {} THEN Default
  ELSE LET stored == CHOOSE q \in p.ssh : TRUE
       IN  IF stored["ttl"] = "" THEN [stored EXCEPT !["ttl"] = Default["ttl"]] ELSE stored

Restarts ==
  /\ inner' = load(disk)
  /\ held' = ssh_prefs_from_store(inner')
  /\ lock' = {}
  /\ client' = [c \in Clients |-> Idle]
  /\ past' = past \cup {held'}
  /\ behind' = FALSE
  /\ UNCHANGED disk

(* A step of the running process. *)
Works ==
  \E c \in Clients :
    \/ \E fields \in SUBSET Fields, p \in SshPrefs : set_ssh_approval(c, fields, p)
    \/ ReadsBack(c) \/ Sets(c) \/ Saved(c) \/ SaveBreaks(c)

Next == Works \/ Restarts

Spec == Init /\ [][Next]_vars
-----------------------------------------------------------------------------
(* With the types: PrefsStore's mutex is with whoever writes the file. *)
TypeOK ==
  /\ held \in SshPrefs
  /\ inner \in Prefs
  /\ disk \subseteq Prefs
  /\ client \in [Clients -> [pc: {"idle", "applied", "read", "saving"}, got: SshPrefs]]
  /\ lock = {c \in Clients : client[c].pc = "saving"}

(* What the file gives is one state that the coordinator was in, never a   *)
(* mixture of two commands' fields, wherever the process stopped; but for  *)
(* an empty time-to-live, which comes back as the default.  And while      *)
(* nobody writes the file and the last write did not fail, it is all that  *)
(* PrefsStore holds: no command takes back what one of the other kind set. *)
FileIsASnapshot ==
  /\ TypeOK
  /\ LET restored == ssh_prefs_from_store(load(disk))
     IN  \E p \in past : \A f \in Fields :
           \/ restored[f] = p[f]
           \/ f = "ttl" /\ p[f] = "" /\ restored[f] = Default[f]
  /\ lock = {} /\ ~behind => load(disk) = inner
=============================================================================
