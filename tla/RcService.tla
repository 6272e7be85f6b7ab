----------------------------- MODULE RcService ------------------------------
(***************************************************************************)
(* Remote-control sessions (core/shed-app/src/rc.rs): a table of sessions, *)
(* and launch, kill and list over ssh, which one asynchronous mutex        *)
(* (op_guard) serialises.  What list probes is resolved before it has the  *)
(* mutex (core/shed-app/src/backend.rs, rc_targets), kill takes its row    *)
(* out after it has given the mutex back.                                  *)
(*                                                                         *)
(* A session is identified by host, shed and a fresh random slug.  Sheds   *)
(* and the sessions in them are external: they start, stop and end on      *)
(* their own, and a command that timed out here may still run there.  The  *)
(* test mode, which needs no ssh, is left out.                             *)
(***************************************************************************)
EXTENDS Naturals

CONSTANTS
  Sheds,
  Sessions,
  Home,    \* session -> the shed it is launched in
  Lists,   \* callers of list
  Flaky    \* may a host's listing or a probe fail?

ASSUME RcAssumption ==
  /\ Home \in [Sessions -> Sheds]
  /\ Flaky \in BOOLEAN

VARIABLES
  running,  \* sheds that run
  born,     \* sessions that were ever created in their shed
  live,     \* sessions alive in their shed
  store,    \* the table
  guard,    \* op_guard: {} or the operation that holds it
  launch,   \* session -> how its launch stands
  kill,     \* session -> how a kill of it stands
  list,     \* caller -> its list operation
  killed    \* sessions for which a kill returned success

rcVars == <<running, born, live, store, guard, launch, kill, list, killed>>

(* The filter of a list: none, or the sheds that a host, a name or both    *)
(* select.                                                                 *)
Filters == {{}} \cup {{selected} : selected \in SUBSET Sheds}

Matches(filter) == {s \in Sheds : \A selected \in filter : s \in selected}

Listing == [pc: {"idle", "guard", "probing"}, filter: Filters,
            targets: SUBSET Sheds, left: SUBSET Sheds, fresh: SUBSET Sessions]
Idle == [pc |-> "idle", filter |-> {}, targets |-> {}, left |-> {}, fresh |-> {}]

RcInit ==
  /\ running \in SUBSET Sheds
  /\ born = {}
  /\ live = {}
  /\ store = {}
  /\ guard = {}
  /\ launch = [x \in Sessions |-> "none"]
  /\ kill = [x \in Sessions |-> "idle"]
  /\ list = [q \in Lists |-> Idle]
  /\ killed = {}

In(s) == {x \in Sessions : Home[x] = s}
-----------------------------------------------------------------------------
(* launch: the validation has passed. *)
LaunchBegins(x) ==
  /\ launch[x] = "none"
  /\ launch' = [launch EXCEPT ![x] = "guard"]
  /\ UNCHANGED <<running, born, live, store, guard, kill, list, killed>>

LaunchRuns(x) ==
  /\ launch[x] = "guard" /\ guard = {}
  /\ guard' = {<<"launch", x>>}
  /\ launch' = [launch EXCEPT ![x] = "ssh"]
  /\ UNCHANGED <<running, born, live, store, kill, list, killed>>

(* shed-ext-rc creates the session, perhaps after the watchdog gave up. *)
RemoteCreates(x) ==
  /\ launch[x] \in {"ssh", "failed"} /\ x \notin born
  /\ Home[x] \in running
  /\ born' = born \cup {x}
  /\ live' = live \cup {x}
  /\ launch' = [launch EXCEPT ![x] = IF @ = "ssh" THEN "created" ELSE @]
  /\ UNCHANGED <<running, store, guard, kill, list, killed>>

LaunchOk(x) ==
  /\ launch[x] = "created"
  /\ store' = store \cup {x}
  /\ guard' = {}
  /\ launch' = [launch EXCEPT ![x] = "ok"]
  /\ UNCHANGED <<running, born, live, kill, list, killed>>

(* ssh failed, a non-zero exit, a timeout, or a reply that does not decode. *)
LaunchFails(x) ==
  /\ launch[x] \in {"ssh", "created"}
  /\ guard' = {}
  /\ launch' = [launch EXCEPT ![x] = "failed"]
  /\ UNCHANGED <<running, born, live, store, kill, list, killed>>
-----------------------------------------------------------------------------
(* kill of a session the user sees. *)
KillBegins(x) ==
  /\ kill[x] = "idle" /\ x \in store
  /\ kill' = [kill EXCEPT ![x] = "guard"]
  /\ UNCHANGED <<running, born, live, store, guard, launch, list, killed>>

KillRuns(x) ==
  /\ kill[x] = "guard" /\ guard = {}
  /\ guard' = {<<"kill", x>>}
  /\ kill' = [kill EXCEPT ![x] = "ssh"]
  /\ UNCHANGED <<running, born, live, store, launch, list, killed>>

(* shed-ext-rc kill succeeds for a session that is already gone, too. *)
RemoteKills(x) ==
  /\ kill[x] = "ssh"
  /\ Home[x] \in running
  /\ live' = live \ {x}
  /\ kill' = [kill EXCEPT ![x] = "killed"]
  /\ UNCHANGED <<running, born, store, guard, launch, list, killed>>

KillOk(x) ==
  /\ kill[x] = "killed"
  /\ guard' = {}
  /\ kill' = [kill EXCEPT ![x] = "removing"]
  /\ UNCHANGED <<running, born, live, store, launch, list, killed>>

(* The row is left for a refresh to reconcile. *)
KillFails(x) ==
  /\ kill[x] \in {"ssh", "killed"}
  /\ guard' = {}
  /\ kill' = [kill EXCEPT ![x] = "idle"]
  /\ UNCHANGED <<running, born, live, store, launch, list, killed>>

KillRemoves(x) ==
  /\ kill[x] = "removing"
  /\ store' = store \ {x}
  /\ killed' = killed \cup {x}
  /\ kill' = [kill EXCEPT ![x] = "idle"]
  /\ UNCHANGED <<running, born, live, guard, launch, list>>
-----------------------------------------------------------------------------
(* rc_targets: the running sheds that match, without the hosts that fail. *)
rc_targets(q, f, targets) ==
  /\ list[q].pc = "idle"
  /\ targets \subseteq running \cap Matches(f)
  /\ Flaky \/ targets = running \cap Matches(f)
  /\ list' = [list EXCEPT ![q] = [Idle EXCEPT !.pc = "guard", !.filter = f,
                                              !.targets = targets, !.left = targets]]
  /\ UNCHANGED <<running, born, live, store, guard, launch, kill, killed>>

(* Mutant of ListRuns: list does not take the mutex. *)
ListRuns_Unguarded(q) ==
  /\ list[q].pc = "guard"
  /\ list' = [list EXCEPT ![q].pc = "probing"]
  /\ UNCHANGED <<running, born, live, store, guard, launch, kill, killed>>

ListRuns(q) ==
  /\ list[q].pc = "guard" /\ guard = {}
  /\ guard' = {<<"list", q>>}
  /\ list' = [list EXCEPT ![q].pc = "probing"]
  /\ UNCHANGED <<running, born, live, store, launch, kill, killed>>

(* One of the concurrent probes answers, or yields none. *)
Probes(q, s, found) ==
  /\ list[q].pc = "probing" /\ s \in list[q].left
  /\ \/ found = In(s) \cap live
     \/ Flaky /\ found = {}
  /\ list' = [list EXCEPT ![q].left = @ \ {s}, ![q].fresh = @ \cup found]
  /\ UNCHANGED <<running, born, live, store, guard, launch, kill, killed>>

(* Mutant of Reconciled: every list rebuilds the whole table. *)
Reconciled_Rebuilds(l) == l.fresh

(* What a list makes of the table. *)
Reconciled(l) ==
  l.fresh \cup IF l.filter = {} THEN {} ELSE {x \in store : Home[x] \notin l.targets}

Reconciles(q) ==
  /\ list[q].pc = "probing" /\ list[q].left = {}
  /\ store' = Reconciled(list[q])
  /\ guard' = guard \ {<<"list", q>>}
  /\ list' = [list EXCEPT ![q] = Idle]
  /\ UNCHANGED <<running, born, live, launch, kill, killed>>
-----------------------------------------------------------------------------
(* The sheds, and the sessions in them. *)
ShedStarts(s) ==
  /\ s \notin running
  /\ running' = running \cup {s}
  /\ UNCHANGED <<born, live, store, guard, launch, kill, list, killed>>

ShedStops(s) ==
  /\ s \in running
  /\ running' = running \ {s}
  /\ live' = live \ In(s)
  /\ UNCHANGED <<born, store, guard, launch, kill, list, killed>>

SessionEnds(x) ==
  /\ x \in live
  /\ live' = live \ {x}
  /\ UNCHANGED <<running, born, store, guard, launch, kill, list, killed>>
-----------------------------------------------------------------------------
Launching(x) ==
  LaunchBegins(x) \/ LaunchRuns(x) \/ RemoteCreates(x) \/ LaunchOk(x) \/ LaunchFails(x)

Killing(x) ==
  KillBegins(x) \/ KillRuns(x) \/ RemoteKills(x) \/ KillOk(x) \/ KillFails(x) \/ KillRemoves(x)

Refreshing(q) ==
  \/ \E f \in Filters, targets \in SUBSET Sheds : rc_targets(q, f, targets)
  \/ ListRuns(q)
  \/ \E s \in Sheds, found \in SUBSET Sessions : Probes(q, s, found)
  \/ Reconciles(q)

RcNext ==
  \/ \E x \in Sessions : Launching(x) \/ Killing(x) \/ SessionEnds(x)
  \/ \E q \in Lists : Refreshing(q)
  \/ \E s \in Sheds : ShedStarts(s) \/ ShedStops(s)

RcSpec == RcInit /\ [][RcNext]_rcVars
-----------------------------------------------------------------------------
RcTypeOK ==
  /\ running \subseteq Sheds
  /\ live \subseteq born /\ born \subseteq Sessions
  /\ store \subseteq Sessions /\ killed \subseteq Sessions
  /\ launch \in [Sessions -> {"none", "guard", "ssh", "created", "ok", "failed"}]
  /\ kill \in [Sessions -> {"idle", "guard", "ssh", "killed", "removing"}]
  /\ list \in [Lists -> Listing]
  /\ guard \subseteq ({"launch", "kill"} \X Sessions) \cup ({"list"} \X Lists)

(* A session that was killed never comes back into the table: no probe     *)
(* that saw it alive is reconciled after the kill, though kill removes its *)
(* row only after giving op_guard back.                                    *)
KilledStaysGone == killed \cap store = {}

(* What makes it inductive: a killed session is dead for good, and no list *)
(* or launch that is under way still carries it.                           *)
KilledIsDead ==
  \A x \in Sessions : x \in killed \/ kill[x] \in {"killed", "removing"} =>
    /\ x \in born /\ x \notin live
    /\ \A q \in Lists : x \notin list[q].fresh
    /\ launch[x] \in {"ok", "failed"}

(* Every row was a real session. *)
RowsAreReal ==
  /\ store \subseteq born
  /\ \A q \in Lists : list[q].fresh \subseteq born
  /\ \A q \in Lists : list[q].pc # "probing" => list[q].fresh = {}
  /\ \A x \in Sessions : /\ launch[x] \in {"none", "guard"} => x \notin born
                         /\ launch[x] \in {"created", "ok"} => x \in born
                         /\ kill[x] # "idle" => x \in born

AtSsh == {<<"launch", x>> : x \in {y \in Sessions : launch[y] \in {"ssh", "created"}}}
           \cup {<<"kill", x>> : x \in {y \in Sessions : kill[y] \in {"ssh", "killed"}}}
           \cup {<<"list", q>> : q \in {p \in Lists : list[p].pc = "probing"}}

(* op_guard is with the one operation that is at its ssh command. *)
Serialised == guard = AtSsh /\ \A g, h \in guard : g = h

RcInv == RcTypeOK /\ KilledStaysGone /\ KilledIsDead /\ RowsAreReal /\ Serialised

(* A filtered refresh leaves the rows of every shed it does not select     *)
(* alone ("a blanket rebuild would wrongly clobber them").                 *)
FilteredKeepsOthers ==
  [][\A q \in Lists : list[q].pc = "probing" /\ list'[q].pc = "idle" /\ list[q].filter # {} =>
       \A x \in Sessions : Home[x] \notin Matches(list[q].filter) => (x \in store' <=> x \in store)]_rcVars
=============================================================================
