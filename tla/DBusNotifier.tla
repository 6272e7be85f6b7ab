---------------------------- MODULE DBusNotifier ----------------------------
(***************************************************************************)
(* The desktop notifier (tauri/src-tauri/src/approval.rs, dbus_notify).    *)
(* Posting is fire-and-forget: the daemon's id of a banner is known only   *)
(* after an asynchronous notify returns, while withdrawals and re-posts of *)
(* the same request go on.  Banners are critical and never expire, so a    *)
(* banner that loses its entry must be closed by someone.                  *)
(*                                                                         *)
(* A post is identified by its generation.  The daemon's id of the banner  *)
(* it raised is only ever compared, so the generation stands for it too.   *)
(* The daemon is external: it raises or refuses a banner, closes the ones  *)
(* it is told to, and lets the user dismiss one.                           *)
(***************************************************************************)
EXTENDS Naturals

CONSTANTS
  Ids,        \* request ids
  NoBanner,   \* notif_id: None
  MaxPosts    \* bound: posts

ASSUME NoBannerAssumption == NoBanner \notin Nat
ASSUME MaxPostsAssumption == MaxPosts \in Nat

VARIABLES
  entries,   \* id -> the tracked banner
  gen,       \* the next generation
  tasks,     \* post tasks that have not reconciled yet
  closing,   \* banners with a close call under way
  banners,   \* banners on the screen
  wanted     \* history: id -> generation of the post not withdrawn since

vars == <<entries, gen, tasks, closing, banners, wanted>>

Entry == [gen: Nat, notif_id: Nat \cup {NoBanner}, withdrawn: BOOLEAN]
Task  == [gen: Nat, id: Ids, call: {"sent", "shown", "failed"}]

With(f, k, v)  == [x \in DOMAIN f \cup {k} |-> IF x = k THEN v ELSE f[x]]
Without(f, k)  == [x \in DOMAIN f \ {k} |-> f[x]]

Init ==
  /\ entries = [x \in {} |-> NoBanner]
  /\ gen = 0
  /\ tasks = {}
  /\ closing = {}
  /\ banners = {}
  /\ wanted = [x \in {} |-> NoBanner]

(* The banner an id has on the screen, as far as its entry knows. *)
Known(id) ==
  IF id \in DOMAIN entries /\ entries[id].notif_id # NoBanner
  THEN {entries[id].notif_id}
  ELSE {}

post(id) ==
  /\ gen < MaxPosts
  /\ entries' = With(entries, id, [gen |-> gen, notif_id |-> NoBanner, withdrawn |-> FALSE])
  /\ closing' = closing \cup Known(id)
  /\ tasks' = tasks \cup {[gen |-> gen, id |-> id, call |-> "sent"]}
  /\ gen' = gen + 1
  /\ wanted' = With(wanted, id, gen)
  /\ UNCHANGED banners

(* The daemon's side of a notify call; the reply is then on its way. *)
NotifyShown(t) ==
  /\ t.call = "sent"
  /\ tasks' = (tasks \ {t}) \cup {[t EXCEPT !.call = "shown"]}
  /\ banners' = banners \cup {t.gen}
  /\ UNCHANGED <<entries, gen, closing, wanted>>

NotifyFailed(t) ==
  /\ t.call = "sent"
  /\ tasks' = (tasks \ {t}) \cup {[t EXCEPT !.call = "failed"]}
  /\ UNCHANGED <<entries, gen, closing, banners, wanted>>

Own(t) == IF t.call = "shown" THEN {t.gen} ELSE {}

(* Mutant of Current: a task takes whatever entry its id has for its own. *)
Current_AnyGen(t) == t.id \in DOMAIN entries

Current(t) == t.id \in DOMAIN entries /\ entries[t.id].gen = t.gen

(* Mutant of Reconcile: a withdrawal that came first is overlooked. *)
Reconcile_IgnoresWithdrawn(t) ==
  /\ t.call # "sent"
  /\ tasks' = tasks \ {t}
  /\ \/ /\ Current(t) /\ t.call = "failed"
        /\ entries' = Without(entries, t.id)
        /\ UNCHANGED closing
     \/ /\ Current(t) /\ t.call = "shown"
        /\ entries' = [entries EXCEPT ![t.id].notif_id = t.gen]
        /\ UNCHANGED closing
     \/ /\ ~Current(t)
        /\ closing' = closing \cup Own(t)
        /\ UNCHANGED entries
  /\ UNCHANGED <<gen, banners, wanted>>

(* The post task's second half, after notify returned. *)
Reconcile(t) ==
  /\ t.call # "sent"
  /\ tasks' = tasks \ {t}
  /\ \/ /\ Current(t) /\ (t.call = "failed" \/ entries[t.id].withdrawn)
        /\ entries' = Without(entries, t.id)
        /\ closing' = closing \cup Own(t)
     \/ /\ Current(t) /\ t.call = "shown" /\ ~entries[t.id].withdrawn
        /\ entries' = [entries EXCEPT ![t.id].notif_id = t.gen]
        /\ UNCHANGED closing
     \/ /\ ~Current(t)
        /\ closing' = closing \cup Own(t)
        /\ UNCHANGED entries
  /\ UNCHANGED <<gen, banners, wanted>>

withdraw(id) ==
  /\ \/ /\ Known(id) # {}
        /\ entries' = Without(entries, id)
        /\ closing' = closing \cup Known(id)
     \/ /\ Known(id) = {} /\ id \in DOMAIN entries
        /\ entries' = [entries EXCEPT ![id].withdrawn = TRUE]
        /\ UNCHANGED closing
     \/ /\ id \notin DOMAIN entries
        /\ UNCHANGED <<entries, closing>>
  /\ wanted' = Without(wanted, id)
  /\ UNCHANGED <<gen, tasks, banners>>

(* A close call reaches the daemon, or the user dismisses a banner. *)
Close(n) ==
  /\ closing' = closing \ {n}
  /\ banners' = banners \ {n}
  /\ UNCHANGED <<entries, gen, tasks, wanted>>

Dismiss(n) ==
  /\ banners' = banners \ {n}
  /\ UNCHANGED <<entries, gen, tasks, closing, wanted>>

Next ==
  \/ \E id \in Ids : post(id)
  \/ \E id \in Ids : withdraw(id)
  \/ \E t \in tasks : NotifyShown(t)
  \/ \E t \in tasks : NotifyFailed(t)
  \/ \E t \in tasks : Reconcile(t)
  \/ \E n \in closing : Close(n)
  \/ \E n \in banners : Dismiss(n)

Spec == Init /\ [][Next]_vars

(* Spawned tasks run and the daemon answers; no one has to post, withdraw  *)
(* or dismiss.                                                             *)
FairSpec ==
  /\ Spec
  /\ WF_vars(\E t \in tasks : NotifyShown(t) \/ NotifyFailed(t))
  /\ WF_vars(\E t \in tasks : Reconcile(t))
  /\ WF_vars(\E n \in closing : Close(n))
-----------------------------------------------------------------------------
TypeOK ==
  /\ DOMAIN entries \subseteq Ids
  /\ \A id \in DOMAIN entries : entries[id] \in Entry
  /\ gen \in Nat
  /\ tasks \subseteq Task
  /\ closing \subseteq Nat
  /\ banners \subseteq Nat
  /\ DOMAIN wanted \subseteq Ids
  /\ \A id \in DOMAIN wanted : wanted[id] \in Nat

(* "Without leaking a banner": every banner on the screen has someone left *)
(* to close it: a close call under way, its own post task, or the entry of *)
(* a request that is still wanted and is waiting for exactly this banner.  *)
NoOrphanBanner ==
  \A n \in banners :
    \/ n \in closing
    \/ \E t \in tasks : t.gen = n
    \/ \E id \in DOMAIN wanted :
         /\ wanted[id] = n
         /\ id \in DOMAIN entries /\ entries[id].notif_id = n

(* The banner of a request that still wants one is never closed: neither a *)
(* late task of a replaced post nor a withdrawal of another request takes  *)
(* it away.                                                                *)
WantedNeverClosed == \A id \in DOMAIN wanted : wanted[id] \notin closing

(* Every number in use comes from a post that was made. *)
Issued ==
  /\ \A t \in tasks : t.gen < gen
  /\ \A n \in closing \cup banners : n < gen
  /\ \A id \in DOMAIN entries : entries[id].gen < gen
  /\ \A id \in DOMAIN wanted : wanted[id] < gen

(* A post belongs to one task, one entry and one request. *)
Distinct ==
  /\ \A t, u \in tasks : t.gen = u.gen => t = u
  /\ \A id, jd \in DOMAIN entries : entries[id].gen = entries[jd].gen => id = jd
  /\ \A id, jd \in DOMAIN wanted : wanted[id] = wanted[jd] => id = jd
  /\ \A t \in tasks, id \in DOMAIN wanted :
       wanted[id] = t.gen => t.id = id /\ id \in DOMAIN entries

(* A task that has not reconciled is the only one that may close its banner. *)
TasksOwn ==
  \A t \in tasks : t.gen \notin closing /\ (t.gen \in banners => t.call = "shown")

(* What an entry says: withdrawn or wanted, with a banner or with a task   *)
(* that will report one.                                                   *)
EntryAgrees(id) ==
  LET e == entries[id]
  IN  /\ e.withdrawn = (id \notin DOMAIN wanted)
      /\ ~e.withdrawn => wanted[id] = e.gen
      /\ e.notif_id \in {NoBanner, e.gen}
      /\ e.notif_id # NoBanner => ~e.withdrawn /\ \A t \in tasks : t.gen # e.gen
      /\ e.notif_id = NoBanner => \E t \in tasks : t.gen = e.gen /\ t.id = id

EntriesAgree == \A id \in DOMAIN entries : EntryAgrees(id)

(* Entries, tasks and history agree; with TypeOK, NoOrphanBanner and       *)
(* WantedNeverClosed this is inductive.                                    *)
Consistent == Issued /\ Distinct /\ TasksOwn /\ EntriesAgree

IInv == TypeOK /\ Consistent /\ NoOrphanBanner /\ WantedNeverClosed

(* A banner whose request was resolved or replaced leaves the screen.      *)
StaleBannerGoesAway ==
  \A n \in 0..(MaxPosts - 1) :
    (n \in banners /\ \A id \in DOMAIN wanted : wanted[id] # n) ~> n \notin banners
=============================================================================
