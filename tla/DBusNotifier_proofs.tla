------------------------- MODULE DBusNotifier_proofs -------------------------
(***************************************************************************)
(* Proofs about DBusNotifier: the inductive invariant and the two safety   *)
(* properties of the desktop notifier, for any number of requests and      *)
(* posts.                                                                  *)
(***************************************************************************)
EXTENDS DBusNotifier, TLAPS

(* A banner an entry knows of is its own, wanted, and free of any task. *)
LEMMA KnownFacts ==
  ASSUME IInv, NEW id, NEW n \in Known(id)
  PROVE  /\ id \in DOMAIN entries /\ entries[id].notif_id = n
         /\ n = entries[id].gen /\ n \in Nat /\ n < gen /\ n # NoBanner
         /\ id \in DOMAIN wanted /\ wanted[id] = n
         /\ \A t \in tasks : t.gen # n
<1>1. id \in DOMAIN entries /\ entries[id].notif_id = n /\ n # NoBanner
  BY DEF Known
<1>2. entries[id] \in Entry /\ EntryAgrees(id) /\ entries[id].gen < gen
  BY <1>1 DEF IInv, TypeOK, Consistent, EntriesAgree, Issued
<1>3. n = entries[id].gen /\ ~entries[id].withdrawn /\ \A t \in tasks : t.gen # n
  BY <1>1, <1>2 DEF EntryAgrees
<1>4. id \in DOMAIN wanted /\ wanted[id] = n
  BY <1>2, <1>3 DEF EntryAgrees, Entry
<1>5. QED BY <1>1, <1>2, <1>3, <1>4 DEF Entry

(* A new post takes a fresh generation; the banner it replaces is handed   *)
(* to a close call, or left to its own task.                               *)
LEMMA PostStep ==
  ASSUME IInv, NEW id \in Ids, post(id)
  PROVE  IInv'
<1> DEFINE e == [gen |-> gen, notif_id |-> NoBanner, withdrawn |-> FALSE]
           u == [gen |-> gen, id |-> id, call |-> "sent"]
<1>1. /\ gen \in Nat /\ gen' = gen + 1 /\ banners' = banners
      /\ tasks' = tasks \cup {u} /\ closing' = closing \cup Known(id)
      /\ entries' = With(entries, id, e) /\ wanted' = With(wanted, id, gen)
  BY DEF post, IInv, TypeOK
<1>2. e \in Entry /\ u \in Task
  BY <1>1 DEF Entry, Task
<1>3. /\ e.gen = gen /\ e.notif_id = NoBanner /\ e.withdrawn = FALSE
      /\ u.gen = gen /\ u.id = id /\ u.call = "sent"
  OBVIOUS
<1> HIDE DEF e, u
<1>4. /\ DOMAIN entries' = DOMAIN entries \cup {id}
      /\ entries'[id] = e
      /\ \A x \in DOMAIN entries : x # id => entries'[x] = entries[x]
      /\ DOMAIN wanted' = DOMAIN wanted \cup {id}
      /\ wanted'[id] = gen
      /\ \A x \in DOMAIN wanted : x # id => wanted'[x] = wanted[x]
  BY <1>1 DEF With
<1>5. \A n \in Known(id) : /\ n \in Nat /\ n < gen
                           /\ id \in DOMAIN wanted /\ wanted[id] = n
                           /\ \A t \in tasks : t.gen # n
  BY KnownFacts
<1>6. TypeOK'
  <2>1. DOMAIN entries' \subseteq Ids /\ \A x \in DOMAIN entries' : entries'[x] \in Entry
    BY <1>2, <1>4 DEF IInv, TypeOK
  <2>2. gen' \in Nat /\ closing' \subseteq Nat /\ banners' \subseteq Nat
    <3>1. gen + 1 \in Nat
      BY <1>1
    <3>2. closing \subseteq Nat /\ banners \subseteq Nat
      BY DEF IInv, TypeOK
    <3>3. QED BY <1>1, <1>5, <3>1, <3>2
  <2>3. tasks' \subseteq Task
    BY <1>1, <1>2 DEF IInv, TypeOK
  <2>4. DOMAIN wanted' \subseteq Ids /\ \A x \in DOMAIN wanted' : wanted'[x] \in Nat
    BY <1>1, <1>4 DEF IInv, TypeOK
  <2>5. QED BY <2>1, <2>2, <2>3, <2>4 DEF TypeOK
<1>7. WantedNeverClosed'
  BY <1>1, <1>4, <1>5 DEF IInv, WantedNeverClosed, Consistent, Issued, Distinct, TypeOK
<1>8. NoOrphanBanner'
  <2> SUFFICES ASSUME NEW n \in banners
               PROVE  \/ n \in closing' \/ \E t \in tasks' : t.gen = n
                      \/ \E x \in DOMAIN wanted' :
                           /\ wanted'[x] = n
                           /\ x \in DOMAIN entries' /\ entries'[x].notif_id = n
    BY <1>1 DEF NoOrphanBanner
  <2>1. CASE n \in closing \/ \E t \in tasks : t.gen = n
    BY <1>1, <2>1
  <2>2. ASSUME NEW x \in DOMAIN wanted, wanted[x] = n, x \in DOMAIN entries,
               entries[x].notif_id = n, x # id
        PROVE  \E y \in DOMAIN wanted' : /\ wanted'[y] = n
                                         /\ y \in DOMAIN entries' /\ entries'[y].notif_id = n
    BY <1>4, <2>2
  <2>3. CASE id \in DOMAIN entries /\ entries[id].notif_id = n
    <3>1. n # NoBanner
      BY NoBannerAssumption DEF IInv, TypeOK
    <3>2. QED BY <1>1, <2>3, <3>1 DEF Known
  <2>4. QED BY <2>1, <2>2, <2>3 DEF IInv, NoOrphanBanner
<1>9. Issued'
  BY <1>1, <1>3, <1>4, <1>5 DEF IInv, Consistent, Issued, TypeOK, Task, Entry
<1>10. Distinct'
  BY <1>1, <1>3, <1>4 DEF IInv, Consistent, Distinct, Issued, TypeOK, Task, Entry
<1>11. TasksOwn'
  BY <1>1, <1>3, <1>5 DEF IInv, Consistent, TasksOwn, Issued, TypeOK, Task
<1>12. EntriesAgree'
  <2>1. EntryAgrees(id)'
    BY <1>1, <1>3, <1>4 DEF EntryAgrees
  <2>2. ASSUME NEW x \in DOMAIN entries, x # id PROVE EntryAgrees(x)'
    <3>1. EntryAgrees(x) /\ entries'[x] = entries[x] /\ entries[x].gen < gen
          /\ entries[x].gen \in Nat /\ entries[x].withdrawn \in BOOLEAN
      BY <1>4, <2>2 DEF IInv, Consistent, EntriesAgree, Issued, TypeOK, Entry
    <3>2. x \in DOMAIN wanted' <=> x \in DOMAIN wanted
      BY <1>4, <2>2
    <3>3. x \in DOMAIN wanted => wanted'[x] = wanted[x]
      BY <1>4, <2>2
    <3>4. entries[x].withdrawn = (x \notin DOMAIN wanted)
      BY <3>1 DEF EntryAgrees
    <3>5. entries'[x].withdrawn = (x \notin DOMAIN wanted')
      BY <3>1, <3>2, <3>4
    <3>6. ~entries'[x].withdrawn => wanted'[x] = entries'[x].gen
      BY <3>1, <3>3, <3>4 DEF EntryAgrees
    <3>7. /\ entries'[x].notif_id \in {NoBanner, entries'[x].gen}
          /\ entries'[x].notif_id # NoBanner
             => ~entries'[x].withdrawn /\ \A t \in tasks' : t.gen # entries'[x].gen
          /\ entries'[x].notif_id = NoBanner
             => \E t \in tasks' : t.gen = entries'[x].gen /\ t.id = x
      BY <1>1, <1>3, <3>1 DEF EntryAgrees
    <3>8. QED BY <3>5, <3>6, <3>7 DEF EntryAgrees
  <2>3. QED BY <1>4, <2>1, <2>2 DEF EntriesAgree
<1>13. QED BY <1>6, <1>7, <1>8, <1>9, <1>10, <1>11, <1>12 DEF IInv, Consistent

(* The daemon's answer changes a task's state, not who may close a banner. *)
LEMMA DaemonStep ==
  ASSUME IInv, NEW t \in tasks, NotifyShown(t) \/ NotifyFailed(t)
  PROVE  IInv'
<1>1. PICK c \in {"shown", "failed"} :
        /\ t.call = "sent"
        /\ tasks' = (tasks \ {t}) \cup {[t EXCEPT !.call = c]}
        /\ banners' = banners \cup (IF c = "shown" THEN {t.gen} ELSE {})
        /\ UNCHANGED <<entries, gen, closing, wanted>>
  BY DEF NotifyShown, NotifyFailed
<1> DEFINE u == [t EXCEPT !.call = c]
<1>2. t \in Task
  BY DEF IInv, TypeOK
<1>3. u \in Task /\ u.gen = t.gen /\ u.id = t.id /\ u.call = c
  BY <1>2 DEF Task
<1>4. tasks' = (tasks \ {t}) \cup {u}
  BY <1>1
<1> HIDE DEF u
<1>5. t.gen \in Nat /\ t.gen < gen /\ t.gen \notin closing /\ t.gen \notin banners
  BY <1>1, <1>2 DEF IInv, Consistent, Issued, TasksOwn, Task
<1>6. \A n : (\E v \in tasks : v.gen = n) <=> (\E v \in tasks' : v.gen = n)
  BY <1>3, <1>4
<1>7. TypeOK'
  BY <1>1, <1>3, <1>4, <1>5 DEF IInv, TypeOK
<1>8. WantedNeverClosed'
  BY <1>1 DEF IInv, WantedNeverClosed
<1>9. NoOrphanBanner'
  <2> SUFFICES ASSUME NEW n \in banners'
               PROVE  \/ n \in closing \/ \E v \in tasks' : v.gen = n
                      \/ \E id \in DOMAIN wanted :
                           /\ wanted[id] = n
                           /\ id \in DOMAIN entries /\ entries[id].notif_id = n
    BY <1>1 DEF NoOrphanBanner
  <2>1. CASE n = t.gen
    BY <1>6, <2>1
  <2>2. CASE n \in banners
    BY <1>6, <2>2 DEF IInv, NoOrphanBanner
  <2>3. QED BY <1>1, <2>1, <2>2
<1>10. Issued'
  BY <1>1, <1>3, <1>4, <1>5 DEF IInv, Consistent, Issued
<1>11. Distinct'
  BY <1>1, <1>3, <1>4 DEF IInv, Consistent, Distinct
<1>12. TasksOwn'
  <2> SUFFICES ASSUME NEW v \in tasks'
               PROVE  v.gen \notin closing /\ (v.gen \in banners' => v.call = "shown")
    BY <1>1 DEF TasksOwn
  <2>1. CASE v = u
    BY <1>1, <1>3, <1>5, <2>1
  <2>2. CASE v \in tasks /\ v # t
    BY <1>1, <2>2 DEF IInv, Consistent, TasksOwn, Distinct
  <2>3. QED BY <1>4, <2>1, <2>2
<1>13. EntriesAgree'
  <2> SUFFICES ASSUME NEW id \in DOMAIN entries PROVE EntryAgrees(id)'
    BY <1>1 DEF EntriesAgree
  <2>1. EntryAgrees(id)
    BY DEF IInv, Consistent, EntriesAgree
  <2>2. \A g : (\E v \in tasks : v.gen = g /\ v.id = id)
               => (\E v \in tasks' : v.gen = g /\ v.id = id)
    BY <1>3, <1>4
  <2>3. QED BY <1>1, <1>6, <2>1, <2>2 DEF EntryAgrees
<1>14. QED BY <1>7, <1>8, <1>9, <1>10, <1>11, <1>12, <1>13 DEF IInv, Consistent

(* A task that reconciles hands its banner to the entry that waits for it, *)
(* or closes it.                                                           *)
LEMMA ReconcileStep ==
  ASSUME IInv, NEW t \in tasks, Reconcile(t)
  PROVE  IInv'
<1>1. /\ t.call # "sent" /\ tasks' = tasks \ {t} /\ UNCHANGED <<gen, banners, wanted>>
  BY DEF Reconcile
<1>2. /\ t \in Task /\ t.gen \in Nat /\ t.gen < gen
      /\ t.gen \in banners => t.call = "shown"
      /\ \A v \in tasks' : v \in tasks /\ v.gen # t.gen
  BY <1>1 DEF IInv, TypeOK, Task, Consistent, Issued, TasksOwn, Distinct
<1>3. Own(t) \subseteq {t.gen} /\ (t.gen \in banners => Own(t) = {t.gen})
  BY <1>2 DEF Own
<1>4. \A id \in DOMAIN entries : EntryAgrees(id) /\ entries[id] \in Entry
  BY DEF IInv, Consistent, EntriesAgree, TypeOK
(* The entry whose task this is, if it is still there, has no banner yet. *)
<1>5. ASSUME Current(t)
      PROVE  /\ t.id \in DOMAIN entries /\ entries[t.id].gen = t.gen
             /\ entries[t.id].notif_id = NoBanner
  BY <1>4, <1>5 DEF Current, EntryAgrees
<1>6. ASSUME NEW id \in DOMAIN entries, id # t.id \/ ~Current(t)
      PROVE  entries[id].gen # t.gen
  <2>1. CASE id = t.id
    BY <1>6, <2>1 DEF Current
  <2>2. CASE id # t.id /\ entries[id].gen = t.gen
    <3>1. CASE entries[id].notif_id = NoBanner
      <4>1. PICK v \in tasks : v.gen = t.gen /\ v.id = id
        BY <1>4, <2>2, <3>1 DEF EntryAgrees
      <4>2. QED BY <2>2, <4>1 DEF IInv, Consistent, Distinct
    <3>2. CASE entries[id].notif_id # NoBanner
      BY <1>4, <2>2, <3>2 DEF EntryAgrees
    <3>3. QED BY <3>1, <3>2
  <2>3. QED BY <2>1, <2>2
(* What is known of an entry that this task has nothing to do with. *)
<1>7. ASSUME NEW id \in DOMAIN entries, id \in DOMAIN entries', entries'[id] = entries[id],
             id # t.id \/ ~Current(t)
      PROVE  EntryAgrees(id)'
  <2>1. EntryAgrees(id) /\ entries[id].gen # t.gen
    BY <1>4, <1>6, <1>7
  <2>2. \A g : g # t.gen /\ (\E v \in tasks : v.gen = g /\ v.id = id)
               => (\E v \in tasks' : v.gen = g /\ v.id = id)
    BY <1>1
  <2>3. QED BY <1>1, <1>7, <2>1, <2>2 DEF EntryAgrees
<1>8. ASSUME closing' = closing \cup Own(t), \A id \in DOMAIN wanted : wanted[id] \notin Own(t),
             DOMAIN entries' \subseteq DOMAIN entries,
             \A id \in DOMAIN entries' : entries'[id] = entries[id] /\ EntryAgrees(id)',
             \A id \in DOMAIN entries \ DOMAIN entries' : 
               entries[id].notif_id = NoBanner /\ entries[id].gen = t.gen
      PROVE  IInv'
  <2>1. TypeOK'
    BY <1>1, <1>2, <1>3, <1>8 DEF IInv, TypeOK
  <2>2. WantedNeverClosed'
    BY <1>1, <1>3, <1>8 DEF IInv, WantedNeverClosed
  <2>3. NoOrphanBanner'
    <3> SUFFICES ASSUME NEW n \in banners
                 PROVE  \/ n \in closing' \/ \E v \in tasks' : v.gen = n
                        \/ \E id \in DOMAIN wanted :
                             /\ wanted[id] = n
                             /\ id \in DOMAIN entries' /\ entries'[id].notif_id = n
      BY <1>1 DEF NoOrphanBanner
    <3>1. n \in Nat /\ n # NoBanner
      BY NoBannerAssumption DEF IInv, TypeOK
    <3>2. CASE n = t.gen
      BY <1>3, <1>8, <3>2
    <3>3. CASE n # t.gen
      BY <1>1, <1>8, <3>1, <3>3 DEF IInv, NoOrphanBanner
    <3>4. QED BY <3>2, <3>3
  <2>4. Issued'
    BY <1>1, <1>2, <1>3, <1>8 DEF IInv, Consistent, Issued
  <2>8. Distinct'
    <3>1. ASSUME NEW v \in tasks', NEW id \in DOMAIN wanted, wanted[id] = v.gen
          PROVE  v.id = id /\ id \in DOMAIN entries'
      <4>1. v \in tasks /\ v.gen # t.gen /\ v.id = id /\ id \in DOMAIN entries
        BY <1>2, <3>1 DEF IInv, Consistent, Distinct
      <4>2. CASE id \notin DOMAIN entries'
        <5>1. /\ entries[id].notif_id = NoBanner /\ EntryAgrees(id) /\ entries[id].gen = t.gen
          BY <1>4, <1>8, <4>1, <4>2
        <5>2. QED BY <1>4, <3>1, <4>1, <5>1 DEF EntryAgrees, Entry
      <4>3. QED BY <4>1, <4>2
    <3>2. QED BY <1>1, <1>8, <3>1 DEF IInv, Consistent, Distinct
  <2>5. TasksOwn'
    BY <1>1, <1>2, <1>3, <1>8 DEF IInv, Consistent, TasksOwn
  <2>6. EntriesAgree'
    BY <1>8 DEF EntriesAgree
  <2>7. QED BY <2>1, <2>2, <2>3, <2>4, <2>5, <2>6, <2>8 DEF IInv, Consistent
<1>9. ASSUME Current(t), t.call = "failed" \/ entries[t.id].withdrawn,
             entries' = Without(entries, t.id), closing' = closing \cup Own(t)
      PROVE  IInv'
  <2>1. /\ DOMAIN entries' = DOMAIN entries \ {t.id}
        /\ \A id \in DOMAIN entries' : entries'[id] = entries[id] /\ EntryAgrees(id)'
    BY <1>7, <1>9 DEF Without
  <2>2. ASSUME NEW id \in DOMAIN wanted, wanted[id] \in Own(t) PROVE FALSE
    <3>1. wanted[id] = t.gen /\ t.call = "shown"
      BY <2>2 DEF Own
    <3>2. t.id = id /\ entries[id].withdrawn
      BY <1>9, <3>1 DEF IInv, Consistent, Distinct
    <3>3. QED BY <1>4, <1>5, <1>9, <2>2, <3>2 DEF EntryAgrees, Entry
  <2>3. QED BY <1>5, <1>8, <1>9, <2>1, <2>2
<1>10. ASSUME ~Current(t), closing' = closing \cup Own(t), UNCHANGED entries
       PROVE  IInv'
  <2>1. \A id \in DOMAIN entries' : entries'[id] = entries[id] /\ EntryAgrees(id)'
    BY <1>7, <1>10
  <2>2. ASSUME NEW id \in DOMAIN wanted, wanted[id] \in Own(t) PROVE FALSE
    <3>1. wanted[id] = t.gen
      BY <2>2 DEF Own
    <3>2. t.id = id /\ id \in DOMAIN entries
      BY <2>2, <3>1 DEF IInv, Consistent, Distinct
    <3>3. EntryAgrees(id) /\ entries[id].withdrawn \in BOOLEAN /\ entries[id].gen # t.gen
      BY <1>4, <1>10, <3>2 DEF Entry, Current
    <3>4. QED BY <2>2, <3>1, <3>3 DEF EntryAgrees
  <2>3. QED BY <1>8, <1>10, <2>1, <2>2
<1>11. ASSUME Current(t), t.call = "shown", ~entries[t.id].withdrawn,
              entries' = [entries EXCEPT ![t.id].notif_id = t.gen], UNCHANGED closing
       PROVE  IInv'
  <2> DEFINE id == t.id
             e == [entries[id] EXCEPT !.notif_id = t.gen]
  <2>1. id \in DOMAIN entries /\ entries[id].gen = t.gen /\ EntryAgrees(id) /\ entries[id] \in Entry
        /\ ~entries[id].withdrawn
    BY <1>4, <1>5, <1>11
  <2>2. e \in Entry /\ e.gen = t.gen /\ e.notif_id = t.gen /\ e.withdrawn = entries[id].withdrawn
    BY <1>2, <2>1 DEF Entry
  <2>3. /\ DOMAIN entries' = DOMAIN entries /\ entries'[id] = e
        /\ \A x \in DOMAIN entries : x # id => entries'[x] = entries[x]
    BY <1>11, <2>1
  <2>4. id \in DOMAIN wanted /\ wanted[id] = t.gen
    BY <2>1 DEF EntryAgrees
  <2> HIDE DEF e
  <2>5. TypeOK'
    BY <1>1, <1>11, <2>2, <2>3 DEF IInv, TypeOK
  <2>6. WantedNeverClosed'
    BY <1>1, <1>11 DEF IInv, WantedNeverClosed
  <2>7. NoOrphanBanner'
    <3> SUFFICES ASSUME NEW n \in banners
                 PROVE  \/ n \in closing \/ \E v \in tasks' : v.gen = n
                        \/ \E x \in DOMAIN wanted :
                             /\ wanted[x] = n
                             /\ x \in DOMAIN entries /\ entries'[x].notif_id = n
      BY <1>1, <1>11, <2>3 DEF NoOrphanBanner
    <3>1. CASE n = t.gen
      BY <2>1, <2>2, <2>3, <2>4, <3>1
    <3>2. CASE n # t.gen
      BY <1>1, <2>3, <2>4, <3>2 DEF IInv, NoOrphanBanner
    <3>3. QED BY <3>1, <3>2
  <2>8. Issued'
    BY <1>1, <1>2, <1>11, <2>2, <2>3 DEF IInv, Consistent, Issued
  <2>9. Distinct'
    BY <1>1, <1>2, <2>1, <2>2, <2>3 DEF IInv, Consistent, Distinct
  <2>10. TasksOwn'
    BY <1>1, <1>2, <1>11 DEF IInv, Consistent, TasksOwn
  <2>11. EntriesAgree'
    <3>1. EntryAgrees(id)'
      BY <1>1, <1>2, <2>1, <2>2, <2>3, <2>4, NoBannerAssumption DEF EntryAgrees
    <3>2. ASSUME NEW x \in DOMAIN entries, x # id PROVE EntryAgrees(x)'
      BY <1>7, <2>3, <3>2
    <3>3. QED BY <2>3, <3>1, <3>2 DEF EntriesAgree
  <2>12. QED BY <2>5, <2>6, <2>7, <2>8, <2>9, <2>10, <2>11 DEF IInv, Consistent
<1>12. QED BY <1>9, <1>10, <1>11 DEF Reconcile

(* A withdrawal takes the known banner down, or leaves the one in flight to *)
(* its task.                                                                *)
LEMMA WithdrawStep ==
  ASSUME IInv, NEW id \in Ids, withdraw(id)
  PROVE  IInv'
<1>1. /\ UNCHANGED <<gen, tasks, banners>>
      /\ DOMAIN wanted' = DOMAIN wanted \ {id}
      /\ \A x \in DOMAIN wanted' : wanted'[x] = wanted[x]
      /\ closing' = closing \cup Known(id)
  <2>1. id \notin DOMAIN entries => Known(id) = {}
    BY DEF Known
  <2>2. closing' = closing \cup Known(id)
    BY <2>1 DEF withdraw
  <2>3. QED BY <2>2 DEF withdraw, Without
<1>2. \A n \in Known(id) : /\ n \in Nat /\ n < gen
                           /\ id \in DOMAIN wanted /\ wanted[id] = n
                           /\ \A t \in tasks : t.gen # n
  BY KnownFacts
<1>3. /\ DOMAIN entries' = IF Known(id) = {} THEN DOMAIN entries ELSE DOMAIN entries \ {id}
      /\ \A x \in DOMAIN entries : x # id => entries'[x] = entries[x]
  BY DEF withdraw, Without
<1>4. ASSUME id \in DOMAIN entries'
      PROVE  /\ id \in DOMAIN entries /\ entries'[id] = [entries[id] EXCEPT !.withdrawn = TRUE]
             /\ entries[id].notif_id = NoBanner
  BY <1>3, <1>4 DEF withdraw, Known
<1>5. ASSUME NEW x \in DOMAIN entries'
      PROVE  /\ x \in DOMAIN entries /\ entries'[x] \in Entry
             /\ entries'[x].gen = entries[x].gen /\ entries'[x].notif_id = entries[x].notif_id
  <2>1. x \in DOMAIN entries /\ entries[x] \in Entry
    BY <1>3, <1>5 DEF IInv, TypeOK
  <2>2. [entries[x] EXCEPT !.withdrawn = TRUE] \in Entry
    BY <2>1 DEF Entry
  <2>3. QED BY <1>3, <1>4, <1>5, <2>1, <2>2, ZenonT(60) DEF Entry
<1>6. TypeOK'
  BY <1>1, <1>2, <1>3, <1>5 DEF IInv, TypeOK
<1>7. WantedNeverClosed'
  BY <1>1, <1>2 DEF IInv, WantedNeverClosed, Consistent, Distinct
<1>8. NoOrphanBanner'
  <2> SUFFICES ASSUME NEW n \in banners
               PROVE  \/ n \in closing' \/ \E t \in tasks : t.gen = n
                      \/ \E x \in DOMAIN wanted' :
                           /\ wanted'[x] = n
                           /\ x \in DOMAIN entries' /\ entries'[x].notif_id = n
    BY <1>1 DEF NoOrphanBanner
  <2>1. n \in Nat /\ n # NoBanner
    BY NoBannerAssumption DEF IInv, TypeOK
  <2>2. CASE id \in DOMAIN entries /\ entries[id].notif_id = n
    BY <1>1, <2>1, <2>2 DEF Known
  <2>3. CASE ~(id \in DOMAIN entries /\ entries[id].notif_id = n)
    BY <1>1, <1>3, <2>1, <2>3 DEF IInv, NoOrphanBanner
  <2>4. QED BY <2>2, <2>3
<1>9. Issued'
  BY <1>1, <1>2, <1>5 DEF IInv, Consistent, Issued
<1>10. Distinct'
  BY <1>1, <1>3, <1>5 DEF IInv, Consistent, Distinct
<1>11. TasksOwn'
  BY <1>1, <1>2 DEF IInv, Consistent, TasksOwn
<1>12. EntriesAgree'
  <2>1. ASSUME id \in DOMAIN entries' PROVE EntryAgrees(id)'
    <3>1. /\ EntryAgrees(id) /\ entries[id] \in Entry /\ entries[id].notif_id = NoBanner
      BY <1>4, <2>1 DEF IInv, Consistent, EntriesAgree, TypeOK
    <3>2. entries'[id].withdrawn = TRUE
      BY <1>4, <2>1, <3>1 DEF Entry
    <3>3. QED BY <1>1, <1>5, <2>1, <3>1, <3>2 DEF EntryAgrees
  <2>2. ASSUME NEW x \in DOMAIN entries', x # id PROVE EntryAgrees(x)'
    <3>1. EntryAgrees(x) /\ entries'[x] = entries[x] /\ entries[x] \in Entry
      BY <1>3, <1>5, <2>2 DEF IInv, Consistent, EntriesAgree, TypeOK
    <3>2. /\ x \in DOMAIN wanted' <=> x \in DOMAIN wanted
          /\ x \in DOMAIN wanted => wanted'[x] = wanted[x]
      BY <1>1, <2>2
    <3>3. entries'[x].withdrawn = (x \notin DOMAIN wanted')
      BY <3>1, <3>2 DEF EntryAgrees
    <3>4. QED BY <1>1, <3>1, <3>2, <3>3 DEF EntryAgrees, Entry
  <2>3. QED BY <2>1, <2>2 DEF EntriesAgree
<1>13. QED BY <1>6, <1>7, <1>8, <1>9, <1>10, <1>11, <1>12 DEF IInv, Consistent

(* The inductive invariant of the notifier. *)
THEOREM NotifierInvariance == Spec => []IInv
<1>1. Init => IInv
  BY DEF Init, IInv, TypeOK, NoOrphanBanner, WantedNeverClosed, Consistent, Issued,
         Distinct, TasksOwn, EntriesAgree
<1>2. IInv /\ [Next]_vars => IInv'
  <2> SUFFICES ASSUME IInv, [Next]_vars PROVE IInv'
    OBVIOUS
  <2>1. ASSUME closing' \subseteq closing, banners' \subseteq banners,
               \A n \in closing \ closing' : n \notin banners',
               UNCHANGED <<entries, gen, tasks, wanted>>
        PROVE  IInv'
    <3>1. TypeOK' /\ WantedNeverClosed' /\ NoOrphanBanner'
      BY <2>1 DEF IInv, TypeOK, WantedNeverClosed, NoOrphanBanner
    <3>2. Issued' /\ Distinct' /\ TasksOwn'
      BY <2>1 DEF IInv, Consistent, Issued, Distinct, TasksOwn
    <3>3. EntriesAgree'
      BY <2>1 DEF IInv, Consistent, EntriesAgree, EntryAgrees
    <3>4. QED BY <3>1, <3>2, <3>3 DEF IInv, Consistent
  <2>2. ASSUME NEW n \in closing, Close(n) PROVE IInv'
    BY <2>1, <2>2 DEF Close
  <2>3. ASSUME NEW n \in banners, Dismiss(n) PROVE IInv'
    BY <2>1, <2>3 DEF Dismiss
  <2>4. CASE UNCHANGED vars
    BY <2>1, <2>4 DEF vars
  <2>5. QED BY <2>2, <2>3, <2>4, PostStep, WithdrawStep, DaemonStep, ReconcileStep DEF Next
<1>3. QED BY <1>1, <1>2, PTL DEF Spec

(* No banner is leaked: each one on the screen is the one its waiting      *)
(* request knows, or is about to be closed.                                *)
THEOREM NoBannerLeaks == Spec => []NoOrphanBanner
<1>1. IInv => NoOrphanBanner
  BY DEF IInv
<1>2. QED BY <1>1, NotifierInvariance, PTL

(* The banner of a waiting request is never closed by a late task or a     *)
(* withdrawal of something else.                                           *)
THEOREM NoBannerLost == Spec => []WantedNeverClosed
<1>1. IInv => WantedNeverClosed
  BY DEF IInv
<1>2. QED BY <1>1, NotifierInvariance, PTL
==============================================================================
