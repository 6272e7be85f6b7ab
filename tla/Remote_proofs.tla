---------------------------- MODULE Remote_proofs ---------------------------
(***************************************************************************)
(* Proofs about reaching the sheds: the control token of a server          *)
(* (ControlToken), for every number of requests and every clock, the       *)
(* remote-control sessions (RcService), for any number of sheds, sessions  *)
(* and callers, and the quoting of an ssh command (CommandLine), for all   *)
(* names and alphabets.                                                    *)
(***************************************************************************)
EXTENDS ControlToken, RcService, CommandLine, TLAPS

(* No request has begun, nothing is cached and the mutex is free. *)
LEMMA InitEstablishes == Init => IInv
BY TokenAssumption
DEF Init, IInv, TypeOK, Issued, LockFollowsMint, Minting, FreshRetry, RetryPrepared,
    AttemptsBounded, Request, None

(* A request that begins, is served from the cache or starts a mint. *)
LEMMA TokenStep ==
  ASSUME NEW r \in Reqs, IInv, Begins(r) \/ UsesCache(r) \/ StartsMint(r)
  PROVE  IInv'
<1> USE DEF IInv
<1>1. TypeOK'
  BY DEF TypeOK, Begins, UsesCache, StartsMint, Request, MintedToken, Usable
<1>2. Issued'
  BY DEF TypeOK, Issued, Begins, UsesCache, StartsMint, Request, Usable
<1>3. LockFollowsMint'
  BY DEF TypeOK, LockFollowsMint, Minting, Begins, UsesCache, StartsMint, Request
<1>4. FreshRetry'
  BY DEF TypeOK, FreshRetry, RetryPrepared, Begins, UsesCache, StartsMint, Request, Usable
<1>5. RetryPrepared'
  BY DEF TypeOK, RetryPrepared, AttemptsBounded, Begins, UsesCache, StartsMint, Request
<1>6. AttemptsBounded'
  BY DEF TypeOK, AttemptsBounded, Begins, UsesCache, StartsMint, Request
<1> QED BY <1>1, <1>2, <1>3, <1>4, <1>5, <1>6

(* A mint: issued, delivered, failed, or abandoned by a cancellation. *)
LEMMA MintStep ==
  ASSUME NEW r \in Reqs, IInv,
         Issues(r) \/ MintFails(r) \/ Cancelled(r) \/ \E exp \in Expiries : Minted(r, exp)
  PROVE  IInv'
<1> USE DEF IInv
<1>1. TypeOK'
  BY DEF TypeOK, Issues, Minted, MintFails, Cancelled, Request, MintedToken, None
<1>2. Issued'
  BY DEF TypeOK, Issued, Issues, Minted, MintFails, Cancelled, Request, None
<1>3. LockFollowsMint'
  BY DEF TypeOK, LockFollowsMint, Minting, Issues, Minted, MintFails, Cancelled, Request
<1>4. FreshRetry'
  BY DEF TypeOK, FreshRetry, RetryPrepared, Issues, Minted, MintFails, Cancelled, Request,
         None
<1>5. RetryPrepared'
  BY DEF TypeOK, RetryPrepared, Issued, Issues, Minted, MintFails, Cancelled, Request
<1>6. AttemptsBounded'
  BY DEF TypeOK, AttemptsBounded, Issues, Minted, MintFails, Cancelled, Request
<1> QED BY <1>1, <1>2, <1>3, <1>4, <1>5, <1>6

(* The server's answer. *)
LEMMA AnswerStep ==
  ASSUME NEW r \in Reqs, IInv, Answered(r)
  PROVE  IInv'
<1> USE DEF IInv, Answered
<1>1. TypeOK'
  BY DEF TypeOK, AttemptsBounded, Accepted, Refused, SendFails, Request
<1>2. Issued'
  BY DEF TypeOK, Issued, Accepted, Refused, SendFails, Request
<1>3. LockFollowsMint'
  BY DEF TypeOK, LockFollowsMint, Minting, Accepted, Refused, SendFails, Request
<1>4. FreshRetry'
  BY DEF TypeOK, FreshRetry, Accepted, Refused, SendFails, Request
<1>5. RetryPrepared'
  BY DEF TypeOK, RetryPrepared, Accepted, Refused, SendFails, Request
<1>6. AttemptsBounded'
  BY TokenAssumption DEF TypeOK, AttemptsBounded, Accepted, Refused, SendFails, Request, Reqs
<1> QED BY <1>1, <1>2, <1>3, <1>4, <1>5, <1>6

(* The invalidation waits for the mutex: nobody mints, the cache is empty. *)
LEMMA InvalidateStep ==
  ASSUME NEW r \in Reqs, IInv, invalidate(r)
  PROVE  IInv'
<1> USE DEF IInv
<1>1. TypeOK'
  BY DEF TypeOK, invalidate, Request
<1>2. Issued'
  BY DEF TypeOK, Issued, invalidate, Request
<1>3. LockFollowsMint'
  BY DEF TypeOK, LockFollowsMint, Minting, invalidate, Request
<1>4. FreshRetry'
  BY DEF TypeOK, FreshRetry, invalidate, Request
<1>5. RetryPrepared'
  <2>1. \A s \in Reqs : req[s].pc # "issued"
    BY DEF LockFollowsMint, Minting, invalidate
  <2> QED BY <2>1 DEF TypeOK, RetryPrepared, invalidate, Request
<1>6. AttemptsBounded'
  BY DEF TypeOK, AttemptsBounded, invalidate, Request
<1> QED BY <1>1, <1>2, <1>3, <1>4, <1>5, <1>6

(* The inductive invariant: types, single flight, and a retry that is      *)
(* always prepared.                                                        *)
THEOREM TokenInvariance == Spec => []IInv
<1>1. IInv /\ [Next]_vars => IInv'
  <2> SUFFICES ASSUME IInv, [Next]_vars PROVE IInv'
    OBVIOUS
  <2>1. CASE Tick
    BY <2>1 DEF Tick, IInv, TypeOK, Issued, LockFollowsMint, Minting, FreshRetry,
                RetryPrepared, AttemptsBounded
  <2>2. CASE UNCHANGED vars
    BY <2>2 DEF vars, IInv, TypeOK, Issued, LockFollowsMint, Minting, FreshRetry,
                RetryPrepared, AttemptsBounded
  <2>3. ASSUME NEW r \in Reqs,
               \/ Begins(r) \/ UsesCache(r) \/ StartsMint(r) \/ Issues(r)
               \/ MintEnds(r) \/ Answered(r) \/ invalidate(r) \/ Cancelled(r)
        PROVE  IInv'
    BY <2>3, TokenStep, MintStep, AnswerStep, InvalidateStep DEF MintEnds
  <2> QED BY <2>1, <2>2, <2>3 DEF Next
<1> QED BY InitEstablishes, <1>1, PTL DEF Spec

(* After a 401, request's second attempt carries a token issued after that *)
(* answer, or none.                                                        *)
THEOREM RetryIsFresh == Spec => []FreshRetry
BY TokenInvariance, PTL DEF IInv

(* token() mints for one request at a time, and nobody else ever holds the *)
(* mutex across an await.                                                  *)
THEOREM SingleFlight == Spec => []LockFollowsMint
BY TokenInvariance, PTL DEF IInv

(* bearer() never falls back: what goes out is the request's own mint, a   *)
(* cached token outside its refresh window, or nothing.                    *)
THEOREM NoDowngrade == Spec => SendsFreshTokenOrNone
<1>1. IInv /\ [Next]_vars =>
        [\A r \in Reqs : req[r].pc # "sending" /\ req'[r].pc = "sending" =>
           \/ req'[r].tok = None
           \/ req[r].pc = "issued" /\ req'[r].tok = req[r].tok
           \/ \E t \in cached : /\ t.num = req'[r].tok
                                /\ \A e \in t.exp : now + Window < e]_vars
  <2> SUFFICES ASSUME IInv, Next, NEW r \in Reqs,
                      req[r].pc # "sending", req'[r].pc = "sending"
               PROVE  \/ req'[r].tok = None
                      \/ req[r].pc = "issued" /\ req'[r].tok = req[r].tok
                      \/ \E t \in cached : /\ t.num = req'[r].tok
                                           /\ \A e \in t.exp : now + Window < e
    OBVIOUS
  <2> USE DEF IInv, TypeOK, Request
  <2>1. CASE Tick BY <2>1 DEF Tick
  <2>2. ASSUME NEW s \in Reqs, Begins(s) \/ StartsMint(s) \/ Issues(s) \/ Answered(s)
                                 \/ invalidate(s) \/ Cancelled(s)
        PROVE  FALSE
    BY <2>2 DEF Begins, StartsMint, Issues, Answered, Accepted, Refused, SendFails,
                invalidate, Cancelled
  <2>3. ASSUME NEW s \in Reqs, MintEnds(s)
        PROVE  req'[r].tok = None \/ (req[r].pc = "issued" /\ req'[r].tok = req[r].tok)
    BY <2>3 DEF MintEnds, MintFails, Minted
  <2>4. ASSUME NEW s \in Reqs, UsesCache(s)
        PROVE  \E t \in cached : t.num = req'[r].tok /\ \A e \in t.exp : now + Window < e
    <3>1. PICK t \in Usable : req' = [req EXCEPT ![s].pc = "sending", ![s].tok = t.num]
      BY <2>4 DEF UsesCache
    <3>2. s = r
      BY <3>1
    <3>3. t \in cached /\ \A e \in t.exp : now + Window < e
      BY <3>1, TokenAssumption DEF Usable, needs_refresh, MintedToken, Expiries
    <3> QED BY <3>1, <3>2, <3>3
  <2> QED BY <2>1, <2>2, <2>3, <2>4 DEF Next
<1> QED BY <1>1, TokenInvariance, PTL DEF Spec, SendsFreshTokenOrNone

-----------------------------------------------------------------------------
(* Remote-control sessions. *)

(* No list is under way: what an idle caller is given is in order. *)
LEMMA IdleTyped == Idle \in Listing
<1>1. {} \in Filters
  BY DEF Filters
<1>2. QED BY <1>1 DEF Idle, Listing

(* At first there are no sessions and nobody holds the mutex. *)
LEMMA RcInitEstablishes == RcInit => RcInv
<1> SUFFICES ASSUME RcInit PROVE RcInv
  OBVIOUS
<1>1. RcTypeOK
  BY IdleTyped DEF RcInit, RcTypeOK
<1>2. KilledStaysGone /\ KilledIsDead /\ RowsAreReal
  BY DEF RcInit, KilledStaysGone, KilledIsDead, RowsAreReal, Idle
<1>3. Serialised
  BY DEF RcInit, Serialised, AtSsh, Idle
<1> QED BY <1>1, <1>2, <1>3 DEF RcInv

(* Who is at ssh holds the mutex, and then nobody else is. *)
LEMMA Exclusion ==
  ASSUME RcInv
  PROVE  /\ \A x \in Sessions : launch[x] \in {"ssh", "created"} => <<"launch", x>> \in guard
         /\ \A x \in Sessions : kill[x] \in {"ssh", "killed"} => <<"kill", x>> \in guard
         /\ \A q \in Lists : list[q].pc = "probing" => <<"list", q>> \in guard
         /\ \A x \in Sessions, q \in Lists :
              ~(kill[x] \in {"ssh", "killed"} /\ list[q].pc = "probing")
         /\ \A x, y \in Sessions :
              ~(kill[x] \in {"ssh", "killed"} /\ launch[y] \in {"ssh", "created"})
<1>1. \A x \in Sessions : launch[x] \in {"ssh", "created"} => <<"launch", x>> \in guard
  BY DEF RcInv, Serialised, AtSsh
<1>2. \A x \in Sessions : kill[x] \in {"ssh", "killed"} => <<"kill", x>> \in guard
  BY DEF RcInv, Serialised, AtSsh
<1>3. \A q \in Lists : list[q].pc = "probing" => <<"list", q>> \in guard
  BY DEF RcInv, Serialised, AtSsh
<1>4. \A g, h \in guard : g = h
  BY DEF RcInv, Serialised
<1>5. \A x \in Sessions, q \in Lists : <<"kill", x>> # <<"list", q>>
  OBVIOUS
<1>6. \A x, y \in Sessions : <<"kill", x>> # <<"launch", y>>
  OBVIOUS
<1> QED BY <1>1, <1>2, <1>3, <1>4, <1>5, <1>6

(* One operation takes the free mutex, keeps it, or gives it back. *)
LEMMA SerialisedStep ==
  ASSUME RcInv, RcNext
  PROVE  Serialised'
<1> USE DEF RcInv
<1>1. ASSUME NEW x \in Sessions, Launching(x)
      PROVE  Serialised'
  <2>1. CASE LaunchBegins(x) \/ RemoteCreates(x)
    BY <2>1 DEF LaunchBegins, RemoteCreates, Serialised, AtSsh, RcTypeOK
  <2>2. CASE LaunchRuns(x)
    BY <2>2 DEF LaunchRuns, Serialised, AtSsh, RcTypeOK
  <2>3. CASE LaunchOk(x) \/ LaunchFails(x)
    <3>1. guard = {<<"launch", x>>}
      BY <2>3, Exclusion DEF LaunchOk, LaunchFails, Serialised
    <3> QED BY <2>3, <3>1 DEF LaunchOk, LaunchFails, Serialised, AtSsh, RcTypeOK
  <2> QED BY <1>1, <2>1, <2>2, <2>3 DEF Launching
<1>2. ASSUME NEW x \in Sessions, Killing(x)
      PROVE  Serialised'
  <2>1. CASE KillBegins(x) \/ RemoteKills(x) \/ KillRemoves(x)
    BY <2>1 DEF KillBegins, RemoteKills, KillRemoves, Serialised, AtSsh, RcTypeOK
  <2>2. CASE KillRuns(x)
    BY <2>2 DEF KillRuns, Serialised, AtSsh, RcTypeOK
  <2>3. CASE KillOk(x) \/ KillFails(x)
    <3>1. guard = {<<"kill", x>>}
      BY <2>3, Exclusion DEF KillOk, KillFails, Serialised
    <3> QED BY <2>3, <3>1 DEF KillOk, KillFails, Serialised, AtSsh, RcTypeOK
  <2> QED BY <1>2, <2>1, <2>2, <2>3 DEF Killing
<1>3. ASSUME NEW q \in Lists, Refreshing(q)
      PROVE  Serialised'
  <2>1. ASSUME NEW f \in Filters, NEW targets \in SUBSET Sheds,
               rc_targets(q, f, targets)
        PROVE  Serialised'
    BY <2>1 DEF rc_targets, Idle, Serialised, AtSsh, RcTypeOK, Listing
  <2>2. CASE ListRuns(q)
    BY <2>2 DEF ListRuns, Serialised, AtSsh, RcTypeOK, Listing
  <2>3. ASSUME NEW s \in Sheds, NEW found \in SUBSET Sessions, Probes(q, s, found)
        PROVE  Serialised'
    BY <2>3 DEF Probes, Serialised, AtSsh, RcTypeOK, Listing
  <2>4. CASE Reconciles(q)
    <3>1. guard = {<<"list", q>>}
      BY <2>4, Exclusion DEF Reconciles, Serialised
    <3> QED BY <2>4, <3>1 DEF Reconciles, Idle, Serialised, AtSsh, RcTypeOK, Listing
  <2> QED BY <1>3, <2>1, <2>2, <2>3, <2>4 DEF Refreshing
<1>4. ASSUME \/ \E x \in Sessions : SessionEnds(x)
             \/ \E s \in Sheds : ShedStarts(s) \/ ShedStops(s)
      PROVE  Serialised'
  BY <1>4 DEF SessionEnds, ShedStarts, ShedStops, Serialised, AtSsh
<1> QED BY <1>1, <1>2, <1>3, <1>4 DEF RcNext

(* The types, step by step. *)
LEMMA TypeStep ==
  ASSUME RcInv, RcNext
  PROVE  RcTypeOK'
<1> USE DEF RcInv, RcTypeOK
<1>1. ASSUME NEW x \in Sessions, Launching(x)
      PROVE  RcTypeOK'
  BY <1>1, RcAssumption
  DEF Launching, LaunchBegins, LaunchRuns, RemoteCreates, LaunchOk, LaunchFails
<1>2. ASSUME NEW x \in Sessions, Killing(x)
      PROVE  RcTypeOK'
  BY <1>2 DEF Killing, KillBegins, KillRuns, RemoteKills, KillOk, KillFails, KillRemoves
<1>3. ASSUME NEW q \in Lists, Refreshing(q)
      PROVE  RcTypeOK'
  <2>1. ASSUME NEW f \in Filters, NEW targets \in SUBSET Sheds,
               rc_targets(q, f, targets)
        PROVE  RcTypeOK'
    BY <2>1 DEF rc_targets, Idle, Listing
  <2>2. CASE ListRuns(q)
    BY <2>2, SMTT(60) DEF ListRuns, Listing
  <2>3. ASSUME NEW s \in Sheds, NEW found \in SUBSET Sessions, Probes(q, s, found)
        PROVE  RcTypeOK'
    <3>1. list' \in [Lists -> Listing]
      <4>1. list[q] \in Listing
        OBVIOUS
      <4>2. [list[q] EXCEPT !.left = @ \ {s}, !.fresh = @ \cup found] \in Listing
        BY <4>1 DEF Listing
      <4> QED BY <2>3, <4>2 DEF Probes
    <3> QED BY <2>3, <3>1 DEF Probes
  <2>4. CASE Reconciles(q)
    <3>1. store' \subseteq Sessions
      BY <2>4 DEF Reconciles, Reconciled, Listing
    <3>2. list' \in [Lists -> Listing]
      BY <2>4, IdleTyped DEF Reconciles
    <3> QED BY <2>4, <3>1, <3>2 DEF Reconciles
  <2> QED BY <1>3, <2>1, <2>2, <2>3, <2>4 DEF Refreshing
<1>4. ASSUME \/ \E x \in Sessions : SessionEnds(x)
             \/ \E s \in Sheds : ShedStarts(s) \/ ShedStops(s)
      PROVE  RcTypeOK'
  BY <1>4 DEF SessionEnds, ShedStarts, ShedStops
<1> QED BY <1>1, <1>2, <1>3, <1>4 DEF RcNext

(* Rows and killed sessions, step by step. *)
LEMMA RowStep ==
  ASSUME RcInv, RcNext
  PROVE  KilledStaysGone' /\ KilledIsDead' /\ RowsAreReal'
<1> DEFINE Rows == KilledStaysGone /\ KilledIsDead /\ RowsAreReal
<1> SUFFICES Rows'
  OBVIOUS
<1> USE DEF RcInv, RcTypeOK, KilledStaysGone, KilledIsDead, RowsAreReal
<1>1. ASSUME NEW x \in Sessions, Launching(x)
      PROVE  Rows'
  <2>1. CASE RemoteCreates(x)
    <3>1. x \notin killed /\ kill[x] \notin {"killed", "removing"}
      BY <2>1 DEF RemoteCreates
    <3>2. KilledStaysGone' /\ KilledIsDead'
      BY <2>1, <3>1 DEF RemoteCreates
    <3>3. RowsAreReal'
      BY <2>1 DEF RemoteCreates
    <3> QED BY <3>2, <3>3
  <2>2. CASE LaunchBegins(x) \/ LaunchRuns(x)
    BY <2>2 DEF LaunchBegins, LaunchRuns
  <2>3. CASE LaunchOk(x)
    BY <2>3 DEF LaunchOk
  <2>4. CASE LaunchFails(x)
    BY <2>4 DEF LaunchFails
  <2> QED BY <1>1, <2>1, <2>2, <2>3, <2>4 DEF Launching
<1>2. ASSUME NEW x \in Sessions, Killing(x)
      PROVE  Rows'
  <2>1. CASE RemoteKills(x)
    BY <2>1, Exclusion DEF RemoteKills
  <2>2. CASE KillBegins(x) \/ KillRuns(x) \/ KillOk(x) \/ KillFails(x) \/ KillRemoves(x)
    BY <2>2 DEF KillBegins, KillRuns, KillOk, KillFails, KillRemoves
  <2> QED BY <1>2, <2>1, <2>2 DEF Killing
<1>3. ASSUME NEW q \in Lists, Refreshing(q)
      PROVE  Rows'
  <2>1. ASSUME NEW f \in Filters, NEW targets \in SUBSET Sheds,
               rc_targets(q, f, targets)
        PROVE  Rows'
    BY <2>1 DEF rc_targets, Idle, Listing
  <2>2. CASE ListRuns(q)
    BY <2>2 DEF ListRuns, Listing
  <2>3. ASSUME NEW s \in Sheds, NEW found \in SUBSET Sessions, Probes(q, s, found)
        PROVE  Rows'
    <3>1. found \subseteq live
      BY <2>3 DEF Probes
    <3> QED BY <2>3, <3>1 DEF Probes, Listing
  <2>4. CASE Reconciles(q)
    BY <2>4 DEF Reconciles, Reconciled, Idle, Listing
  <2> QED BY <1>3, <2>1, <2>2, <2>3, <2>4 DEF Refreshing
<1>4. ASSUME \/ \E x \in Sessions : SessionEnds(x)
             \/ \E s \in Sheds : ShedStarts(s) \/ ShedStops(s)
      PROVE  Rows'
  BY <1>4 DEF SessionEnds, ShedStarts, ShedStops
<1> QED BY <1>1, <1>2, <1>3, <1>4 DEF RcNext

(* The inductive invariant of the session table. *)
THEOREM RcInvariance == RcSpec => []RcInv
<1>1. RcInv /\ [RcNext]_rcVars => RcInv'
  <2> SUFFICES ASSUME RcInv, [RcNext]_rcVars PROVE RcInv'
    OBVIOUS
  <2>1. CASE RcNext
    BY <2>1, SerialisedStep, TypeStep, RowStep DEF RcInv
  <2>2. CASE UNCHANGED rcVars
    BY <2>2 DEF rcVars, RcInv, RcTypeOK, KilledStaysGone, KilledIsDead, RowsAreReal,
                Serialised, AtSsh
  <2> QED BY <2>1, <2>2
<1> QED BY RcInitEstablishes, <1>1, PTL DEF RcSpec

(* After kill has returned success, its session is in no later table.      *)
THEOREM KilledNeverReturns == RcSpec => []KilledStaysGone
BY RcInvariance, PTL DEF RcInv
-----------------------------------------------------------------------------
(* A list probes nothing outside its filter, and what it has collected     *)
(* comes from what it probes.                                              *)
ListInv ==
  /\ list \in [Lists -> Listing]
  /\ \A q \in Lists : /\ list[q].targets \subseteq Matches(list[q].filter)
                      /\ list[q].left \subseteq list[q].targets
                      /\ \A x \in list[q].fresh : x \in Sessions /\ Home[x] \in list[q].targets

(* Only the caller of a list changes it, and only within its filter. *)
LEMMA StepList ==
  ASSUME RcInv, ListInv, [RcNext]_rcVars
  PROVE  ListInv'
<1>1. list' \in [Lists -> Listing]
  <2>1. CASE RcNext
    BY <2>1, TypeStep DEF RcTypeOK
  <2>2. QED BY <2>1 DEF rcVars, ListInv
<1>2. CASE list' = list
  BY <1>2 DEF ListInv
<1>3. ASSUME NEW q \in Lists, Refreshing(q) PROVE ListInv'
  <2>1. ASSUME NEW f \in Filters, NEW targets \in SUBSET Sheds, rc_targets(q, f, targets)
        PROVE  ListInv'
    BY <1>1, <2>1 DEF rc_targets, Idle, ListInv, Matches
  <2>2. CASE ListRuns(q)
    BY <1>1, <2>2 DEF ListRuns, ListInv, Listing
  <2>3. ASSUME NEW s \in Sheds, NEW found \in SUBSET Sessions, Probes(q, s, found)
        PROVE  ListInv'
    <3> DEFINE l == [list[q] EXCEPT !.left = @ \ {s}, !.fresh = @ \cup found]
    <3>1. list[q] \in Listing /\ s \in list[q].left /\ s \in list[q].targets
      BY <2>3 DEF Probes, ListInv
    <3>2. /\ l.filter = list[q].filter /\ l.targets = list[q].targets
          /\ l.left = list[q].left \ {s} /\ l.fresh = list[q].fresh \cup found
      BY <3>1 DEF Listing
    <3>3. list' = [list EXCEPT ![q] = l]
      BY <2>3 DEF Probes, ListInv
    <3>4. \A x \in found : x \in Sessions /\ Home[x] = s
      BY <2>3 DEF Probes, In
    <3> HIDE DEF l
    <3>5. QED BY <1>1, <3>1, <3>2, <3>3, <3>4 DEF ListInv
  <2>4. CASE Reconciles(q)
    BY <1>1, <2>4 DEF Reconciles, Idle, ListInv
  <2>5. QED BY <1>3, <2>1, <2>2, <2>3, <2>4 DEF Refreshing
<1>4. QED
  BY <1>2, <1>3
  DEF RcNext, rcVars, Launching, LaunchBegins, LaunchRuns, RemoteCreates, LaunchOk, LaunchFails,
      Killing, KillBegins, KillRuns, RemoteKills, KillOk, KillFails, KillRemoves, SessionEnds,
      ShedStarts, ShedStops

(* A refresh of one shed neither drops nor brings back a row of another    *)
(* one, whatever its probes returned and whatever happened to the sheds    *)
(* between the choice of its targets and its end.                          *)
THEOREM FilteredIsLocal == RcSpec => FilteredKeepsOthers
<1> DEFINE Local(q) ==
      list[q].pc = "probing" /\ list'[q].pc = "idle" /\ list[q].filter # {} =>
        \A x \in Sessions : Home[x] \notin Matches(list[q].filter) => (x \in store' <=> x \in store)
<1>1. ASSUME RcInv, ListInv, [RcNext]_rcVars, NEW q \in Lists PROVE Local(q)
  <2> SUFFICES ASSUME list[q].pc = "probing", list'[q].pc = "idle", list[q].filter # {},
                      NEW x \in Sessions, Home[x] \notin Matches(list[q].filter)
               PROVE  x \in store' <=> x \in store
    OBVIOUS
  <2>1. list \in [Lists -> Listing]
    BY <1>1 DEF ListInv
  <2>2. CASE list' = list
    BY <2>2
  <2>3. ASSUME NEW p \in Lists, Refreshing(p) PROVE x \in store' <=> x \in store
    <3>1. ASSUME NEW f, NEW targets, rc_targets(p, f, targets) PROVE FALSE
      <4>1. p # q /\ list'[q] = list[q]
        BY <2>1, <3>1 DEF rc_targets
      <4>2. QED BY <4>1
    <3>2. CASE ListRuns(p)
      <4>1. p # q /\ list'[q] = list[q]
        BY <2>1, <3>2 DEF ListRuns
      <4>2. QED BY <4>1
    <3>3. ASSUME NEW s, NEW found, Probes(p, s, found) PROVE FALSE
      <4>1. list'[q].pc = list[q].pc
        BY <2>1, <3>3 DEF Probes, Listing
      <4>2. QED BY <4>1
    <3>4. CASE Reconciles(p)
      <4>1. p = q
        BY <2>1, <3>4 DEF Reconciles
      <4>2. store' = list[q].fresh \cup {y \in store : Home[y] \notin list[q].targets}
        BY <3>4, <4>1 DEF Reconciles, Reconciled
      <4>3. Home[x] \notin list[q].targets
        BY <1>1 DEF ListInv, Matches
      <4>4. x \notin list[q].fresh
        BY <1>1, <4>3 DEF ListInv
      <4>5. QED BY <4>2, <4>3, <4>4
    <3>5. QED BY <2>3, <3>1, <3>2, <3>3, <3>4 DEF Refreshing
  <2>4. QED
    BY <1>1, <2>2, <2>3
    DEF RcNext, rcVars, Launching, LaunchBegins, LaunchRuns, RemoteCreates, LaunchOk, LaunchFails,
        Killing, KillBegins, KillRuns, RemoteKills, KillOk, KillFails, KillRemoves, SessionEnds,
        ShedStarts, ShedStops
<1>2. RcInit => ListInv
  BY IdleTyped DEF RcInit, ListInv, Idle
<1>3. RcInv /\ ListInv /\ [RcNext]_rcVars => [\A q \in Lists : Local(q)]_rcVars
  BY <1>1
<1>4. QED BY <1>2, <1>3, StepList, RcInvariance, PTL DEF RcSpec, FilteredKeepsOthers
-----------------------------------------------------------------------------
(* The command line. *)

(* A state of the shell. *)
Has(done, w, mode) == [done |-> done, word |-> w, mode |-> mode]

(* After char - 1 characters of a word, and before it is begun. *)
LineInv ==
  /\ argv \in Seq(Word)
  /\ word \in 1..Len(argv) + 1 /\ char \in Nat
  /\ char = 0 /\ word = 1 => shell = Has(<< >>, << >>, "between")
  /\ char = 0 /\ word # 1 => shell = Has(SubSeq(argv, 1, word - 2), argv[word - 1], "plain")
  /\ char # 0 =>
       /\ word <= Len(argv) /\ char <= Len(argv[word]) + 1
       /\ shell = Has(SubSeq(argv, 1, word - 1), SubSeq(argv[word], 1, char - 1),
                      IF T!needs_quotes(argv[word]) THEN "quoted"
                      ELSE IF char = 1 THEN "between" ELSE "plain")

(* What the shell makes of a character. *)
LEMMA ShellReadsChar ==
  ASSUME NEW done, NEW w, NEW c
  PROVE  /\ c # T!Apostrophe =>
              shell_reads(Has(done, w, "quoted"), c) = Has(done, Append(w, c), "quoted")
         /\ shell_reads(Has(done, w, "quoted"), T!Apostrophe) = Has(done, w, "plain")
         /\ shell_reads(Has(done, w, "between"), T!Apostrophe) = Has(done, w, "quoted")
         /\ shell_reads(Has(done, w, "plain"), T!Apostrophe) = Has(done, w, "quoted")
         /\ shell_reads(Has(done, w, "plain"), T!Backslash) = Has(done, w, "escaped")
         /\ shell_reads(Has(done, w, "escaped"), c) = Has(done, Append(w, c), "plain")
         /\ shell_reads(Has(done, w, "plain"), T!Space) = Has(Append(done, w), << >>, "between")
         /\ c \notin Special =>
              /\ shell_reads(Has(done, w, "between"), c) = Has(done, Append(w, c), "plain")
              /\ shell_reads(Has(done, w, "plain"), c) = Has(done, Append(w, c), "plain")
<1>1. /\ T!Apostrophe # T!Backslash /\ T!Apostrophe # T!Space /\ T!Backslash # T!Space
      /\ T!Apostrophe \in Special /\ T!Backslash \in Special /\ T!Space \in Special
  BY SpecialAssumption DEF T!Apostrophe, T!Backslash, T!Space
<1>2. c \notin Special => c # T!Apostrophe /\ c # T!Backslash /\ c # T!Space
  BY SpecialAssumption
<1>3. c # T!Apostrophe =>
        shell_reads(Has(done, w, "quoted"), c) = Has(done, Append(w, c), "quoted")
  BY DEF shell_reads, Has, Adds
<1>4. shell_reads(Has(done, w, "quoted"), T!Apostrophe) = Has(done, w, "plain")
  BY DEF shell_reads, Has, Adds
<1>5. /\ shell_reads(Has(done, w, "between"), T!Apostrophe) = Has(done, w, "quoted")
      /\ shell_reads(Has(done, w, "plain"), T!Apostrophe) = Has(done, w, "quoted")
  <2>1. ASSUME NEW mode \in {"between", "plain"}, NEW st, st = Has(done, w, mode)
        PROVE  shell_reads(st, T!Apostrophe) = Has(done, w, "quoted")
    <3>1. st.mode \in {"between", "plain"}
      BY <2>1 DEF Has
    <3>2. shell_reads(st, T!Apostrophe) = [st EXCEPT !.mode = "quoted"]
      BY <1>1, <3>1 DEF shell_reads
    <3>3. QED BY <2>1, <3>2 DEF Has
  <2>2. QED BY <2>1
<1>6. /\ shell_reads(Has(done, w, "plain"), T!Backslash) = Has(done, w, "escaped")
      /\ shell_reads(Has(done, w, "escaped"), c) = Has(done, Append(w, c), "plain")
  <2>1. ASSUME NEW st, st = Has(done, w, "plain")
        PROVE  shell_reads(st, T!Backslash) = Has(done, w, "escaped")
    <3>1. st.mode = "plain"
      BY <2>1 DEF Has
    <3>2. shell_reads(st, T!Backslash) = [st EXCEPT !.mode = "escaped"]
      BY <1>1, <3>1 DEF shell_reads
    <3>3. QED BY <2>1, <3>2 DEF Has
  <2>2. ASSUME NEW st, st = Has(done, w, "escaped")
        PROVE  shell_reads(st, c) = Has(done, Append(w, c), "plain")
    <3>1. st.mode = "escaped"
      BY <2>2 DEF Has
    <3>2. shell_reads(st, c) = Adds(st, c, "plain")
      BY <3>1 DEF shell_reads
    <3>3. QED BY <2>2, <3>2 DEF Has, Adds
  <2>3. QED BY <2>1, <2>2
<1>7. shell_reads(Has(done, w, "plain"), T!Space) = Has(Append(done, w), << >>, "between")
  <2>1. ASSUME NEW st, st = Has(done, w, "plain")
        PROVE  shell_reads(st, T!Space) = Has(Append(done, w), << >>, "between")
    <3>1. st.mode = "plain" /\ st.done = done /\ st.word = w
      BY <2>1 DEF Has
    <3>2. shell_reads(st, T!Space) =
            [done |-> Append(st.done, st.word), word |-> << >>, mode |-> "between"]
      BY <1>1, <3>1 DEF shell_reads
    <3>3. QED BY <3>1, <3>2 DEF Has
  <2>2. QED BY <2>1
<1>8. c \notin Special =>
        /\ shell_reads(Has(done, w, "between"), c) = Has(done, Append(w, c), "plain")
        /\ shell_reads(Has(done, w, "plain"), c) = Has(done, Append(w, c), "plain")
  BY <1>2 DEF shell_reads, Has, Adds
<1>9. QED
  BY <1>3, <1>4, <1>5, <1>6, <1>7, <1>8

(* What it makes of a piece. *)
LEMMA NoPiece ==
  ASSUME NEW st PROVE ReadsPiece(st, << >>) = st
BY DEF ReadsPiece, ReadsNth

LEMMA PieceOfOne ==
  ASSUME NEW st, NEW c PROVE ReadsPiece(st, <<c>>) = shell_reads(st, c)
BY DEF ReadsPiece, ReadsNth

LEMMA PieceOfTwo ==
  ASSUME NEW st, NEW c, NEW d
  PROVE  ReadsPiece(st, <<c, d>>) = shell_reads(shell_reads(st, c), d)
BY DEF ReadsPiece, ReadsNth

LEMMA PieceOfFour ==
  ASSUME NEW st, NEW c, NEW d, NEW e, NEW f
  PROVE  ReadsPiece(st, <<c, d, e, f>>) =
           shell_reads(shell_reads(shell_reads(shell_reads(st, c), d), e), f)
BY DEF ReadsPiece, ReadsNth

LEMMA OneAndOne ==
  ASSUME NEW c, NEW d
  PROVE  <<c>> \o <<d>> = <<c, d>>
<1>1. PICK p, q : p = <<c>> /\ q = <<d>>
  OBVIOUS
<1>2. p \in Seq({c, d}) /\ q \in Seq({c, d}) /\ Len(p) = 1 /\ Len(q) = 1 /\ p[1] = c /\ q[1] = d
  BY <1>1
<1>3. PICK s : s = p \o q
  OBVIOUS
<1>4. s \in Seq({c, d}) /\ Len(s) = 2 /\ s[1] = c /\ s[2] = d
  <2>1. s \in Seq({c, d}) /\ Len(s) = Len(p) + Len(q)
    <3>1. PICK S : S = {c, d}
      OBVIOUS
    <3>2. p \in Seq(S) /\ q \in Seq(S)
      BY <1>2, <3>1
    <3>3. s \in Seq(S)
      BY <1>3, <3>2
    <3>4. Len(s) = Len(p) + Len(q)
      BY <1>3, <3>2
    <3>5. QED BY <3>1, <3>3, <3>4
  <2>2. Len(s) = 2
    BY <1>2, <2>1
  <2>3. s[1] = p[1]
    BY <1>2, <1>3, <2>1
  <2>4. s[1 + Len(p)] = q[1]
    BY <1>2, <1>3, <2>1
  <2>5. QED BY <1>2, <2>1, <2>2, <2>3, <2>4
<1>5. DOMAIN s = 1..2
  BY <1>4
<1>6. PICK r : r = <<c, d>>
  OBVIOUS
<1>7. r \in Seq({c, d}) /\ Len(r) = 2 /\ r[1] = c /\ r[2] = d
  BY <1>6
<1>8. \A i \in 1..2 : s[i] = r[i]
  BY <1>4, <1>7
<1>9. s = r
  BY <1>4, <1>7, <1>8
<1>10. QED BY <1>1, <1>3, <1>6, <1>9

(* Prefixes, one longer. *)
LEMMA PrefixGrows ==
  ASSUME NEW S, NEW s \in Seq(S), NEW n \in Nat, n < Len(s)
  PROVE  Append(SubSeq(s, 1, n), s[n + 1]) = SubSeq(s, 1, n + 1)
OBVIOUS

LEMMA PrefixEnds ==
  ASSUME NEW S, NEW s \in Seq(S)
  PROVE  SubSeq(s, 1, 0) = << >> /\ SubSeq(s, 1, Len(s)) = s
OBVIOUS

(* Words are what ssh_command makes of words. *)
LEMMA ArgvIsWords ==
  ASSUME NEW a \in Asks
  PROVE  TerminalArgv(a) \in Seq(Word) /\ <<a.shed, a.host>> \in Seq(Word)
<1>1. a.shed \in Word /\ a.host \in Word /\ a.known_hosts \in Word /\ a.session \in Word \cup {Nothing}
  BY AsksAssumption
<1>2. \A c \in {"ssh", "-t", "-o", "StrictHostKeyChecking=yes", "UserKnownHostsFile=", "@", "-p",
                "port", "tmux", "attach"} : <<c>> \in Word
  BY FixedTextAssumption DEF Word
<1>3. PICK at, ukh, ssh, t, o, strict, p, port, tmux, attach :
        /\ at = <<"@">> /\ ukh = <<"UserKnownHostsFile=">> /\ ssh = <<"ssh">> /\ t = <<"-t">>
        /\ o = <<"-o">> /\ strict = <<"StrictHostKeyChecking=yes">> /\ p = <<"-p">>
        /\ port = <<"port">> /\ tmux = <<"tmux">> /\ attach = <<"attach">>
  OBVIOUS
<1>4. /\ at \in Word /\ ukh \in Word /\ ssh \in Word /\ t \in Word /\ o \in Word
      /\ strict \in Word /\ p \in Word /\ port \in Word /\ tmux \in Word /\ attach \in Word
  BY <1>2, <1>3
<1>5. \A v, w \in Word : v \o w \in Word
  BY DEF Word
<1>6. PICK to, pin : to = a.shed \o at \o a.host /\ pin = ukh \o a.known_hosts
  OBVIOUS
<1>7. to \in Word /\ pin \in Word
  BY <1>1, <1>4, <1>5, <1>6
<1>8. CASE T!Given(a.session)
  <2>1. a.session \in Word
    BY <1>1, <1>8 DEF T!Given
  <2>2. TerminalArgv(a) = <<ssh, t>> \o <<o, strict, o, pin>> \o <<to, p, port>>
                            \o <<tmux, attach, t, a.session>>
    BY <1>3, <1>6, <1>8 DEF TerminalArgv, T!ssh_command, T!ssh_host_key_opts
  <2>3. /\ <<ssh, t>> \in Seq(Word) /\ <<o, strict, o, pin>> \in Seq(Word)
        /\ <<to, p, port>> \in Seq(Word) /\ <<tmux, attach, t, a.session>> \in Seq(Word)
    BY <1>4, <1>7, <2>1
  <2>4. QED BY <1>1, <2>2, <2>3
<1>9. CASE ~T!Given(a.session)
  <2>1. TerminalArgv(a) = <<ssh, t>> \o <<o, strict, o, pin>> \o <<to, p, port>> \o << >>
    BY <1>3, <1>6, <1>9 DEF TerminalArgv, T!ssh_command, T!ssh_host_key_opts
  <2>2. /\ <<ssh, t>> \in Seq(Word) /\ <<o, strict, o, pin>> \in Seq(Word)
        /\ <<to, p, port>> \in Seq(Word) /\ << >> \in Seq(Word)
    BY <1>4, <1>7
  <2>3. QED BY <1>1, <2>1, <2>2
<1>10. QED BY <1>8, <1>9

LEMMA LineInitInv == LineInit => LineInv
<1> SUFFICES ASSUME LineInit PROVE LineInv
  OBVIOUS
<1>1. argv \in Seq(Word)
  BY ArgvIsWords DEF LineInit
<1>2. 1 \in 1..Len(argv) + 1
  BY <1>1
<1>3. QED
  BY <1>1, <1>2 DEF LineInit, LineInv, Unread, Has

(* The opening quote, if the word needs one, after the space. *)
LEMMA WordBegun ==
  ASSUME LineInv, char = 0, word <= Len(argv), NEW w, w = argv[word]
  PROVE  ReadsPiece(shell, (IF word = 1 THEN << >> ELSE <<T!Space>>) \o Quotes(w))
           = Has(SubSeq(argv, 1, word - 1), << >>,
                 IF T!needs_quotes(w) THEN "quoted" ELSE "between")
<1>1. argv \in Seq(Word) /\ word \in 1..Len(argv) + 1
  BY DEF LineInv
<1>2. PICK n \in Nat : n = word /\ n <= Len(argv) /\ n > 0
  BY <1>1
<1>3. PICK done : done = SubSeq(argv, 1, n - 1)
  OBVIOUS
<1>4. PICK space, apostrophe : space = T!Space /\ apostrophe = T!Apostrophe
  OBVIOUS
<1>5. Quotes(w) = IF T!needs_quotes(w) THEN <<apostrophe>> ELSE << >>
  BY <1>4 DEF Quotes
<1>6. CASE n = 1
  <2>1. shell = Has(<< >>, << >>, "between") /\ done = << >>
    BY <1>1, <1>2, <1>3, <1>6, PrefixEnds DEF LineInv
  <2>2. CASE T!needs_quotes(w)
    <3>1. (IF word = 1 THEN << >> ELSE <<space>>) \o Quotes(w) = <<apostrophe>>
      BY <1>2, <1>5, <1>6, <2>2
    <3>2. ReadsPiece(shell, <<apostrophe>>) = Has(done, << >>, "quoted")
      BY <1>4, <2>1, PieceOfOne, ShellReadsChar
    <3>3. QED BY <1>2, <1>3, <1>4, <2>2, <3>1, <3>2
  <2>3. CASE ~T!needs_quotes(w)
    <3>1. (IF word = 1 THEN << >> ELSE <<space>>) \o Quotes(w) = << >>
      BY <1>2, <1>5, <1>6, <2>3
    <3>2. QED BY <1>2, <1>3, <1>4, <2>1, <2>3, <3>1, NoPiece
  <2>4. QED BY <2>2, <2>3
<1>7. CASE n # 1
  <2>1. shell = Has(SubSeq(argv, 1, n - 2), argv[n - 1], "plain")
    BY <1>2, <1>7 DEF LineInv
  <2>2. Append(SubSeq(argv, 1, n - 2), argv[n - 1]) = done
    <3>1. n - 2 \in Nat /\ n - 2 < Len(argv) /\ (n - 2) + 1 = n - 1
      BY <1>2, <1>7
    <3>2. QED BY <3>1, <1>1, <1>3, PrefixGrows
  <2>3. shell_reads(shell, space) = Has(done, << >>, "between")
    BY <1>4, <2>1, <2>2, ShellReadsChar
  <2>4. CASE T!needs_quotes(w)
    <3>1. (IF word = 1 THEN << >> ELSE <<space>>) \o Quotes(w) = <<space>> \o <<apostrophe>>
      BY <1>2, <1>5, <1>7, <2>4
    <3>2. <<space>> \o <<apostrophe>> = <<space, apostrophe>>
      BY OneAndOne
    <3>3. shell_reads(Has(done, << >>, "between"), apostrophe) = Has(done, << >>, "quoted")
      BY <1>4, ShellReadsChar
    <3>4. ReadsPiece(shell, <<space, apostrophe>>) = Has(done, << >>, "quoted")
      BY <2>3, <3>3, PieceOfTwo
    <3>5. QED BY <1>2, <1>3, <1>4, <2>4, <3>1, <3>2, <3>4
  <2>5. CASE ~T!needs_quotes(w)
    <3>1. (IF word = 1 THEN << >> ELSE <<space>>) \o Quotes(w) = <<space>> \o << >>
      BY <1>2, <1>5, <1>7, <2>5
    <3>2. <<space>> \o << >> = <<space>>
      OBVIOUS
    <3>3. ReadsPiece(shell, <<space>>) = Has(done, << >>, "between")
      BY <2>3, PieceOfOne
    <3>4. QED BY <1>2, <1>3, <1>4, <2>5, <3>1, <3>2, <3>3
  <2>6. QED BY <2>4, <2>5
<1>8. QED BY <1>6, <1>7

(* A character comes through as itself, an apostrophe in four.  Unquoted   *)
(* ones are safe.                                                          *)
LEMMA CharCopied ==
  ASSUME LineInv, word <= Len(argv), NEW w, w = argv[word], NEW k \in 1..Len(w), k = char
  PROVE  ReadsPiece(shell, IF T!needs_quotes(w) THEN T!within_quotes(w[k]) ELSE <<w[k]>>)
           = Has(SubSeq(argv, 1, word - 1), SubSeq(w, 1, k),
                 IF T!needs_quotes(w) THEN "quoted" ELSE "plain")
<1>1. argv \in Seq(Word) /\ word \in DOMAIN argv
  BY DEF LineInv
<1>2. w \in Seq(Alphabet) /\ k \in Nat /\ k # 0 /\ k \in DOMAIN w
  BY <1>1 DEF Word
<1>3. PICK done, before, c : done = SubSeq(argv, 1, word - 1) /\ before = SubSeq(w, 1, k - 1) /\ c = w[k]
  OBVIOUS
<1>4. shell = Has(done, before, IF T!needs_quotes(w) THEN "quoted"
                                ELSE IF k = 1 THEN "between" ELSE "plain")
  BY <1>2, <1>3 DEF LineInv
<1>5. Append(before, c) = SubSeq(w, 1, k)
  <2>1. k - 1 \in Nat /\ k - 1 < Len(w) /\ (k - 1) + 1 = k
    BY <1>2
  <2>2. QED BY <2>1, <1>2, <1>3, PrefixGrows
<1>6. CASE T!needs_quotes(w)
  <2>1. CASE c = T!Apostrophe
    <3>1. PICK a, b : a = T!Apostrophe /\ b = T!Backslash
      OBVIOUS
    <3>2. T!within_quotes(c) = <<a, b, a, a>>
      BY <2>1, <3>1 DEF T!within_quotes
    <3>3. shell_reads(Has(done, before, "quoted"), a) = Has(done, before, "plain")
      BY <3>1, ShellReadsChar
    <3>4. shell_reads(Has(done, before, "plain"), b) = Has(done, before, "escaped")
      BY <3>1, ShellReadsChar
    <3>5. shell_reads(Has(done, before, "escaped"), a) = Has(done, Append(before, a), "plain")
      BY ShellReadsChar
    <3>6. shell_reads(Has(done, Append(before, a), "plain"), a)
            = Has(done, Append(before, a), "quoted")
      BY <3>1, ShellReadsChar
    <3>7. ReadsPiece(shell, <<a, b, a, a>>) = Has(done, Append(before, a), "quoted")
      BY <1>4, <1>6, <3>3, <3>4, <3>5, <3>6, PieceOfFour
    <3>8. QED BY <1>3, <1>5, <1>6, <2>1, <3>1, <3>2, <3>7
  <2>2. CASE c # T!Apostrophe
    <3>1. T!within_quotes(c) = <<c>>
      BY <2>2 DEF T!within_quotes
    <3>2. ReadsPiece(shell, <<c>>) = Has(done, Append(before, c), "quoted")
      BY <1>4, <1>6, <2>2, PieceOfOne, ShellReadsChar
    <3>3. QED BY <1>3, <1>5, <1>6, <3>1, <3>2
  <2>3. QED BY <2>1, <2>2
<1>7. CASE ~T!needs_quotes(w)
  <2>1. c \notin Special
    BY <1>2, <1>3, <1>7, SpecialAssumption DEF T!needs_quotes
  <2>2. ReadsPiece(shell, <<c>>) = Has(done, Append(before, c), "plain")
    <3>1. shell = Has(done, before, "between") \/ shell = Has(done, before, "plain")
      BY <1>4, <1>7
    <3>2. shell_reads(shell, c) = Has(done, Append(before, c), "plain")
      BY <2>1, <3>1, ShellReadsChar
    <3>3. QED BY <3>2, PieceOfOne
  <2>3. QED BY <1>3, <1>5, <1>7, <2>2
<1>8. QED BY <1>6, <1>7

(* The closing quote; a word without quotes is not empty. *)
LEMMA WordEnded ==
  ASSUME LineInv, word <= Len(argv), NEW w, w = argv[word], char = Len(w) + 1
  PROVE  ReadsPiece(shell, Quotes(w)) = Has(SubSeq(argv, 1, word - 1), w, "plain")
<1>1. argv \in Seq(Word) /\ word \in DOMAIN argv
  BY DEF LineInv
<1>2. w \in Seq(Alphabet) /\ Len(w) \in Nat
  BY <1>1 DEF Word
<1>3. PICK done : done = SubSeq(argv, 1, word - 1)
  OBVIOUS
<1>4. char # 0 /\ char - 1 = Len(w) /\ SubSeq(w, 1, Len(w)) = w
  BY <1>2, PrefixEnds
<1>5. shell = Has(done, w, IF T!needs_quotes(w) THEN "quoted"
                           ELSE IF char = 1 THEN "between" ELSE "plain")
  BY <1>3, <1>4 DEF LineInv
<1>6. CASE T!needs_quotes(w)
  <2>1. PICK apostrophe : apostrophe = T!Apostrophe
    OBVIOUS
  <2>2. Quotes(w) = <<apostrophe>>
    BY <1>6, <2>1 DEF Quotes
  <2>3. ReadsPiece(shell, <<apostrophe>>) = Has(done, w, "plain")
    BY <1>5, <1>6, <2>1, PieceOfOne, ShellReadsChar
  <2>4. QED BY <1>3, <2>2, <2>3
<1>7. CASE ~T!needs_quotes(w)
  <2>1. char # 1
    BY <1>2, <1>4, <1>7 DEF T!needs_quotes
  <2>2. Quotes(w) = << >>
    BY <1>7 DEF Quotes
  <2>3. QED BY <1>3, <1>5, <1>7, <2>1, <2>2, NoPiece
<1>8. QED BY <1>6, <1>7

LEMMA LineStepInv == LineInv /\ [LineNext]_lineVars => LineInv'
<1> SUFFICES ASSUME LineInv, [LineNext]_lineVars PROVE LineInv'
  OBVIOUS
<1>1. argv \in Seq(Word) /\ word \in 1..Len(argv) + 1 /\ char \in Nat
  BY DEF LineInv
<1>2. PICK n \in Nat : n = word
  BY <1>1
<1>3. CASE BeginsWord
  <2>1. /\ n <= Len(argv) /\ n > 0 /\ char = 0 /\ argv' = argv /\ word' = n /\ char' = 1
        /\ shell' = ReadsPiece(shell, (IF word = 1 THEN << >> ELSE <<T!Space>>) \o Quotes(argv[word]))
    BY <1>1, <1>2, <1>3 DEF BeginsWord, Writes
  <2>2. PICK w : w = argv[n]
    OBVIOUS
  <2>3. w \in Seq(Alphabet) /\ SubSeq(w, 1, 1 - 1) = << >> /\ 1 <= Len(w) + 1
    BY <1>1, <2>1, <2>2 DEF Word
  <2>4. shell' = Has(SubSeq(argv, 1, n - 1), SubSeq(w, 1, 1 - 1),
                     IF T!needs_quotes(w) THEN "quoted" ELSE "between")
    BY <1>2, <2>1, <2>2, <2>3, WordBegun
  <2>5. QED BY <1>1, <1>2, <2>1, <2>2, <2>3, <2>4 DEF LineInv
<1>4. CASE CopiesChar
  <2>1. PICK w : w = argv[n]
    OBVIOUS
  <2>2. /\ n <= Len(argv) /\ n > 0 /\ char \in 1..Len(w) /\ argv' = argv /\ word' = n
        /\ char' = char + 1
        /\ shell' = ReadsPiece(shell, IF T!needs_quotes(w) THEN T!within_quotes(w[char])
                                      ELSE <<w[char]>>)
    BY <1>1, <1>2, <1>4, <2>1 DEF CopiesChar, Writes
  <2>3. PICK k \in 1..Len(w) : k = char
    BY <2>2
  <2>4. w \in Seq(Alphabet)
    BY <1>1, <2>1, <2>2 DEF Word
  <2>5. shell' = Has(SubSeq(argv, 1, n - 1), SubSeq(w, 1, k),
                     IF T!needs_quotes(w) THEN "quoted" ELSE "plain")
    BY <1>2, <2>1, <2>2, <2>3, CharCopied
  <2>6. char' = k + 1 /\ k + 1 # 1 /\ k + 1 # 0 /\ (k + 1) - 1 = k /\ k + 1 <= Len(w) + 1 /\ k + 1 \in Nat
    BY <2>2, <2>3, <2>4
  <2>7. QED BY <1>1, <1>2, <2>1, <2>2, <2>5, <2>6 DEF LineInv
<1>5. CASE EndsWord
  <2>1. PICK w : w = argv[n]
    OBVIOUS
  <2>2. /\ n <= Len(argv) /\ n > 0 /\ char = Len(w) + 1 /\ argv' = argv /\ word' = n + 1
        /\ char' = 0 /\ shell' = ReadsPiece(shell, Quotes(w))
    BY <1>1, <1>2, <1>5, <2>1 DEF EndsWord, Writes
  <2>3. shell' = Has(SubSeq(argv, 1, n - 1), w, "plain")
    BY <1>2, <2>1, <2>2, WordEnded
  <2>4. (n + 1) - 1 = n /\ (n + 1) - 2 = n - 1 /\ n + 1 # 1 /\ n + 1 \in 1..Len(argv) + 1
    BY <1>1, <2>2
  <2>5. QED BY <1>1, <2>1, <2>2, <2>3, <2>4 DEF LineInv
<1>6. CASE UNCHANGED lineVars
  BY <1>6 DEF LineInv, lineVars
<1>7. QED BY <1>3, <1>4, <1>5, <1>6 DEF LineNext

(* For every name, host, path and session, and every alphabet: the line    *)
(* that shell_quote and join make of the words of a command is split by a  *)
(* POSIX shell into those words again, nothing expanded.                   *)
THEOREM CommandLineReparses == LineSpec => []LineReparses
<1>1. LineInv => LineReparses
  <2> SUFFICES ASSUME LineInv, Written PROVE ShellHas(shell, argv)
    BY DEF LineReparses
  <2>1. argv \in Seq(Word) /\ word = Len(argv) + 1 /\ Len(argv) \in Nat
    BY DEF LineInv, Written
  <2>2. char = 0
    BY <2>1 DEF LineInv
  <2>3. CASE Len(argv) = 0
    <3>1. argv = << >> /\ shell = Has(<< >>, << >>, "between")
      BY <2>1, <2>2, <2>3 DEF LineInv
    <3>2. QED BY <3>1 DEF ShellHas, Has
  <2>4. CASE Len(argv) # 0
    <3>1. PICK n \in Nat : n = Len(argv) /\ n # 0
      BY <2>1, <2>4
    <3>2. shell = Has(SubSeq(argv, 1, n - 1), argv[n], "plain")
      <4>1. word - 1 = n /\ word - 2 = n - 1 /\ word # 1
        BY <2>1, <3>1
      <4>2. QED BY <4>1, <2>2 DEF LineInv
    <3>3. Append(SubSeq(argv, 1, n - 1), argv[n]) = SubSeq(argv, 1, n)
      <4>1. n - 1 \in Nat /\ n - 1 < Len(argv) /\ (n - 1) + 1 = n
        BY <3>1
      <4>2. QED BY <4>1, <2>1, PrefixGrows
    <3>4. SubSeq(argv, 1, n) = argv
      BY <2>1, <3>1, PrefixEnds
    <3>5. QED BY <3>2, <3>3, <3>4 DEF ShellHas, Has
  <2>5. QED BY <2>3, <2>4
<1>2. QED
  BY <1>1, LineInitInv, LineStepInv, PTL DEF LineSpec
=============================================================================
