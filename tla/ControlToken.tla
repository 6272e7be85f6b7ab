---------------------------- MODULE ControlToken ----------------------------
(***************************************************************************)
(* The control token of one shed-server (core/shed-core/src/token.rs) and  *)
(* the requests that share it (core/shed-core/src/http.rs): a cache behind *)
(* an asynchronous mutex that is held across the mint, a refresh window    *)
(* before the expiry, and one retry after a 401.                           *)
(*                                                                         *)
(* Tokens are numbered in the order in which the host agent issues them.   *)
(* The agent (through token_minter.rs) and the server are external: a mint *)
(* may fail before or after the token was issued, and the server may       *)
(* refuse any request.  Clients without a minter send a static token and   *)
(* never retry; they have no state and are left out.                       *)
(***************************************************************************)
EXTENDS Naturals

CONSTANTS
  Calls,      \* requests with a 401 retry (GET, lifecycle)
  Creates,    \* shed creations: one attempt, and they may be cancelled
  Window,     \* REFRESH_WINDOW
  Seconds,    \* the expiry times the agent gives
  MaxTime     \* bound: the clock stops here

ASSUME TokenAssumption ==
  /\ Calls \cap Creates = {}
  /\ Window \in Nat /\ MaxTime \in Nat
  /\ Seconds \subseteq Nat

Reqs == Calls \cup Creates

VARIABLES
  now,      \* seconds
  cached,   \* the cache: {} or {MintedToken}
  holder,   \* who holds the cache's mutex across an await: {} or {request}
  issued,   \* tokens the agent has issued
  req       \* request -> where it stands

vars == <<now, cached, holder, issued, req>>

None == 0   \* no token; tokens are 1, 2, ...

(* The expiry is {} (none) or {second}. *)
Expiries == {{}} \cup {{s} : s \in Seconds}
MintedToken == [num: Nat, exp: Expiries]

(* tok: the bearer of the current attempt; tries: attempts answered by a   *)
(* 401; mark: the tokens issued when that answer came.                     *)
Request == [pc: {"idle", "token", "minting", "issued", "sending", "refused", "ok",
                 "unauthorized", "failed", "cancelled"},
            tok: Nat, tries: 0..2, mark: Nat]

Init ==
  /\ now = 0
  /\ cached = {}
  /\ holder = {}
  /\ issued = 0
  /\ req = [r \in Reqs |-> [pc |-> "idle", tok |-> None, tries |-> 0, mark |-> 0]]
-----------------------------------------------------------------------------
needs_refresh(t) == \E e \in t.exp : now + Window >= e

Usable == {t \in cached : ~needs_refresh(t)}

Begins(r) ==
  /\ req[r].pc = "idle"
  /\ req' = [req EXCEPT ![r].pc = "token"]
  /\ UNCHANGED <<now, cached, holder, issued>>

(* token(), cache hit: the lock is taken and released without an await. *)
UsesCache(r) ==
  /\ req[r].pc = "token" /\ holder = {}
  /\ \E t \in Usable : req' = [req EXCEPT ![r].pc = "sending", ![r].tok = t.num]
  /\ UNCHANGED <<now, cached, holder, issued>>

(* token(), cache miss: the lock is kept while the mint is awaited. *)
StartsMint(r) ==
  /\ req[r].pc = "token" /\ holder = {}
  /\ Usable = {}
  /\ holder' = {r}
  /\ req' = [req EXCEPT ![r].pc = "minting"]
  /\ UNCHANGED <<now, cached, issued>>

(* The agent issues a token; its reply is on the way. *)
Issues(r) ==
  /\ req[r].pc = "minting"
  /\ issued' = issued + 1
  /\ req' = [req EXCEPT ![r].pc = "issued", ![r].tok = issued + 1]
  /\ UNCHANGED <<now, cached, holder>>

(* map_response: an absent or unreadable expiry is no expiry. *)
Minted(r, exp) ==
  /\ req[r].pc = "issued"
  /\ cached' = {[num |-> req[r].tok, exp |-> exp]}
  /\ holder' = holder \ {r}
  /\ req' = [req EXCEPT ![r].pc = "sending"]
  /\ UNCHANGED <<now, issued>>

(* Mutant of MintFails: the request falls back on what is in the cache. *)
MintFails_Downgrades(r) ==
  /\ req[r].pc \in {"minting", "issued"}
  /\ holder' = holder \ {r}
  /\ req' = [req EXCEPT ![r].pc = "sending",
                        ![r].tok = IF cached = {} THEN None
                                   ELSE (CHOOSE t \in cached : TRUE).num]
  /\ UNCHANGED <<now, cached, issued>>

(* Not connected, timed out, an error reply or an empty token: bearer() is *)
(* None, the cache stays and the request goes out without a token.         *)
MintFails(r) ==
  /\ req[r].pc \in {"minting", "issued"}
  /\ holder' = holder \ {r}
  /\ req' = [req EXCEPT ![r].pc = "sending", ![r].tok = None]
  /\ UNCHANGED <<now, cached, issued>>
-----------------------------------------------------------------------------
Accepted(r) ==
  /\ req[r].pc = "sending"
  /\ req' = [req EXCEPT ![r].pc = "ok"]
  /\ UNCHANGED <<now, cached, holder, issued>>

(* A 401: request retries once, create_stream gives up. *)
Refused(r) ==
  /\ req[r].pc = "sending"
  /\ req' = [req EXCEPT ![r].pc = IF r \in Calls /\ req[r].tries = 0
                                  THEN "refused" ELSE "unauthorized",
                        ![r].tries = @ + 1, ![r].mark = issued]
  /\ UNCHANGED <<now, cached, holder, issued>>

(* The transport fails, the request times out, or another status comes. *)
SendFails(r) ==
  /\ req[r].pc = "sending"
  /\ req' = [req EXCEPT ![r].pc = "failed"]
  /\ UNCHANGED <<now, cached, holder, issued>>

(* Mutant of invalidate: it does not wait for a mint that is under way. *)
invalidate_NoLock(r) ==
  /\ req[r].pc = "refused"
  /\ cached' = {}
  /\ req' = [req EXCEPT ![r].pc = "token"]
  /\ UNCHANGED <<now, holder, issued>>

(* invalidate, then the second send_once asks for a token again. *)
invalidate(r) ==
  /\ req[r].pc = "refused" /\ holder = {}
  /\ cached' = {}
  /\ req' = [req EXCEPT ![r].pc = "token"]
  /\ UNCHANGED <<now, holder, issued>>

(* Mutant of Cancelled: the lock is not released. *)
Cancelled_KeepsLock(r) ==
  /\ r \in Creates
  /\ req[r].pc \in {"token", "minting", "issued", "sending"}
  /\ req' = [req EXCEPT ![r].pc = "cancelled"]
  /\ UNCHANGED <<now, cached, holder, issued>>

(* CreateStore::cancel aborts the task at its await; dropping the future   *)
(* releases the lock and abandons the mint.                                *)
Cancelled(r) ==
  /\ r \in Creates
  /\ req[r].pc \in {"token", "minting", "issued", "sending"}
  /\ holder' = holder \ {r}
  /\ req' = [req EXCEPT ![r].pc = "cancelled"]
  /\ UNCHANGED <<now, cached, issued>>
-----------------------------------------------------------------------------
Tick ==
  /\ now < MaxTime
  /\ now' = now + 1
  /\ UNCHANGED <<cached, holder, issued, req>>

Answered(r) == Accepted(r) \/ Refused(r) \/ SendFails(r)

MintEnds(r) == MintFails(r) \/ \E exp \in Expiries : Minted(r, exp)

Next ==
  \/ \E r \in Reqs : \/ Begins(r) \/ UsesCache(r) \/ StartsMint(r) \/ Issues(r)
                     \/ MintEnds(r) \/ Answered(r) \/ invalidate(r) \/ Cancelled(r)
  \/ Tick

Spec == Init /\ [][Next]_vars

(* A mint and a call's send have timeouts (request_token, GET_TIMEOUT and  *)
(* WRITE_TIMEOUT) and the mutex is granted in order of arrival.  A         *)
(* creation's own send has no timeout and need not end.                    *)
FairSpec ==
  /\ Spec
  /\ \A r \in Reqs : /\ WF_vars(UsesCache(r) \/ StartsMint(r))
                     /\ WF_vars(MintEnds(r))
                     /\ WF_vars(invalidate(r))
  /\ \A r \in Calls : WF_vars(Answered(r))
-----------------------------------------------------------------------------
TypeOK ==
  /\ now \in Nat /\ issued \in Nat
  /\ cached \subseteq MintedToken
  /\ holder \subseteq Reqs
  /\ req \in [Reqs -> Request]

(* Every token in use was issued, and every mark lies in the past. *)
Issued ==
  /\ \A t \in cached : t.num <= issued
  /\ \A r \in Reqs : req[r].tok <= issued /\ req[r].mark <= issued

Minting == {r \in Reqs : req[r].pc \in {"minting", "issued"}}

(* Single flight: the mutex is with the one request that mints, and with   *)
(* nobody when nobody mints, so no ended or cancelled request keeps it.    *)
LockFollowsMint == holder = Minting /\ \A r, s \in holder : r = s

(* The retry is worth its while: after a 401 a call goes out with a token  *)
(* that the agent issued after that answer, or with none, whoever minted   *)
(* it and whatever was under way when the answer came.                     *)
FreshRetry ==
  \A r \in Reqs : req[r].pc = "sending" /\ req[r].tries > 0 /\ req[r].tok # None
                    => req[r].tok > req[r].mark

(* What makes FreshRetry inductive: while a refused call waits for its     *)
(* second token, neither the cache nor a mint under way has an older one.  *)
RetryPrepared ==
  \A r \in Reqs : req[r].pc \in {"token", "minting", "issued"} /\ req[r].tries > 0 =>
    /\ \A t \in cached : t.num > req[r].mark
    /\ \A s \in Reqs : req[s].pc = "issued" => req[s].tok > req[r].mark

(* At most two attempts, and one for a creation. *)
AttemptsBounded ==
  \A r \in Reqs :
    /\ req[r].pc = "idle" => req[r].tries = 0
    /\ req[r].pc \in {"token", "minting", "issued", "sending", "refused"} => req[r].tries <= 1
    /\ r \in Creates /\ req[r].tries > 0 => req[r].pc = "unauthorized" /\ req[r].tries = 1

IInv == TypeOK /\ Issued /\ LockFollowsMint /\ FreshRetry /\ RetryPrepared /\ AttemptsBounded

(* No downgrade: a request that starts sending has the token of its own    *)
(* mint, or one from the cache that is outside its refresh window at that  *)
(* step, or none.  A failed mint never falls back on an older token.       *)
SendsFreshTokenOrNone ==
  [][\A r \in Reqs : req[r].pc # "sending" /\ req'[r].pc = "sending" =>
       \/ req'[r].tok = None
       \/ req[r].pc = "issued" /\ req'[r].tok = req[r].tok
       \/ \E t \in cached : /\ t.num = req'[r].tok
                            /\ \A e \in t.exp : now + Window < e]_vars

(* Every call ends, also when a creation that held the mutex is cancelled. *)
CallsEnd ==
  \A r \in Calls : req[r].pc = "token" ~> req[r].pc \in {"ok", "unauthorized", "failed"}
=============================================================================
