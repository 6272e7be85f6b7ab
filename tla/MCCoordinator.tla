--------------------------- MODULE MCCoordinator ----------------------------
(* Instances of Coordinator for TLC. *)
EXTENDS Coordinator

CONSTANTS id1, id2, srv1, srv2, shed1, shed2

Req(id, server, ns, shed, e) ==
  [id |-> id, server |-> server, namespace |-> ns, shed |-> shed, expires_at |-> e]

Choice(decision, scope, ttl, persist) ==
  [decision |-> decision, scope |-> scope, ttl |-> ttl, persist |-> persist]

AllNamespaces == {SSH, AWS, DOCKER, "other"}

Modes == [n \in {AWS, DOCKER} |-> IF n = AWS THEN "approve" ELSE "deny"]

AskWithTouchId  == [method |-> "biometrics-or-password", policy |-> "time-based-allow"]
AskWithButton   == [method |-> "prompt", policy |-> "per-shed-allow"]

(* Races: two ids; id1 comes in two variants, so that a replacement        *)
(* differs from what it replaces.  A request of id2 outlives the others,   *)
(* or has an expiry that cannot be read.                                   *)
RaceRequests == {Req(id1, srv1, SSH, shed1, 1), Req(id1, srv1, SSH, shed2, 2),
                 Req(id2, srv1, SSH, shed1, 2), Req(id2, srv1, SSH, shed1, Unparseable)}
RaceChoices  == {Choice("approve", "per-session", 1, FALSE),
                 Choice("deny", NoValue, NoValue, FALSE)}
RaceSettings == {<<"prompt", NoValue>>, <<NoValue, "always-allow">>}

(* Policy: what earns an automatic approve, under everything a client or a *)
(* test can send.  Two requests of one key, two servers with a shed of the *)
(* same name, a namespace no rule covers, and lasting decisions; no id is  *)
(* used twice.                                                             *)
PolicyRequests == {Req(id1, srv1, SSH, shed1, 2), Req(id2, srv1, SSH, shed1, 2),
                   Req(id2, srv2, SSH, shed1, 2), Req(id2, srv1, "other", shed1, 2)}
PolicyChoices  == {Choice("approve", "per-shed", NoValue, FALSE),
                   Choice("approve", NoValue, NoValue, TRUE),
                   Choice("deny", NoValue, NoValue, TRUE)}
PolicySettings == {<<NoValue, "always-allow">>, <<NoValue, "always-ask">>}
PolicyRules    == {<<ShedRule(srv1, shed1, "deny")>>}

(* The finding. *)
UnreadableRequests == {Req(id1, srv1, SSH, shed1, Unparseable)}
AllowSetting       == {<<NoValue, "always-allow">>}
=============================================================================
