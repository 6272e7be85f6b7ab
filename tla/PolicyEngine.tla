---------------------------- MODULE PolicyEngine ----------------------------
(***************************************************************************)
(* The pure approval policy (core/shed-core/src/approval/policy.rs) and    *)
(* the vocabulary it shares with the coordinator (approval/models.rs).     *)
(*                                                                         *)
(* A rule list is a sequence of rules.  Texts that the code only compares  *)
(* (ids, server and shed names) are members of the constant sets; the op,  *)
(* detail and ts fields of a request are left out, so two requests of the  *)
(* model differ exactly when a field the code decides on differs.          *)
(***************************************************************************)
EXTENDS Integers, Sequences

CONSTANTS
  Ids,           \* request ids chosen by the host agent
  Servers,       \* shed servers ("" of a single-server agent is one of them)
  Namespaces,    \* credential namespaces, the three brokered ones among them
  Sheds,         \* shed names
  NoValue,       \* the code's Option::None
  Unparseable    \* an expires_at text that parse_unix rejects

SSH    == "ssh-agent"
AWS    == "aws-credentials"
DOCKER == "docker-credentials"

ASSUME NamespacesAssumption == {SSH, AWS, DOCKER} \subseteq Namespaces
ASSUME NoValueAssumption == NoValue \notin Servers \cup Namespaces \cup Sheds
ASSUME UnparseableAssumption == Unparseable \notin Int

ApprovalDecision == {"approve", "deny"}
PolicyAction     == {"approve", "deny", "prompt"}
PolicyGate       == {"none", "biometrics", "biometrics-or-password"}

ApprovalRequest ==
  [id: Ids, server: Servers, namespace: Namespaces, shed: Sheds,
   expires_at: Nat \cup {Unparseable}]

(* "removed" is the scope of an entry that retain() has dropped: it stays  *)
(* in the list as a blank that matches nothing, so that no other entry     *)
(* changes its position and the order of the list is the code's.           *)
PolicyRule ==
  [scope: {"default", "namespace", "shed", "removed"},
   server: Servers \cup {NoValue},
   namespace: Namespaces \cup {NoValue},
   shed: Sheds \cup {NoValue},
   action: PolicyAction,
   gate: PolicyGate]

PolicyDecision ==
  [action: PolicyAction, gate: PolicyGate,
   applied_scope: {"default", "namespace", "shed", "session"}]

SessionGrantKey == [server: Servers, namespace: Namespaces, shed: Sheds]

KeyOf(req) ==
  [server |-> req.server, namespace |-> req.namespace, shed |-> req.shed]

is_biometric(gate) == gate # "none"

-----------------------------------------------------------------------------
(* The preferences the coordinator builds its rules from. *)
ApprovalMethod    == {"biometrics-or-password", "biometrics", "prompt"}
SshApprovalPolicy == {"always-allow", "per-shed-allow", "time-based-allow",
                      "always-ask", "always-deny"}
ApprovalScope     == {"per-request", "per-session", "per-shed"}

MethodGate(method) == IF method = "prompt" THEN "none" ELSE method

namespace_action(policy) ==
  CASE policy = "always-allow" -> "approve"
    [] policy = "always-deny"  -> "deny"
    [] OTHER                   -> "prompt"

prompts(policy) == namespace_action(policy) = "prompt"

-----------------------------------------------------------------------------
(* What a user decides: on a card, over IPC or from a notification.  ttl   *)
(* is the number of seconds of a shorthand, below 0 if it wrapped around,  *)
(* NoValue when the text is absent or ttl_shorthand_seconds rejects it.    *)
ApprovalChoice ==
  [decision: ApprovalDecision,
   scope: ApprovalScope \cup {NoValue},
   ttl: Int \cup {NoValue},
   persist: BOOLEAN]

(* ttl_shorthand_seconds, after the last character is split off: n is the  *)
(* number before it, unit one of s, m, h, d.  The product wraps around in  *)
(* a release build; width is that of i64.                                  *)
UnitSeconds(unit) ==
  CASE unit = "s" -> 1 [] unit = "m" -> 60 [] unit = "h" -> 3600 [] unit = "d" -> 86400

Wrap(i, width) == ((i + 2^(width - 1)) % 2^width) - 2^(width - 1)

ttl_shorthand_seconds(n, unit, width) ==
  IF unit \in {"s", "m", "h", "d"} /\ n > 0
  THEN Wrap(n * UnitSeconds(unit), width) ELSE NoValue

-----------------------------------------------------------------------------
(* decide(): session grant, then the first matching shed rule, then the    *)
(* first matching namespace rule, then the first default rule; with no     *)
(* rule at all the request fails safe to a native-auth prompt.             *)

(* F12: a rule that names a server is for that server's shed only. *)
ShedMatches(rule, req) ==
  /\ rule.scope = "shed"
  /\ rule.shed = req.shed
  /\ rule.server \in {NoValue, req.server}

NamespaceMatches(rule, req) ==
  rule.scope = "namespace" /\ rule.namespace = req.namespace

DefaultMatches(rule, req) == rule.scope = "default"

First(positions) == CHOOSE i \in positions : \A j \in positions : i <= j

Applied(rule, scope) ==
  [action |-> rule.action, gate |-> rule.gate, applied_scope |-> scope]

SessionGranted ==
  [action |-> "approve", gate |-> "none", applied_scope |-> "session"]

FailSafe ==
  [action |-> "prompt", gate |-> "biometrics-or-password",
   applied_scope |-> "default"]

(* The first rule of the most specific scope that has a matching rule. *)
RuleDecision(rules, req) ==
  LET sheds    == {i \in DOMAIN rules : ShedMatches(rules[i], req)}
      spaces   == {i \in DOMAIN rules : NamespaceMatches(rules[i], req)}
      defaults == {i \in DOMAIN rules : DefaultMatches(rules[i], req)}
  IN  IF sheds # {}    THEN Applied(rules[First(sheds)], "shed")
      ELSE IF spaces # {}   THEN Applied(rules[First(spaces)], "namespace")
      ELSE IF defaults # {} THEN Applied(rules[First(defaults)], "default")
      ELSE FailSafe

(* Mutant of decide: a deny rule outranks a session grant. *)
decide_DenyRuleFirst(rules, req, session_grants) ==
  IF KeyOf(req) \in session_grants /\ RuleDecision(rules, req).action # "deny"
  THEN SessionGranted
  ELSE RuleDecision(rules, req)

decide(rules, req, session_grants) ==
  IF KeyOf(req) \in session_grants
  THEN SessionGranted
  ELSE RuleDecision(rules, req)
-----------------------------------------------------------------------------
(* What decide() promises, without its order of questions. *)

(* Rank of the scopes, most specific first. *)
Rank(scope) == CASE scope = "session"   -> 0 [] scope = "shed"    -> 1
                 [] scope = "namespace" -> 2 [] scope = "default" -> 3

Matching(rule, req) ==
  \/ rule.scope = "shed" /\ rule.shed = req.shed /\ rule.server \in {NoValue, req.server}
  \/ rule.scope = "namespace" /\ rule.namespace = req.namespace
  \/ rule.scope = "default"

(* "Most specific wins": the verdict comes from a grant of exactly this    *)
(* key, or from a matching rule such that every other matching rule is     *)
(* less specific, or as specific and later; with neither the request falls *)
(* to a native-auth prompt, never to an approve.                           *)
MostSpecific(rules, req, grants, verdict) ==
  LET Before(i, j) == \/ Rank(rules[i].scope) < Rank(rules[j].scope)
                      \/ rules[i].scope = rules[j].scope /\ i <= j
      hits == {i \in DOMAIN rules : Matching(rules[i], req)}
  IN  \/ KeyOf(req) \in grants /\ verdict.action = "approve"
         /\ verdict.applied_scope = "session"
      \/ /\ KeyOf(req) \notin grants
         /\ \E i \in hits : /\ \A j \in hits : Before(i, j)
                           /\ verdict = Applied(rules[i], rules[i].scope)
      \/ KeyOf(req) \notin grants /\ hits = {}
         /\ verdict.action = "prompt" /\ is_biometric(verdict.gate)
=============================================================================
