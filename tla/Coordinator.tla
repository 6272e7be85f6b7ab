---------------------------- MODULE Coordinator -----------------------------
(***************************************************************************)
(* The approval coordinator (core/shed-app/src/coordinator.rs): a single   *)
(* task that owns the queue of prompts, the session grants and the policy, *)
(* and handles one command at a time.  Every handler is one action.        *)
(*                                                                         *)
(* What runs beside the actor is what makes it hard: the OS auth dialogs   *)
(* (gate tasks) stay open while other commands are handled and re-enter    *)
(* the actor as GateResolved in any order; the host agent's connection     *)
(* drops and comes back; requests expire by the wall clock; a one-second   *)
(* tick sweeps them; settings change under open dialogs.                   *)
(*                                                                         *)
(* asked and answers are history: the requests received so far and, for    *)
(* each, the decisions put on the wire.  conn counts the disconnects.      *)
(***************************************************************************)
EXTENDS PolicyEngine

CONSTANTS
  Incoming,        \* requests the host agent may send
  Choices,         \* decisions a user may make
  SshSettings,     \* <<method, policy>> arguments of set_ssh_approval; either may be NoValue
  TestRules,       \* rule lists of the test-mode SetPolicyRules command
  InitialSsh,      \* the preferences at startup
  ProviderModes,   \* the live AWS / Docker decision
  DelegatedSets,   \* gate_namespaces values a hello_ack may carry
  Sticky,          \* GrantExpiry::Sticky
  DefaultTtl,      \* DEFAULT_APPROVAL_TTL in clock units
  ReuseIds,        \* may the agent send an id again?
  MaxRequests,     \* bound: requests received
  MaxTime,         \* bound: clock
  MaxConn,         \* bound: disconnects
  MaxGates,        \* bound: gate tasks at a time
  MaxInvoked       \* bound: queued notification actions

SshPrefs == [method: ApprovalMethod, policy: SshApprovalPolicy]

ASSUME IncomingAssumption == Incoming \subseteq ApprovalRequest
ASSUME ChoicesAssumption == Choices \subseteq ApprovalChoice
ASSUME SshAssumption ==
  /\ InitialSsh \in SshPrefs
  /\ SshSettings \subseteq (ApprovalMethod \cup {NoValue})
                             \X (SshApprovalPolicy \cup {NoValue})
  /\ NoValue \notin ApprovalMethod \cup SshApprovalPolicy \cup ApprovalScope \cup Nat
ASSUME RulesAssumption == TestRules \subseteq Seq(PolicyRule)
ASSUME ProviderModesAssumption == ProviderModes \in [{AWS, DOCKER} -> ApprovalDecision]
ASSUME DelegatedAssumption == DelegatedSets \subseteq SUBSET Namespaces
ASSUME StickyAssumption == Sticky \notin Int
ASSUME TimeAssumption == DefaultTtl \in Nat /\ MaxTime \in Nat
ASSUME BoundsAssumption ==
  MaxRequests \in Nat /\ MaxConn \in Nat /\ MaxGates \in Nat /\ MaxInvoked \in Nat
ASSUME ReuseAssumption == ReuseIds \in BOOLEAN

VARIABLES
  pending,          \* id -> the queued prompt
  gating,           \* ids with a dialog in flight, as the actor believes
  session_grants,   \* key -> Sticky or the time it ends
  engine,           \* the rules in force
  extra_rules,      \* the rules users persisted
  ssh,              \* the SSH preferences
  gate_namespaces,  \* what the agent delegates; {} shows as "not connected"
  posted,           \* ids with a notification on screen
  gates,            \* the gate tasks in flight
  invoked,          \* Decide commands a notification action sent to the actor
  now,              \* wall clock
  conn,             \* connections lost so far
  asked,            \* every request received, with its connection
  answers           \* per received request, the decisions sent for it

vars == <<pending, gating, session_grants, engine, extra_rules, ssh,
          gate_namespaces, posted, gates, invoked, now, conn, asked, answers>>

PendingApproval ==
  [request: ApprovalRequest, gate: PolicyGate, inst: Nat]

(* A gate task: what begin_decide captured, a number that tells two tasks  *)
(* apart, and the outcome, "open" until the user answers the dialog.       *)
GateTask ==
  [n: Nat, request: ApprovalRequest, gate: PolicyGate, choice: ApprovalChoice,
   inst: Nat, outcome: {"open", "approved", "refused"}]

(* What respond() sends for one request: the decision, who made it and the *)
(* scope reported to the agent (NoValue when none is sent).                *)
Answer ==
  [decision: ApprovalDecision, by: {"policy", "user", "touchid", "timeout"},
   scope: ApprovalScope \cup {"always", NoValue}]

AnswerBy(decision, by, scope) == [decision |-> decision, by |-> by, scope |-> scope]

With(f, k, v)  == [x \in DOMAIN f \cup {k} |-> IF x = k THEN v ELSE f[x]]
Without(f, S)  == [x \in DOMAIN f \ S |-> f[x]]
-----------------------------------------------------------------------------
(* Time.  An expiry that cannot be parsed can neither be approved by a     *)
(* user nor swept by the tick.                                             *)

not_expired(req) ==
  req.expires_at # Unparseable /\ req.expires_at > now

(* Mutant of expired_by_tick: the comparison is the wrong way round. *)
expired_by_tick_Swapped(req) ==
  req.expires_at # Unparseable /\ req.expires_at > now

expired_by_tick(req) ==
  req.expires_at # Unparseable /\ req.expires_at < now

valid_grants(grants) ==
  {k \in DOMAIN grants : grants[k] = Sticky \/ grants[k] > now}
-----------------------------------------------------------------------------
(* The policy in force: the SSH rule from the preferences, the live AWS    *)
(* and Docker rules, then what users persisted.                            *)
NamespaceRule(ns, action, gate) ==
  [scope |-> "namespace", server |-> NoValue, namespace |-> ns,
   shed |-> NoValue, action |-> action, gate |-> gate]

ShedRule(server, shed, action) ==
  [scope |-> "shed", server |-> server, namespace |-> NoValue,
   shed |-> shed, action |-> action, gate |-> "none"]

rebuild_policy(prefs, extra) ==
  << NamespaceRule(SSH, namespace_action(prefs.policy),
                   IF prompts(prefs.policy) THEN MethodGate(prefs.method) ELSE "none"),
     NamespaceRule(AWS, ProviderModes[AWS], "none"),
     NamespaceRule(DOCKER, ProviderModes[DOCKER], "none") >> \o extra

(* Persisted rules always name their server, so the code's reading of an   *)
(* absent server as the unnamed one never applies to them.                 *)
Superseded(rule, server, shed) ==
  /\ rule.scope = "shed"
  /\ rule.shed = shed
  /\ rule.server = server

add_shed_rule(extra, server, shed, action) ==
  Append([i \in DOMAIN extra |->
            IF Superseded(extra[i], server, shed)
            THEN [extra[i] EXCEPT !.scope = "removed"]
            ELSE extra[i]],
         ShedRule(server, shed, action))
-----------------------------------------------------------------------------
Init ==
  /\ pending = [x \in {} |-> NoValue]
  /\ gating = {}
  /\ session_grants = [x \in {} |-> NoValue]
  /\ extra_rules = << >>
  /\ ssh = InitialSsh
  /\ engine = rebuild_policy(InitialSsh, << >>)
  /\ gate_namespaces = {}
  /\ posted = {}
  /\ gates = {}
  /\ invoked = << >>
  /\ now = 0
  /\ conn = 0
  /\ asked = << >>
  /\ answers = << >>

(* record_and_respond for queued prompts: decisions maps their ids to what *)
(* is answered.                                                            *)
Answered(decisions, by, scope) ==
  [i \in DOMAIN answers |->
     LET id == asked[i].request.id
     IN  IF id \in DOMAIN decisions /\ pending[id].inst = i
         THEN Append(answers[i], AnswerBy(decisions[id], by, scope))
         ELSE answers[i]]

-----------------------------------------------------------------------------
(* Host-agent events. *)

Connected(delegated) ==
  /\ gate_namespaces' = delegated
  /\ UNCHANGED <<pending, gating, session_grants, engine, extra_rules, ssh,
                 posted, gates, invoked, now, conn, asked, answers>>

(* Mutants of Disconnected: the queue, or the grants, outlive the connection. *)
Disconnected_KeepsPending ==
  /\ conn < MaxConn
  /\ gating' = {}
  /\ session_grants' = Without(session_grants, DOMAIN session_grants)
  /\ gate_namespaces' = {}
  /\ conn' = conn + 1
  /\ UNCHANGED <<pending, engine, extra_rules, ssh, posted, gates, invoked, now,
                 asked, answers>>

Disconnected_KeepsGrants ==
  /\ conn < MaxConn
  /\ posted' = posted \ DOMAIN pending
  /\ pending' = Without(pending, DOMAIN pending)
  /\ gating' = {}
  /\ gate_namespaces' = {}
  /\ conn' = conn + 1
  /\ UNCHANGED <<session_grants, engine, extra_rules, ssh, gates, invoked, now,
                 asked, answers>>

Disconnected ==
  /\ conn < MaxConn
  /\ posted' = posted \ DOMAIN pending
  /\ pending' = Without(pending, DOMAIN pending)
  /\ gating' = {}
  /\ session_grants' = Without(session_grants, DOMAIN session_grants)
  /\ gate_namespaces' = {}
  /\ conn' = conn + 1
  /\ UNCHANGED <<engine, extra_rules, ssh, gates, invoked, now, asked, answers>>

Untrusted ==
  /\ gate_namespaces' = {}
  /\ UNCHANGED <<pending, gating, session_grants, engine, extra_rules, ssh,
                 posted, gates, invoked, now, conn, asked, answers>>

(* A request that the policy decides is answered at once and leaves the    *)
(* queue alone; a prompt is queued and replaces a queued request of its id.*)
handle_approval_request(req) ==
  LET d == decide(engine, req, valid_grants(session_grants))
  IN  /\ Len(asked) < MaxRequests
      /\ ReuseIds \/ \A i \in DOMAIN asked : asked[i].request.id # req.id
      /\ asked' = Append(asked, [request |-> req, conn |-> conn])
      /\ \/ /\ d.action = "prompt"
            /\ gating' = gating \ {req.id}
            /\ posted' = posted \cup {req.id}
            /\ pending' = With(pending, req.id,
                              [request |-> req, gate |-> d.gate,
                               inst |-> Len(asked) + 1])
            /\ answers' = Append(answers, << >>)
         \/ /\ d.action # "prompt"
            /\ answers' = Append(answers, <<AnswerBy(d.action, "policy", NoValue)>>)
            /\ UNCHANGED <<pending, gating, posted>>
      /\ UNCHANGED <<session_grants, engine, extra_rules, ssh, gate_namespaces,
                     gates, invoked, now, conn>>
-----------------------------------------------------------------------------
(* User decisions. *)

(* What a committed choice does to the grants: a deny revokes the grant of *)
(* the key; an approve that is not persisted may add one.                  *)
GrantExpiry(choice) ==
  IF choice.scope = "per-shed" THEN Sticky
  ELSE now + (IF choice.ttl = NoValue THEN DefaultTtl ELSE choice.ttl)

(* Mutant of GrantsAfter: a deny leaves the grant of its key alive. *)
GrantsAfter_DenyKeeps(req, choice) ==
  IF /\ choice.decision = "approve"
     /\ ~choice.persist
     /\ choice.scope \in {"per-shed", "per-session"}
  THEN With(session_grants, KeyOf(req), GrantExpiry(choice))
  ELSE session_grants

GrantsAfter(req, choice) ==
  IF choice.decision = "deny"
  THEN Without(session_grants, {KeyOf(req)})
  ELSE IF ~choice.persist /\ choice.scope \in {"per-shed", "per-session"}
       THEN With(session_grants, KeyOf(req), GrantExpiry(choice))
       ELSE session_grants

(* Mutants of StillOpen: finish_decide forgets to compare the request, or  *)
(* to look at the clock again.                                             *)
StillOpen_AnyRequest(request) ==
  request.id \in DOMAIN pending /\ not_expired(request)

StillOpen_AnyTime(request) ==
  request.id \in DOMAIN pending /\ pending[request.id].request = request

StillOpen(request) ==
  /\ request.id \in DOMAIN pending
  /\ pending[request.id].request = request
  /\ not_expired(request)

Confirmed(gate, choice, outcome) ==
  (choice.decision = "approve" /\ is_biometric(gate)) => outcome = "approved"

Commit(request, gate, choice) ==
  LET by == IF choice.decision = "approve" /\ is_biometric(gate)
            THEN "touchid" ELSE "user"
      scope == IF choice.persist THEN "always"
               ELSE IF choice.scope = NoValue THEN "per-request" ELSE choice.scope
  IN  /\ session_grants' = GrantsAfter(request, choice)
      /\ IF choice.persist
         THEN /\ extra_rules' = add_shed_rule(extra_rules, request.server,
                                              request.shed, choice.decision)
              /\ engine' = rebuild_policy(ssh, extra_rules')
         ELSE UNCHANGED <<extra_rules, engine>>
      /\ answers' = Answered([id \in {request.id} |-> choice.decision], by, scope)
      /\ pending' = Without(pending, {request.id})
      /\ posted' = posted \ {request.id}

(* Mutant of finish_decide: the marker is cleared only when the decision commits. *)
finish_decide_ClearLate(request, gate, choice, outcome) ==
  \/ /\ StillOpen(request) /\ Confirmed(gate, choice, outcome)
     /\ gating' = gating \ {request.id}
     /\ Commit(request, gate, choice)
  \/ /\ ~(StillOpen(request) /\ Confirmed(gate, choice, outcome))
     /\ UNCHANGED <<gating, pending, posted, session_grants, extra_rules, engine, answers>>

(* Phase 2: the marker is cleared whatever happens; the decision commits   *)
(* only against the very request that opened the dialog.                   *)
finish_decide(request, gate, choice, outcome) ==
  /\ gating' = gating \ {request.id}
  /\ \/ /\ StillOpen(request) /\ Confirmed(gate, choice, outcome)
        /\ Commit(request, gate, choice)
     \/ /\ ~(StillOpen(request) /\ Confirmed(gate, choice, outcome))
        /\ UNCHANGED <<pending, posted, session_grants, extra_rules, engine, answers>>

FreeGates == {n \in 1..MaxGates : \A g \in gates : g.n # n}

GateFor(item, choice) ==
  [n |-> CHOOSE n \in FreeGates : TRUE, request |-> item.request,
   gate |-> item.gate, choice |-> choice, inst |-> item.inst, outcome |-> "open"]

NeedsGate(item, choice) == choice.decision = "approve" /\ is_biometric(item.gate)

Actionable(id) == id \in DOMAIN pending /\ not_expired(pending[id].request)

(* Mutant of AlreadyGating: every approve opens a dialog. *)
AlreadyGating_Never(id) == FALSE

AlreadyGating(id) == id \in gating

(* Phase 1: return early when the prompt is gone or expired; an approve    *)
(* that needs a gate spawns the dialog once; everything else commits now.  *)
begin_decide(id, choice) ==
  \/ /\ ~Actionable(id)
     /\ UNCHANGED <<pending, gating, session_grants, engine, extra_rules, posted,
                    gates, answers>>
  \/ /\ Actionable(id)
     /\ NeedsGate(pending[id], choice)
     /\ AlreadyGating(id)
     /\ UNCHANGED <<pending, gating, session_grants, engine, extra_rules, posted,
                    gates, answers>>
  \/ /\ Actionable(id)
     /\ NeedsGate(pending[id], choice)
     /\ ~AlreadyGating(id)
     /\ FreeGates # {}
     /\ gating' = gating \cup {id}
     /\ gates' = gates \cup {GateFor(pending[id], choice)}
     /\ UNCHANGED <<pending, session_grants, engine, extra_rules, posted, answers>>
  \/ /\ Actionable(id)
     /\ ~NeedsGate(pending[id], choice)
     /\ finish_decide(pending[id].request, pending[id].gate, choice, "approved")
     /\ UNCHANGED gates

Decide(id, choice) ==
  /\ begin_decide(id, choice)
  /\ UNCHANGED <<ssh, gate_namespaces, invoked, now, conn, asked>>

(* The user answers (or the system ends) a dialog; its result is now on    *)
(* its way to the actor.                                                   *)
GateAnswered(g, outcome) ==
  /\ g.outcome = "open"
  /\ gates' = (gates \ {g}) \cup {[g EXCEPT !.outcome = outcome]}
  /\ UNCHANGED <<pending, gating, session_grants, engine, extra_rules, ssh,
                 gate_namespaces, posted, invoked, now, conn, asked, answers>>

GateResolved(g) ==
  /\ g.outcome # "open"
  /\ gates' = gates \ {g}
  /\ finish_decide(g.request, g.gate, g.choice, g.outcome)
  /\ UNCHANGED <<ssh, gate_namespaces, invoked, now, conn, asked>>

(* A notification action sends the actor a Decide of its own: the check    *)
(* and the decision are two commands.                                      *)
NotificationInvoke(id, decision) ==
  /\ id \in posted
  /\ Len(invoked) < MaxInvoked
  /\ invoked' = Append(invoked, [id |-> id, decision |-> decision])
  /\ UNCHANGED <<pending, gating, session_grants, engine, extra_rules, ssh,
                 gate_namespaces, posted, gates, now, conn, asked, answers>>

(* A notification the desktop could not raise is forgotten by the notifier *)
(* (module DBusNotifier); its prompt stays queued.                         *)
NotificationLost(id) ==
  /\ posted' = posted \ {id}
  /\ UNCHANGED <<pending, gating, session_grants, engine, extra_rules, ssh,
                 gate_namespaces, gates, invoked, now, conn, asked, answers>>

InvokedDecide ==
  /\ invoked # << >>
  /\ invoked' = Tail(invoked)
  /\ begin_decide(Head(invoked).id,
                  [decision |-> Head(invoked).decision, scope |-> NoValue,
                   ttl |-> NoValue, persist |-> FALSE])
  /\ UNCHANGED <<ssh, gate_namespaces, now, conn, asked>>
-----------------------------------------------------------------------------
(* The one-second sweep. *)
Swept == {id \in DOMAIN pending : expired_by_tick(pending[id].request)}

(* Mutant of expire_pending: swept prompts are answered but stay queued. *)
expire_pending_KeepsQueue ==
  /\ answers' = Answered([id \in Swept |-> "deny"], "timeout", NoValue)
  /\ posted' = posted \ Swept
  /\ UNCHANGED <<pending, gating, session_grants, engine, extra_rules, ssh,
                 gate_namespaces, gates, invoked, now, conn, asked>>

expire_pending ==
  /\ answers' = Answered([id \in Swept |-> "deny"], "timeout", NoValue)
  /\ pending' = Without(pending, Swept)
  /\ posted' = posted \ Swept
  /\ UNCHANGED <<gating, session_grants, engine, extra_rules, ssh,
                 gate_namespaces, gates, invoked, now, conn, asked>>
-----------------------------------------------------------------------------
(* Settings.  Queued prompts are decided again under the new rules: one    *)
(* the policy now decides is answered, the others take the new gate.       *)
Redecided(rules, grants, id) == decide(rules, pending[id].request, valid_grants(grants))

(* Mutant of Refreshed: the queued prompt keeps the gate it was queued with. *)
Refreshed_KeepsGate(rules, grants, id) == pending[id]

Refreshed(rules, grants, id) ==
  IF expired_by_tick(pending[id].request)
  THEN pending[id]
  ELSE [pending[id] EXCEPT !.gate = Redecided(rules, grants, id).gate]

Redecidable(rules, grants) ==
  {id \in DOMAIN pending : /\ ~expired_by_tick(pending[id].request)
                           /\ Redecided(rules, grants, id).action # "prompt"}

reevaluate_pending(rules, grants) ==
  LET decided == Redecidable(rules, grants)
  IN  /\ answers' = Answered([id \in decided |-> Redecided(rules, grants, id).action],
                             "policy", NoValue)
      /\ pending' = [id \in DOMAIN pending \ decided |-> Refreshed(rules, grants, id)]
      /\ posted' = posted \ decided

reset_ssh_grants ==
  Without(session_grants, {k \in DOMAIN session_grants : k.namespace = SSH})

set_ssh_approval(method, policy) ==
  LET prefs == [method |-> IF method = NoValue THEN ssh.method ELSE method,
                policy |-> IF policy = NoValue THEN ssh.policy ELSE policy]
      rules == rebuild_policy(prefs, extra_rules)
  IN  /\ ssh' = prefs
      /\ engine' = rules
      /\ session_grants' = reset_ssh_grants
      /\ reevaluate_pending(rules, reset_ssh_grants)
      /\ UNCHANGED <<gating, extra_rules, gate_namespaces, gates, invoked, now,
                     conn, asked>>

(* The test-mode command replaces the rules and looks at nothing else. *)
SetPolicyRules(rules) ==
  /\ engine' = rules
  /\ UNCHANGED <<pending, gating, session_grants, extra_rules, ssh, gate_namespaces,
                 posted, gates, invoked, now, conn, asked, answers>>

Tick ==
  /\ now < MaxTime
  /\ now' = now + 1
  /\ UNCHANGED <<pending, gating, session_grants, engine, extra_rules, ssh,
                 gate_namespaces, posted, gates, invoked, conn, asked, answers>>

Next ==
  \/ \E d \in DelegatedSets : Connected(d)
  \/ Disconnected
  \/ Untrusted
  \/ \E req \in Incoming : handle_approval_request(req)
  \/ \E id \in Ids, choice \in Choices : Decide(id, choice)
  \/ \E g \in gates, o \in {"approved", "refused"} : GateAnswered(g, o)
  \/ \E g \in gates : GateResolved(g)
  \/ \E id \in Ids, d \in ApprovalDecision : NotificationInvoke(id, d)
  \/ InvokedDecide
  \/ \E id \in posted : NotificationLost(id)
  \/ expire_pending
  \/ \E s \in SshSettings : set_ssh_approval(s[1], s[2])
  \/ \E rules \in TestRules : SetPolicyRules(rules)
  \/ Tick

Spec == Init /\ [][Next]_vars

(* The clock advances and start_expiry_tick sends an Expire every second;  *)
(* nothing forces the agent, the user or a dialog to act.                  *)
FairSpec == Spec /\ WF_vars(Tick) /\ WF_vars(expire_pending)
-----------------------------------------------------------------------------
TypeOK ==
  /\ DOMAIN pending \subseteq Ids
  /\ \A id \in DOMAIN pending :
       pending[id] \in PendingApproval /\ pending[id].request.id = id
  /\ gating \subseteq Ids
  /\ DOMAIN session_grants \subseteq SessionGrantKey
  /\ \A k \in DOMAIN session_grants : session_grants[k] \in Int \cup {Sticky}
  /\ engine \in Seq(PolicyRule)
  /\ extra_rules \in Seq(PolicyRule)
  /\ ssh \in SshPrefs
  /\ gate_namespaces \subseteq Namespaces
  /\ posted \subseteq Ids
  /\ gates \subseteq GateTask
  /\ invoked \in Seq([id: Ids, decision: ApprovalDecision])
  /\ now \in Nat
  /\ conn \in Nat
  /\ asked \in Seq([request: ApprovalRequest, conn: Nat])
  /\ answers \in Seq(Seq(Answer))
-----------------------------------------------------------------------------
(* Vocabulary of the properties. *)
Waiting(i) ==
  /\ i \in DOMAIN asked
  /\ asked[i].request.id \in DOMAIN pending
  /\ pending[asked[i].request.id].inst = i

NewAnswers(i) == answers'[i] # answers[i]

LastAnswer(i) == answers[i][Len(answers[i])]

UserMade(a) == a.by \in {"user", "touchid"}

(* The queue and the history agree: a queued prompt is the request that    *)
(* was received under its number, on the present connection, and nothing   *)
(* has been sent for it; nothing is answered twice.                        *)
HistoryConsistent ==
  /\ Len(answers) = Len(asked)
  /\ \A id \in DOMAIN pending :
       LET i == pending[id].inst
       IN  /\ i \in DOMAIN asked
           /\ asked[i].request = pending[id].request
           /\ asked[i].conn = conn
           /\ answers[i] = << >>
  /\ \A i \in DOMAIN answers : Len(answers[i]) <= 1

(* Decisions race: a user, an open dialog, the sweep, a settings change    *)
(* and a disconnect may all try to settle one request.  The agent gets at  *)
(* most one answer per request it sent, and a queued prompt has none yet.  *)
AnsweredOnce ==
  \A i \in DOMAIN answers :
    /\ Len(answers[i]) <= 1
    /\ Waiting(i) => answers[i] = << >>

(* What the agent may rely on.  Decisions race: a user, an open dialog,    *)
(* the sweep, a settings change and a disconnect may all try to settle one *)
(* request, and nothing but the ledger is seen from outside.               *)
Ledger == INSTANCE ApprovalLedger
            WITH open <- {pending[id].inst : id \in DOMAIN pending},
                 sent <- answers, epoch <- conn

(* The coordinator implements the ledger: every handler is one of its      *)
(* steps or none, so that each request is settled at most once and a       *)
(* settled one is never taken back.                                        *)
KeepsLedger == Ledger!Spec

(* F3: after a disconnect nothing is ever answered on behalf of a request  *)
(* of the lost connection, whatever dialog is still open.                  *)
AnswersStayInTheirConnection ==
  [][\A i \in DOMAIN answers : NewAnswers(i) => asked[i].conn = conn]_vars

(* F4: a decision of the user reaches the wire only while the request is   *)
(* still valid, also when the dialog outlived it; a timeout denial only    *)
(* after it.                                                               *)
DecidedInTime ==
  [][\A i \in DOMAIN answers : NewAnswers(i) =>
       LET expiry == asked[i].request.expires_at
       IN  /\ UserMade(LastAnswer(i)') => expiry # Unparseable /\ expiry > now
           /\ LastAnswer(i)'.by = "timeout" => expiry # Unparseable /\ expiry < now]_vars

(* Consent binds to the request: while a prompt asks for native auth, the  *)
(* only approve a user can cause for it is the confirmed outcome of a      *)
(* dialog that was opened for that very request.                           *)
ConsentBindsRequest ==
  [][\A i \in DOMAIN answers :
       /\ NewAnswers(i)
       /\ UserMade(LastAnswer(i)') /\ LastAnswer(i)'.decision = "approve"
       /\ is_biometric(pending[asked[i].request.id].gate)
       => \E g \in gates \ gates' : /\ g.request = asked[i].request
                                    /\ g.outcome = "approved"
                                    /\ is_biometric(g.gate)]_vars

(* A user approved the server and shed of req for good, or its key for     *)
(* this connection.                                                        *)
EarnedForGood(req) ==
  \E j \in DOMAIN answers : \E n \in DOMAIN answers[j] :
    /\ answers[j][n].decision = "approve" /\ UserMade(answers[j][n])
    /\ answers[j][n].scope = "always"
    /\ asked[j].request.server = req.server
    /\ asked[j].request.shed = req.shed

EarnedForKey(key) ==
  \E j \in DOMAIN answers : \E n \in DOMAIN answers[j] :
    /\ answers[j][n].decision = "approve" /\ UserMade(answers[j][n])
    /\ answers[j][n].scope \in {"per-session", "per-shed"}
    /\ KeyOf(asked[j].request) = key
    /\ asked[j].conn = conn

AllowedOutright(req, prefs) ==
  \/ req.namespace = SSH /\ prefs.policy = "always-allow"
  \/ req.namespace \in {AWS, DOCKER} /\ ProviderModes[req.namespace] = "approve"

(* An automatic approve is always earned: by the setting that allows the   *)
(* namespace outright, by an "always" decision of the user for this server *)
(* and shed, or by a grant the user gave to this key on this very          *)
(* connection (A3, F7, F12).  Holds when the test rules approve nothing.   *)
AutoApprovalEarned ==
  [][\A i \in DOMAIN answers' :
       /\ (i \notin DOMAIN answers \/ NewAnswers(i)) /\ answers'[i] # << >>
       /\ LastAnswer(i)'.decision = "approve" /\ LastAnswer(i)'.by = "policy"
       => LET req == asked'[i].request
          IN  \/ AllowedOutright(req, ssh')
              \/ EarnedForGood(req)
              \/ EarnedForKey(KeyOf(req))]_vars

(* F7: a deny revokes.  Whichever way the user's deny gets through (view,  *)
(* banner, IPC), no grant of the request's key survives it.                *)
DenyRevokes ==
  [][\A i \in DOMAIN answers :
       NewAnswers(i) /\ UserMade(LastAnswer(i)') /\ LastAnswer(i)'.decision = "deny"
       => KeyOf(asked[i].request) \notin DOMAIN session_grants']_vars

(* A2: the in-flight marker never outlives the dialogs of its id.  A stuck *)
(* marker would silently swallow every later approve of that id.           *)
NoStuckGate == gating \subseteq {g.request.id : g \in gates}

(* Only an approve that needs native auth is ever behind a dialog. *)
GatesGenuine ==
  \A g \in gates : g.choice.decision = "approve" /\ is_biometric(g.gate)

(* The inductive invariant of the proofs: the queue, the history, the open *)
(* dialogs and the in-flight markers agree after every command.            *)
IInv == TypeOK /\ HistoryConsistent /\ NoStuckGate /\ GatesGenuine

(* A2: one OS dialog per request. *)
OneDialogPerRequest ==
  \A g, h \in gates : g.inst = h.inst => g = h

(* What the user sees of the queue is current.  A notification always has  *)
(* its prompt, whichever way requests leave the queue; and a prompt that   *)
(* can still be acted on asks for the gate of the policy in force: a       *)
(* settings change reaches the prompts that were queued before it.  The    *)
(* second holds when no test rules are installed.                          *)
QueueIsCurrent ==
  /\ posted \subseteq DOMAIN pending
  /\ \A id \in DOMAIN pending :
       LET d == RuleDecision(engine, pending[id].request)
       IN  not_expired(pending[id].request) /\ d.action = "prompt"
           => pending[id].gate = d.gate

(* A prompt with a readable expiry never lingers: it is answered or        *)
(* dropped with its connection, whatever user and agent do.                *)
NoPromptLingers ==
  \A i \in 1..MaxRequests :
    (/\ Waiting(i)
     /\ asked[i].request.expires_at # Unparseable) ~> ~Waiting(i)
-----------------------------------------------------------------------------
(* expired_by_tick: a prompt whose expiry cannot be read "can't be         *)
(* approved either, so it lingers until disconnect".  Violated: a change   *)
(* to always-allow approves it.                                            *)
UnreadableExpiryLingers ==
  [][\A i \in DOMAIN answers :
       NewAnswers(i) => asked[i].request.expires_at # Unparseable]_vars
=============================================================================
