------------------------- MODULE Coordinator_proofs -------------------------
(***************************************************************************)
(* Proofs about the coordinator for every set of ids, requests, choices    *)
(* and settings, every bound and any number of open dialogs.               *)
(***************************************************************************)
EXTENDS Coordinator, Evaluation_proofs, TLAPS

-----------------------------------------------------------------------------
(* Sequences and the policy engine. *)

(* A function over 1..n with values in T is a sequence of length n over T. *)
LEMMA FunctionIsSeq ==
  ASSUME NEW T, NEW n \in Nat, NEW f \in [1..n -> T]
  PROVE  f \in Seq(T) /\ Len(f) = n /\ DOMAIN f = 1..n
  OBVIOUS

(* The rules built from the preferences form a rule list. *)
LEMMA RebuildType ==
  ASSUME NEW prefs \in SshPrefs, NEW extra \in Seq(PolicyRule)
  PROVE  rebuild_policy(prefs, extra) \in Seq(PolicyRule)
<1>1. namespace_action(prefs.policy) \in PolicyAction
  BY DEF namespace_action, PolicyAction
<1>2. MethodGate(prefs.method) \in PolicyGate /\ "none" \in PolicyGate
  BY DEF MethodGate, PolicyGate, SshPrefs, ApprovalMethod
<1>3. ProviderModes[AWS] \in PolicyAction /\ ProviderModes[DOCKER] \in PolicyAction
  BY ProviderModesAssumption DEF ApprovalDecision, PolicyAction
<1>4. ASSUME NEW ns \in {SSH, AWS, DOCKER}, NEW action \in PolicyAction, NEW gate \in PolicyGate
      PROVE  NamespaceRule(ns, action, gate) \in PolicyRule
  BY <1>4, NamespacesAssumption DEF NamespaceRule, PolicyRule
<1> DEFINE gate == IF prompts(prefs.policy) THEN MethodGate(prefs.method) ELSE "none"
           r1 == NamespaceRule(SSH, namespace_action(prefs.policy), gate)
           r2 == NamespaceRule(AWS, ProviderModes[AWS], "none")
           r3 == NamespaceRule(DOCKER, ProviderModes[DOCKER], "none")
<1>5. r1 \in PolicyRule /\ r2 \in PolicyRule /\ r3 \in PolicyRule
  BY <1>1, <1>2, <1>3, <1>4
<1>6. rebuild_policy(prefs, extra) = <<r1, r2, r3>> \o extra
  BY DEF rebuild_policy
<1> HIDE DEF r1, r2, r3
<1>7. QED
  BY <1>5, <1>6

(* Persisting a decision keeps the list a rule list. *)
LEMMA AddRuleType ==
  ASSUME NEW extra \in Seq(PolicyRule), NEW req \in ApprovalRequest,
         NEW d \in ApprovalDecision
  PROVE  add_shed_rule(extra, req.server, req.shed, d) \in Seq(PolicyRule)
<1> DEFINE kept == [i \in DOMAIN extra |->
                      IF Superseded(extra[i], req.server, req.shed)
                      THEN [extra[i] EXCEPT !.scope = "removed"]
                      ELSE extra[i]]
<1>0. ASSUME NEW r \in PolicyRule PROVE [r EXCEPT !.scope = "removed"] \in PolicyRule
  BY DEF PolicyRule
<1>1. kept \in [1..Len(extra) -> PolicyRule]
  BY <1>0
<1>2. kept \in Seq(PolicyRule)
  BY <1>1, FunctionIsSeq
<1>3. ShedRule(req.server, req.shed, d) \in PolicyRule
  BY DEF ShedRule, PolicyRule, ApprovalRequest, ApprovalDecision, PolicyAction, PolicyGate
<1> HIDE DEF kept
<1>4. add_shed_rule(extra, req.server, req.shed, d)
        = Append(kept, ShedRule(req.server, req.shed, d))
  BY DEF add_shed_rule, kept
<1>5. QED
  BY <1>2, <1>3, <1>4

(* Answering some prompts extends the history of exactly those. *)
LEMMA AnsweredType ==
  ASSUME TypeOK, NEW S, NEW decisions \in [S -> ApprovalDecision],
         NEW by \in {"policy", "user", "touchid", "timeout"},
         NEW scope \in ApprovalScope \cup {"always", NoValue}
  PROVE  /\ Answered(decisions, by, scope) \in Seq(Seq(Answer))
         /\ Len(Answered(decisions, by, scope)) = Len(answers)
<1>1. answers \in Seq(Seq(Answer)) /\ DOMAIN answers = 1..Len(answers) /\ Len(answers) \in Nat
  BY DEF TypeOK
<1>2. ASSUME NEW i \in DOMAIN answers, NEW id \in S
      PROVE  Append(answers[i], AnswerBy(decisions[id], by, scope)) \in Seq(Answer)
  <2>1. AnswerBy(decisions[id], by, scope) \in Answer
    BY <1>2 DEF AnswerBy, Answer
  <2>2. answers[i] \in Seq(Answer)
    BY <1>1, <1>2
  <2>3. QED BY <2>1, <2>2
<1>3. Answered(decisions, by, scope) \in [1..Len(answers) -> Seq(Answer)]
  BY <1>1, <1>2 DEF Answered
<1>4. QED
  BY <1>1, <1>3, FunctionIsSeq
-----------------------------------------------------------------------------
(* Committing a choice to a queued request keeps every type. *)
LEMMA CommitType ==
  ASSUME TypeOK, NEW request \in ApprovalRequest, NEW gate \in PolicyGate,
         NEW choice \in ApprovalChoice, Commit(request, gate, choice)
  PROVE  /\ DOMAIN pending' \subseteq Ids
         /\ \A id \in DOMAIN pending' :
              pending'[id] \in PendingApproval /\ pending'[id].request.id = id
         /\ DOMAIN session_grants' \subseteq SessionGrantKey
         /\ \A k \in DOMAIN session_grants' : session_grants'[k] \in Int \cup {Sticky}
         /\ engine' \in Seq(PolicyRule) /\ extra_rules' \in Seq(PolicyRule)
         /\ posted' \subseteq Ids
         /\ answers' \in Seq(Seq(Answer)) /\ Len(answers') = Len(answers)
<1>1. pending' = Without(pending, {request.id}) /\ posted' = posted \ {request.id}
  BY DEF Commit
<1>2. /\ DOMAIN pending' \subseteq Ids /\ posted' \subseteq Ids
      /\ \A id \in DOMAIN pending' :
           pending'[id] \in PendingApproval /\ pending'[id].request.id = id
  BY <1>1 DEF Without, TypeOK
<1>3. KeyOf(request) \in SessionGrantKey
  BY DEF KeyOf, SessionGrantKey, ApprovalRequest
<1>4. GrantExpiry(choice) \in Int \cup {Sticky}
  BY TimeAssumption DEF GrantExpiry, ApprovalChoice, TypeOK
<1>5. session_grants' = GrantsAfter(request, choice)
  BY DEF Commit
<1>6. /\ DOMAIN session_grants' \subseteq SessionGrantKey
      /\ \A k \in DOMAIN session_grants' : session_grants'[k] \in Int \cup {Sticky}
  BY <1>3, <1>4, <1>5 DEF GrantsAfter, With, Without, TypeOK
<1>7. choice.decision \in ApprovalDecision
  BY DEF ApprovalChoice
<1>8. engine' \in Seq(PolicyRule) /\ extra_rules' \in Seq(PolicyRule)
  <2>1. CASE choice.persist
    <3>1. /\ extra_rules' = add_shed_rule(extra_rules, request.server,
                                          request.shed, choice.decision)
          /\ engine' = rebuild_policy(ssh, extra_rules')
      BY <2>1 DEF Commit
    <3>2. extra_rules' \in Seq(PolicyRule)
      BY <3>1, <1>7, AddRuleType DEF TypeOK
    <3>3. QED BY <3>1, <3>2, RebuildType DEF TypeOK
  <2>2. CASE ~choice.persist
    BY <2>2 DEF Commit, TypeOK
  <2>3. QED BY <2>1, <2>2
<1>9. answers' \in Seq(Seq(Answer)) /\ Len(answers') = Len(answers)
  <2> DEFINE by == IF choice.decision = "approve" /\ is_biometric(gate)
                   THEN "touchid" ELSE "user"
             scope == IF choice.persist THEN "always"
                      ELSE IF choice.scope = NoValue THEN "per-request" ELSE choice.scope
             decisions == [id \in {request.id} |-> choice.decision]
  <2>1. answers' = Answered(decisions, by, scope)
    BY DEF Commit
  <2>2. by \in {"policy", "user", "touchid", "timeout"}
    OBVIOUS
  <2>3. scope \in ApprovalScope \cup {"always", NoValue}
    BY DEF ApprovalScope, ApprovalChoice
  <2>4. decisions \in [{request.id} -> ApprovalDecision]
    BY <1>7
  <2> HIDE DEF by, scope, decisions
  <2>5. QED BY <2>1, <2>2, <2>3, <2>4, AnsweredType
<1>10. QED BY <1>2, <1>6, <1>8, <1>9

(* So does phase 2 of a decision, and phase 1. *)
LEMMA FinishType ==
  ASSUME TypeOK, NEW request \in ApprovalRequest, NEW gate \in PolicyGate,
         NEW choice \in ApprovalChoice, NEW outcome,
         finish_decide(request, gate, choice, outcome),
         UNCHANGED <<ssh, gate_namespaces, now, conn, asked>>,
         gates' \subseteq GateTask,
         invoked' \in Seq([id: Ids, decision: ApprovalDecision])
  PROVE  TypeOK'
<1>1. gating' \subseteq Ids
  BY DEF finish_decide, TypeOK
<1>2. CASE Commit(request, gate, choice)
  BY <1>1, <1>2, CommitType DEF TypeOK
<1>3. CASE UNCHANGED <<pending, posted, session_grants, extra_rules, engine, answers>>
  BY <1>1, <1>3 DEF TypeOK
<1>4. QED BY <1>2, <1>3 DEF finish_decide

(* Phase 1 of a decision keeps the types. *)
LEMMA BeginType ==
  ASSUME TypeOK, NEW id \in Ids, NEW choice \in ApprovalChoice,
         begin_decide(id, choice),
         UNCHANGED <<ssh, gate_namespaces, now, conn, asked>>,
         invoked' \in Seq([id: Ids, decision: ApprovalDecision])
  PROVE  TypeOK'
<1>1. CASE UNCHANGED <<pending, gating, session_grants, engine, extra_rules, posted,
                       gates, answers>>
  BY <1>1 DEF TypeOK
<1>2. CASE /\ Actionable(id) /\ FreeGates # {}
           /\ gating' = gating \cup {id}
           /\ gates' = gates \cup {GateFor(pending[id], choice)}
           /\ UNCHANGED <<pending, session_grants, engine, extra_rules, posted, answers>>
  <2>1. pending[id] \in PendingApproval
    BY <1>2 DEF Actionable, TypeOK
  <2>2. (CHOOSE n \in FreeGates : TRUE) \in Nat
    <3>1. (CHOOSE n \in FreeGates : TRUE) \in FreeGates
      BY <1>2
    <3>2. FreeGates \subseteq Nat
      BY BoundsAssumption DEF FreeGates
    <3>3. QED BY <3>1, <3>2
  <2>3. GateFor(pending[id], choice) \in GateTask
    BY <2>1, <2>2 DEF GateFor, GateTask, PendingApproval
  <2>4. QED
    BY <1>2, <2>3 DEF TypeOK
<1>3. CASE /\ Actionable(id) /\ UNCHANGED gates
           /\ finish_decide(pending[id].request, pending[id].gate, choice, "approved")
  <2>1. pending[id].request \in ApprovalRequest /\ pending[id].gate \in PolicyGate
    BY <1>3 DEF Actionable, TypeOK, PendingApproval
  <2>2. gates' \subseteq GateTask
    BY <1>3 DEF TypeOK
  <2>3. QED BY <1>3, <2>1, <2>2, FinishType
<1>4. QED
  BY <1>1, <1>2, <1>3 DEF begin_decide

(* Queueing or answering a received request. *)
LEMMA RequestType ==
  ASSUME TypeOK, NEW req \in Incoming, handle_approval_request(req)
  PROVE  TypeOK'
<1> DEFINE d == decide(engine, req, valid_grants(session_grants))
<1>1. d \in PolicyDecision
  BY DecideType DEF TypeOK
<1> HIDE DEF d
<1>2. req \in ApprovalRequest /\ req.id \in Ids
  BY IncomingAssumption DEF ApprovalRequest
<1>3. asked' = Append(asked, [request |-> req, conn |-> conn])
        /\ UNCHANGED <<session_grants, engine, extra_rules, ssh, gate_namespaces,
                       gates, invoked, now, conn>>
  BY DEF handle_approval_request
<1>4. asked' \in Seq([request: ApprovalRequest, conn: Nat])
  BY <1>2, <1>3 DEF TypeOK
<1>5. CASE d.action = "prompt"
  <2>1. /\ gating' = gating \ {req.id}
        /\ posted' = posted \cup {req.id}
        /\ pending' = With(pending, req.id, [request |-> req, gate |-> d.gate,
                                            inst |-> Len(asked) + 1])
        /\ answers' = Append(answers, << >>)
    BY <1>5 DEF handle_approval_request, d
  <2>2. [request |-> req, gate |-> d.gate, inst |-> Len(asked) + 1] \in PendingApproval
    BY <1>1, <1>2 DEF PendingApproval, PolicyDecision, TypeOK
  <2>3. /\ DOMAIN pending' \subseteq Ids
        /\ \A id \in DOMAIN pending' :
             pending'[id] \in PendingApproval /\ pending'[id].request.id = id
    BY <1>2, <2>1, <2>2 DEF With, TypeOK
  <2>4. answers' \in Seq(Seq(Answer))
    BY <2>1 DEF TypeOK
  <2>5. QED
    BY <1>2, <1>3, <1>4, <2>1, <2>3, <2>4 DEF TypeOK
<1>6. CASE d.action # "prompt"
  <2>1. /\ answers' = Append(answers, <<AnswerBy(d.action, "policy", NoValue)>>)
        /\ UNCHANGED <<pending, gating, posted>>
    BY <1>6 DEF handle_approval_request, d
  <2>2. AnswerBy(d.action, "policy", NoValue) \in Answer
    BY <1>1, <1>6 DEF AnswerBy, Answer, PolicyDecision, PolicyAction, ApprovalDecision
  <2>3. answers' \in Seq(Seq(Answer))
    BY <2>1, <2>2 DEF TypeOK
  <2>4. QED
    BY <1>3, <1>4, <2>1, <2>3 DEF TypeOK
<1>7. QED BY <1>5, <1>6

(* Deciding queued prompts again after a settings change. *)
LEMMA SettingsType ==
  ASSUME TypeOK, NEW method \in ApprovalMethod \cup {NoValue},
         NEW policy \in SshApprovalPolicy \cup {NoValue},
         set_ssh_approval(method, policy)
  PROVE  TypeOK' /\ Len(answers') = Len(answers)
<1> DEFINE prefs == [method |-> IF method = NoValue THEN ssh.method ELSE method,
                     policy |-> IF policy = NoValue THEN ssh.policy ELSE policy]
           rules == rebuild_policy(prefs, extra_rules)
           grants == reset_ssh_grants
           decided == Redecidable(rules, grants)
<1>1. prefs \in SshPrefs
  BY DEF SshPrefs, TypeOK
<1>2. rules \in Seq(PolicyRule)
  <2> HIDE DEF prefs
  <2>1. QED BY <1>1, RebuildType DEF TypeOK
<1>3. /\ ssh' = prefs /\ engine' = rules /\ session_grants' = grants
      /\ reevaluate_pending(rules, grants)
      /\ UNCHANGED <<gating, extra_rules, gate_namespaces, gates, invoked, now, conn, asked>>
  BY DEF set_ssh_approval
<1> HIDE DEF prefs, rules
<1>4. /\ DOMAIN session_grants' \subseteq SessionGrantKey
      /\ \A k \in DOMAIN session_grants' : session_grants'[k] \in Int \cup {Sticky}
  BY <1>3 DEF reset_ssh_grants, Without, TypeOK
<1> HIDE DEF grants
<1>5. ASSUME NEW id \in DOMAIN pending
      PROVE  /\ Redecided(rules, grants, id) \in PolicyDecision
             /\ Refreshed(rules, grants, id) \in PendingApproval
             /\ Refreshed(rules, grants, id).request = pending[id].request
             /\ Refreshed(rules, grants, id).inst = pending[id].inst
  <2>1. Redecided(rules, grants, id) \in PolicyDecision
    BY <1>2, DecideType DEF Redecided
  <2>2. Redecided(rules, grants, id).gate \in PolicyGate
    BY <2>1 DEF PolicyDecision
  <2>3. ASSUME NEW p \in PendingApproval, NEW gate \in PolicyGate
        PROVE  /\ [p EXCEPT !.gate = gate] \in PendingApproval
               /\ [p EXCEPT !.gate = gate].request = p.request
               /\ [p EXCEPT !.gate = gate].inst = p.inst
    BY <2>3 DEF PendingApproval
  <2>4. pending[id] \in PendingApproval
    BY <1>5 DEF TypeOK
  <2>5. QED BY <2>1, <2>2, <2>3, <2>4 DEF Refreshed
<1>6. decided \subseteq DOMAIN pending
  BY DEF Redecidable
<1>7. [id \in decided |-> Redecided(rules, grants, id).action]
        \in [decided -> ApprovalDecision]
  <2>1. ASSUME NEW id \in decided
        PROVE  Redecided(rules, grants, id).action \in ApprovalDecision
    BY <1>5, <1>6, <2>1 DEF Redecidable, PolicyDecision, PolicyAction, ApprovalDecision
  <2>2. QED BY <2>1
<1>8. answers' = Answered([id \in decided |-> Redecided(rules, grants, id).action],
                          "policy", NoValue)
  BY <1>3 DEF reevaluate_pending
<1>9. answers' \in Seq(Seq(Answer)) /\ Len(answers') = Len(answers)
  <2> DEFINE decisions == [id \in decided |-> Redecided(rules, grants, id).action]
  <2>1. decisions \in [decided -> ApprovalDecision]
    BY <1>7
  <2> HIDE DEF decided
  <2>2. answers' = Answered(decisions, "policy", NoValue)
    BY <1>8
  <2> HIDE DEF decisions
  <2>3. QED BY <2>1, <2>2, AnsweredType
<1>10. /\ pending' = [id \in DOMAIN pending \ decided |-> Refreshed(rules, grants, id)]
       /\ posted' = posted \ decided
  BY <1>3 DEF reevaluate_pending
<1>11. /\ DOMAIN pending' \subseteq Ids
       /\ \A id \in DOMAIN pending' :
            pending'[id] \in PendingApproval /\ pending'[id].request.id = id
  BY <1>5, <1>10 DEF TypeOK
<1>12. QED
  BY <1>1, <1>2, <1>3, <1>4, <1>9, <1>10, <1>11 DEF TypeOK

(* Every action keeps the types. *)
LEMMA NextType ==
  ASSUME TypeOK, [Next]_vars
  PROVE  TypeOK'
<1>1. ASSUME NEW delegated \in DelegatedSets, Connected(delegated) PROVE TypeOK'
  BY <1>1, DelegatedAssumption DEF Connected, TypeOK
<1>2. CASE Disconnected
  BY <1>2 DEF Disconnected, Without, TypeOK
<1>3. CASE Untrusted
  BY <1>3 DEF Untrusted, TypeOK
<1>4. ASSUME NEW req \in Incoming, handle_approval_request(req) PROVE TypeOK'
  BY <1>4, RequestType
<1>5. ASSUME NEW id \in Ids, NEW choice \in Choices, Decide(id, choice) PROVE TypeOK'
  <2>1. choice \in ApprovalChoice
    BY ChoicesAssumption
  <2>2. invoked' \in Seq([id: Ids, decision: ApprovalDecision])
    BY <1>5 DEF Decide, TypeOK
  <2>3. QED BY <1>5, <2>1, <2>2, BeginType DEF Decide
<1>6. ASSUME NEW g \in gates, NEW o \in {"approved", "refused"}, GateAnswered(g, o)
      PROVE  TypeOK'
  <2>1. ASSUME NEW t \in GateTask PROVE [t EXCEPT !.outcome = o] \in GateTask
    BY <1>6, <2>1 DEF GateTask
  <2>2. gates' \subseteq GateTask
    BY <1>6, <2>1 DEF GateAnswered, TypeOK
  <2>3. QED BY <1>6, <2>2 DEF GateAnswered, TypeOK
<1>7. ASSUME NEW g \in gates, GateResolved(g) PROVE TypeOK'
  <2>1. g.request \in ApprovalRequest /\ g.gate \in PolicyGate /\ g.choice \in ApprovalChoice
    BY <1>7 DEF TypeOK, GateTask
  <2>2. /\ gates' \subseteq GateTask
        /\ invoked' \in Seq([id: Ids, decision: ApprovalDecision])
    BY <1>7 DEF GateResolved, TypeOK
  <2>3. QED BY <1>7, <2>1, <2>2, FinishType DEF GateResolved
<1>8. ASSUME NEW id \in Ids, NEW d \in ApprovalDecision, NotificationInvoke(id, d)
      PROVE  TypeOK'
  BY <1>8 DEF NotificationInvoke, TypeOK
<1>9. CASE InvokedDecide
  <2> DEFINE Action == [id: Ids, decision: ApprovalDecision]
  <2>0. invoked \in Seq(Action) /\ invoked # << >>
    BY <1>9 DEF InvokedDecide, TypeOK
  <2> HIDE DEF Action
  <2>10. Head(invoked) \in Action /\ Tail(invoked) \in Seq(Action)
    BY <2>0
  <2>1. Head(invoked) \in [id: Ids, decision: ApprovalDecision]
        /\ Tail(invoked) \in Seq([id: Ids, decision: ApprovalDecision])
    BY <2>10 DEF Action
  <2>2. [decision |-> Head(invoked).decision, scope |-> NoValue, ttl |-> NoValue,
         persist |-> FALSE] \in ApprovalChoice
    BY <2>1 DEF ApprovalChoice
  <2>3. QED BY <1>9, <2>1, <2>2, BeginType DEF InvokedDecide
<1>10. CASE expire_pending
  <2>1. [id \in Swept |-> "deny"] \in [Swept -> ApprovalDecision]
    BY DEF ApprovalDecision
  <2>2. answers' \in Seq(Seq(Answer))
    BY <1>10, <2>1, AnsweredType DEF expire_pending
  <2>3. QED BY <1>10, <2>2 DEF expire_pending, Without, TypeOK
<1>11. ASSUME NEW s \in SshSettings, set_ssh_approval(s[1], s[2]) PROVE TypeOK'
  <2>1. s[1] \in ApprovalMethod \cup {NoValue} /\ s[2] \in SshApprovalPolicy \cup {NoValue}
    BY SshAssumption
  <2>2. QED BY <1>11, <2>1, SettingsType
<1>12. ASSUME NEW rules \in TestRules, SetPolicyRules(rules) PROVE TypeOK'
  BY <1>12, RulesAssumption DEF SetPolicyRules, TypeOK
<1>13. CASE Tick
  BY <1>13 DEF Tick, TypeOK
<1>14. CASE UNCHANGED vars
  BY <1>14 DEF vars, TypeOK
<1>15. ASSUME NEW id \in posted, NotificationLost(id) PROVE TypeOK'
  BY <1>15 DEF NotificationLost, TypeOK
<1>16. QED
  BY <1>1, <1>2, <1>3, <1>4, <1>5, <1>6, <1>7, <1>8, <1>9, <1>10, <1>11, <1>12,
     <1>13, <1>14, <1>15 DEF Next

(* Type correctness: whatever the agent, the users and the dialogs do, the *)
(* coordinator's state keeps its shape.                                    *)
THEOREM TypeCorrect == Spec => []TypeOK
<1>1. Init => TypeOK
  <2> SUFFICES ASSUME Init PROVE TypeOK
    OBVIOUS
  <2>1. engine \in Seq(PolicyRule)
    <3>1. InitialSsh \in SshPrefs /\ << >> \in Seq(PolicyRule)
      BY SshAssumption
    <3>2. rebuild_policy(InitialSsh, << >>) \in Seq(PolicyRule)
      BY <3>1, RebuildType
    <3>3. QED BY <3>2 DEF Init
  <2>2. QED BY <2>1, SshAssumption DEF Init, TypeOK
<1>2. TypeOK /\ [Next]_vars => TypeOK'
  BY NextType
<1>3. QED BY <1>1, <1>2, PTL DEF Spec
-----------------------------------------------------------------------------
(* What the answer to request i tells: it was queued under its id, on this *)
(* connection, and this is its first answer.                               *)
Settled(i, S, decisions, by, scope) ==
  LET id == asked[i].request.id
  IN  /\ id \in S
      /\ pending[id].inst = i
      /\ pending[id].request = asked[i].request
      /\ asked[i].conn = conn
      /\ answers[i] = << >>
      /\ answers'[i] = <<AnswerBy(decisions[id], by, scope)>>

(* The open requests of the ledger, and a step of it or none. *)
Open == {pending[id].inst : id \in DOMAIN pending}
LedgerStep == Ledger!Next \/ UNCHANGED <<Open, answers, conn>>

(* A step that touches neither queue, history nor connection is none of    *)
(* the ledger's.                                                           *)
LEMMA LedgerIdle ==
  ASSUME UNCHANGED <<pending, conn, answers>>
  PROVE  LedgerStep
  BY DEF LedgerStep, Open

(* Answering queued prompts and taking them off the queue is one Settle of *)
(* the ledger.                                                             *)
LEMMA AnsweredSettles ==
  ASSUME IInv,
         NEW S \in SUBSET DOMAIN pending, NEW decisions, NEW by, NEW scope,
         conn' = conn, Len(answers') = Len(answers),
         \A i \in DOMAIN answers :
            \/ answers'[i] = answers[i] /\ ~ (asked[i].request.id \in S
                                               /\ pending[asked[i].request.id].inst = i)
            \/ Settled(i, S, decisions, by, scope),
         DOMAIN pending' = DOMAIN pending \ S,
         \A id \in DOMAIN pending' : pending'[id].inst = pending[id].inst
  PROVE  LedgerStep
<1> DEFINE settled == {pending[id].inst : id \in S}
<1>1. \A id \in DOMAIN pending :
        pending[id].inst \in DOMAIN asked /\ asked[pending[id].inst].request.id = id
  BY DEF IInv, TypeOK, HistoryConsistent
<1>2. settled \in SUBSET Open
  BY DEF Open
<1>3. Open' = Open \ settled
  BY <1>1 DEF Open
<1>4. ASSUME NEW i \in DOMAIN answers
      PROVE  IF i \in settled THEN Len(answers[i]) = 0 /\ Len(answers'[i]) = 1
             ELSE answers'[i] = answers[i]
  <2>1. CASE Settled(i, S, decisions, by, scope)
    <3>1. answers[i] = << >> /\ i \in settled
      BY <2>1 DEF Settled
    <3>2. Len(answers'[i]) = 1
      BY <2>1 DEF Settled
    <3>3. QED BY <3>1, <3>2
  <2>2. CASE answers'[i] = answers[i] /\ ~ (asked[i].request.id \in S
                                            /\ pending[asked[i].request.id].inst = i)
    <3>1. i \notin settled
      BY <1>1, <2>2
    <3>2. QED BY <2>2, <3>1
  <2>3. QED BY <2>1, <2>2
<1>5. Ledger!Settle
  <2> HIDE DEF settled
  <2>1. QED BY <1>2, <1>3, <1>4 DEF Ledger!Settle, Open
<1>6. QED BY <1>5 DEF LedgerStep, Ledger!Next

(* Answering queued prompts and taking them off the queue keeps the queue  *)
(* and the history in agreement.                                           *)
LEMMA AnsweredHistory ==
  ASSUME IInv,
         NEW S \in SUBSET DOMAIN pending, NEW decisions \in [S -> ApprovalDecision],
         NEW by \in {"policy", "user", "touchid", "timeout"},
         NEW scope \in ApprovalScope \cup {"always", NoValue},
         answers' = Answered(decisions, by, scope), asked' = asked, conn' = conn,
         DOMAIN pending' = DOMAIN pending \ S,
         \A id \in DOMAIN pending' : /\ pending'[id].request = pending[id].request
                                     /\ pending'[id].inst = pending[id].inst
  PROVE  /\ HistoryConsistent'
         /\ LedgerStep
         /\ \A i \in DOMAIN answers :
              NewAnswers(i) => Settled(i, S, decisions, by, scope)
<1>0. TypeOK
  BY DEF IInv
<1>1. Len(answers') = Len(answers) /\ Len(answers) = Len(asked)
  <2>1. Len(answers') = Len(answers)
    BY <1>0, AnsweredType
  <2>2. QED BY <2>1 DEF IInv, HistoryConsistent
<1>2. /\ answers \in Seq(Seq(Answer)) /\ asked \in Seq([request: ApprovalRequest, conn: Nat])
      /\ answers' \in Seq(Seq(Answer))
  BY <1>0, AnsweredType DEF TypeOK
<1>3. DOMAIN answers = DOMAIN asked /\ DOMAIN answers' = DOMAIN answers
  BY <1>1, <1>2
<1>4. ASSUME NEW i \in DOMAIN answers
      PROVE  \/ answers'[i] = answers[i] /\ ~ (asked[i].request.id \in S
                                               /\ pending[asked[i].request.id].inst = i)
             \/ Settled(i, S, decisions, by, scope)
  <2> DEFINE id == asked[i].request.id
  <2>1. answers'[i] = IF id \in S /\ pending[id].inst = i
                      THEN Append(answers[i], AnswerBy(decisions[id], by, scope))
                      ELSE answers[i]
    BY <1>4 DEF Answered
  <2>2. CASE id \in S /\ pending[id].inst = i
    <3>1. /\ asked[i].request = pending[id].request /\ asked[i].conn = conn
          /\ answers[i] = << >>
      BY <2>2 DEF IInv, HistoryConsistent
    <3>2. answers'[i] = <<AnswerBy(decisions[id], by, scope)>>
      BY <2>1, <2>2, <3>1
    <3>3. QED BY <2>2, <3>1, <3>2 DEF Settled
  <2>3. CASE ~ (id \in S /\ pending[id].inst = i)
    BY <2>1, <2>3
  <2>4. QED BY <2>2, <2>3
<1>5. ASSUME NEW id \in DOMAIN pending'
      PROVE  LET i == pending'[id].inst
             IN  /\ i \in DOMAIN asked' /\ asked'[i].request = pending'[id].request
                 /\ asked'[i].conn = conn' /\ answers'[i] = << >>
  <2>1. id \in DOMAIN pending /\ id \notin S
    BY <1>5
  <2> DEFINE i == pending[id].inst
  <2>2. /\ i \in DOMAIN asked /\ asked[i].request = pending[id].request
        /\ asked[i].conn = conn /\ answers[i] = << >>
    BY <2>1 DEF IInv, HistoryConsistent
  <2>3. asked[i].request.id = id
    BY <2>1, <2>2 DEF IInv, TypeOK
  <2>4. answers'[i] = << >>
    BY <1>3, <1>4, <2>1, <2>2, <2>3 DEF Settled
  <2>5. QED BY <1>5, <2>1, <2>2, <2>4
<1>6. ASSUME NEW i \in DOMAIN answers' PROVE Len(answers'[i]) <= 1
  <2>1. CASE answers'[i] = answers[i]
    BY <1>3, <2>1 DEF IInv, HistoryConsistent
  <2>2. CASE Settled(i, S, decisions, by, scope)
    <3>1. answers'[i] = <<AnswerBy(decisions[asked[i].request.id], by, scope)>>
      BY <2>2 DEF Settled
    <3>2. QED BY <3>1
  <2>3. QED BY <1>3, <1>4, <2>1, <2>2
<1>7. HistoryConsistent'
  BY <1>1, <1>5, <1>6 DEF HistoryConsistent
<1>8. LedgerStep
  BY <1>1, <1>4, AnsweredSettles
<1>9. QED BY <1>4, <1>7, <1>8 DEF NewAnswers

(* What every new answer for a queued request satisfies, whichever action  *)
(* sends it.                                                               *)
Justified(i) ==
  LET req == asked[i].request
  IN  /\ req.id \in DOMAIN pending
      /\ pending[req.id].request = req
      /\ asked[i].conn = conn
      /\ answers[i] = << >> /\ Len(answers'[i]) = 1
      /\ answers'[i][1].by = "timeout" => expired_by_tick(req)
      /\ UserMade(answers'[i][1]) => not_expired(req)
      /\ UserMade(answers'[i][1]) /\ answers'[i][1].decision = "deny"
         => KeyOf(req) \notin DOMAIN session_grants'
      /\ /\ UserMade(answers'[i][1]) /\ answers'[i][1].decision = "approve"
         /\ is_biometric(pending[req.id].gate)
         => \E g \in gates \ gates' : /\ g.request = req
                                      /\ g.outcome = "approved"
                                      /\ is_biometric(g.gate)

(* A committed choice answers only the request it was made for, in time,   *)
(* and only with the consent its gate asks for.                            *)
LEMMA FinishHistory ==
  ASSUME IInv, NEW request \in ApprovalRequest, NEW gate \in PolicyGate,
         NEW choice \in ApprovalChoice, NEW outcome,
         finish_decide(request, gate, choice, outcome), asked' = asked, conn' = conn,
         \/ ~NeedsGate(pending[request.id], choice)
         \/ \E g \in gates \ gates' : /\ g.request = request
                                      /\ g.outcome = outcome
                                      /\ g.gate = gate
                                      /\ is_biometric(g.gate)
                                      /\ choice.decision = "approve"
  PROVE  /\ HistoryConsistent' /\ LedgerStep
         /\ \A i \in DOMAIN answers : NewAnswers(i) => Justified(i)
<1>1. CASE /\ StillOpen(request) /\ Confirmed(gate, choice, outcome)
           /\ Commit(request, gate, choice)
  <2> DEFINE by == IF choice.decision = "approve" /\ is_biometric(gate)
                   THEN "touchid" ELSE "user"
             scope == IF choice.persist THEN "always"
                      ELSE IF choice.scope = NoValue THEN "per-request" ELSE choice.scope
             decisions == [id \in {request.id} |-> choice.decision]
  <2>1. /\ answers' = Answered(decisions, by, scope)
        /\ pending' = Without(pending, {request.id})
    BY <1>1 DEF Commit
  <2>2. by \in {"policy", "user", "touchid", "timeout"} /\ by # "timeout"
    OBVIOUS
  <2>3. scope \in ApprovalScope \cup {"always", NoValue}
    BY DEF ApprovalScope, ApprovalChoice
  <2>4. /\ decisions \in [{request.id} -> ApprovalDecision]
        /\ decisions[request.id] = choice.decision
    BY DEF ApprovalChoice
  <2> HIDE DEF by, scope, decisions
  <2>5. /\ {request.id} \in SUBSET DOMAIN pending
        /\ DOMAIN pending' = DOMAIN pending \ {request.id}
        /\ \A id \in DOMAIN pending' : /\ pending'[id].request = pending[id].request
                                       /\ pending'[id].inst = pending[id].inst
    BY <1>1, <2>1 DEF StillOpen, Without
  <2>6. /\ HistoryConsistent' /\ LedgerStep
        /\ \A i \in DOMAIN answers :
             NewAnswers(i) => Settled(i, {request.id}, decisions, by, scope)
    BY <2>1, <2>2, <2>3, <2>4, <2>5, AnsweredHistory, ZenonT(60)
  <2>7. ASSUME NEW i \in DOMAIN answers, NewAnswers(i) PROVE Justified(i)
    <3>1. Settled(i, {request.id}, decisions, by, scope)
      BY <2>6, <2>7
    <3>2. /\ asked[i].request.id = request.id
          /\ pending[request.id].request = asked[i].request
          /\ asked[i].conn = conn /\ answers[i] = << >>
          /\ answers'[i] = <<AnswerBy(choice.decision, by, scope)>>
      BY <3>1, <2>4 DEF Settled
    <3>3. asked[i].request = request
      BY <1>1, <3>2 DEF StillOpen
    <3>4. /\ Len(answers'[i]) = 1 /\ answers'[i][1] = AnswerBy(choice.decision, by, scope)
      BY <3>2
    <3>5. answers'[i][1].by = by /\ answers'[i][1].decision = choice.decision
      BY <3>4 DEF AnswerBy
    <3>6. not_expired(request) /\ request.id \in DOMAIN pending
      BY <1>1 DEF StillOpen
    <3>7. choice.decision = "approve" /\ is_biometric(pending[request.id].gate)
          => \E g \in gates \ gates' : /\ g.request = request
                                       /\ g.outcome = "approved"
                                       /\ is_biometric(g.gate)
      BY <1>1 DEF Confirmed, NeedsGate
    <3>8. choice.decision = "deny" => KeyOf(request) \notin DOMAIN session_grants'
      BY <1>1 DEF Commit, GrantsAfter, Without
    <3>9. QED
      BY <2>2, <3>2, <3>3, <3>4, <3>5, <3>6, <3>7, <3>8 DEF Justified
  <2>8. QED BY <2>6, <2>7
<1>2. CASE UNCHANGED <<pending, posted, session_grants, extra_rules, engine, answers>>
  BY <1>2, LedgerIdle DEF IInv, HistoryConsistent, NewAnswers
<1>3. QED BY <1>1, <1>2 DEF finish_decide

(* Phase 1 of a decision keeps queue and history in agreement, and answers *)
(* only what it may.                                                       *)
LEMMA BeginHistory ==
  ASSUME IInv, NEW id \in Ids, NEW choice \in ApprovalChoice,
         begin_decide(id, choice), asked' = asked, conn' = conn
  PROVE  /\ HistoryConsistent' /\ LedgerStep
         /\ \A i \in DOMAIN answers : NewAnswers(i) => Justified(i)
<1>1. CASE UNCHANGED <<pending, answers>>
  BY <1>1, LedgerIdle DEF IInv, HistoryConsistent, NewAnswers
<1>2. CASE /\ Actionable(id) /\ ~NeedsGate(pending[id], choice)
           /\ finish_decide(pending[id].request, pending[id].gate, choice, "approved")
  <2>1. /\ pending[id].request \in ApprovalRequest /\ pending[id].gate \in PolicyGate
        /\ pending[id].request.id = id
    BY <1>2 DEF Actionable, IInv, TypeOK, PendingApproval
  <2>2. QED BY <1>2, <2>1, FinishHistory
<1>3. QED BY <1>1, <1>2 DEF begin_decide

(* Deciding the queue again answers by policy only. *)
LEMMA SettingsHistory ==
  ASSUME IInv, NEW method \in ApprovalMethod \cup {NoValue},
         NEW policy \in SshApprovalPolicy \cup {NoValue},
         set_ssh_approval(method, policy)
  PROVE  /\ HistoryConsistent' /\ LedgerStep
         /\ \A i \in DOMAIN answers : NewAnswers(i) => Justified(i)
<1> DEFINE prefs == [method |-> IF method = NoValue THEN ssh.method ELSE method,
                     policy |-> IF policy = NoValue THEN ssh.policy ELSE policy]
           rules == rebuild_policy(prefs, extra_rules)
           grants == reset_ssh_grants
           decided == Redecidable(rules, grants)
           decisions == [id \in decided |-> Redecided(rules, grants, id).action]
<1>1. prefs \in SshPrefs
  BY DEF SshPrefs, IInv, TypeOK
<1>2. rules \in Seq(PolicyRule)
  <2> HIDE DEF prefs
  <2>1. QED BY <1>1, RebuildType DEF IInv, TypeOK
<1>3. reevaluate_pending(rules, grants) /\ asked' = asked /\ conn' = conn
  BY DEF set_ssh_approval
<1> HIDE DEF prefs, rules, grants
<1>4. ASSUME NEW id \in DOMAIN pending
      PROVE  /\ Redecided(rules, grants, id) \in PolicyDecision
             /\ Refreshed(rules, grants, id).request = pending[id].request
             /\ Refreshed(rules, grants, id).inst = pending[id].inst
  <2>1. Redecided(rules, grants, id) \in PolicyDecision
    BY <1>2, DecideType DEF Redecided
  <2>2. ASSUME NEW p \in PendingApproval, NEW gate
        PROVE  /\ [p EXCEPT !.gate = gate].request = p.request
               /\ [p EXCEPT !.gate = gate].inst = p.inst
    BY <2>2 DEF PendingApproval
  <2>3. pending[id] \in PendingApproval
    BY <1>4 DEF IInv, TypeOK
  <2>4. QED BY <2>1, <2>2, <2>3 DEF Refreshed
<1>5. decided \in SUBSET DOMAIN pending
  BY DEF Redecidable
<1>6. decisions \in [decided -> ApprovalDecision]
  <2>1. ASSUME NEW id \in decided
        PROVE  Redecided(rules, grants, id).action \in ApprovalDecision
    BY <1>4, <1>5, <2>1 DEF Redecidable, PolicyDecision, PolicyAction, ApprovalDecision
  <2>2. QED BY <2>1
<1>7. /\ answers' = Answered(decisions, "policy", NoValue)
      /\ pending' = [id \in DOMAIN pending \ decided |-> Refreshed(rules, grants, id)]
  BY <1>3 DEF reevaluate_pending
<1> HIDE DEF decided, decisions
<1>8. /\ DOMAIN pending' = DOMAIN pending \ decided
      /\ \A id \in DOMAIN pending' : /\ pending'[id].request = pending[id].request
                                     /\ pending'[id].inst = pending[id].inst
  BY <1>4, <1>7
<1>9. /\ HistoryConsistent' /\ LedgerStep
      /\ \A i \in DOMAIN answers :
           NewAnswers(i) => Settled(i, decided, decisions, "policy", NoValue)
  BY <1>3, <1>5, <1>6, <1>7, <1>8, AnsweredHistory
<1>10. ASSUME NEW i \in DOMAIN answers, Settled(i, decided, decisions, "policy", NoValue)
       PROVE  Justified(i)
  <2> DEFINE id == asked[i].request.id
  <2>1. /\ id \in DOMAIN pending /\ pending[id].request = asked[i].request
        /\ asked[i].conn = conn /\ answers[i] = << >>
        /\ answers'[i] = <<AnswerBy(decisions[id], "policy", NoValue)>>
    BY <1>5, <1>10 DEF Settled
  <2>2. Len(answers'[i]) = 1 /\ answers'[i][1].by = "policy"
    BY <2>1 DEF AnswerBy
  <2>3. QED BY <2>1, <2>2 DEF Justified, UserMade
<1>11. QED BY <1>9, <1>10

(* Every step keeps queue and history in agreement and sends only          *)
(* justified answers.                                                      *)
LEMMA StepJustified ==
  ASSUME IInv, [Next]_vars
  PROVE  /\ HistoryConsistent' /\ LedgerStep
         /\ \A i \in DOMAIN answers : NewAnswers(i) => Justified(i)
<1> DEFINE Goal == /\ HistoryConsistent' /\ LedgerStep
                   /\ \A i \in DOMAIN answers : NewAnswers(i) => Justified(i)
<1>1. CASE UNCHANGED <<pending, conn, asked, answers>>
  BY <1>1, LedgerIdle DEF IInv, HistoryConsistent, NewAnswers
<1>2. CASE Disconnected
  <2>1. Open' = {} /\ conn' = conn + 1 /\ answers' = answers
    BY <1>2 DEF Disconnected, Without, Open
  <2>2. Ledger!Drop
    BY <2>1 DEF Ledger!Drop, Open
  <2>3. LedgerStep
    BY <2>2 DEF LedgerStep, Ledger!Next
  <2>4. QED BY <1>2, <2>3 DEF Disconnected, Without, IInv, HistoryConsistent, NewAnswers
<1>3. ASSUME NEW req \in Incoming, handle_approval_request(req) PROVE Goal
  <2>1. /\ asked' = Append(asked, [request |-> req, conn |-> conn])
        /\ conn' = conn
    BY <1>3 DEF handle_approval_request
  <2>2. PICK first \in Seq(Answer) :
          /\ answers' = Append(answers, first)
          /\ Len(first) <= 1
          /\ \/ UNCHANGED pending /\ Len(first) = 1
             \/ \E gate : /\ first = << >>
                          /\ pending' = With(pending, req.id,
                                  [request |-> req, gate |-> gate, inst |-> Len(asked) + 1])
    <3> DEFINE d == decide(engine, req, valid_grants(session_grants))
    <3>1. d \in PolicyDecision
      BY DecideType DEF IInv, TypeOK
    <3>2. d.action # "prompt" => AnswerBy(d.action, "policy", NoValue) \in Answer
      <4> HIDE DEF d
      <4>1. QED
        BY <3>1 DEF AnswerBy, Answer, PolicyDecision, PolicyAction, ApprovalDecision
    <3>3. \/ /\ d.action = "prompt"
             /\ pending' = With(pending, req.id,
                               [request |-> req, gate |-> d.gate, inst |-> Len(asked) + 1])
             /\ answers' = Append(answers, << >>)
          \/ /\ d.action # "prompt"
             /\ answers' = Append(answers, <<AnswerBy(d.action, "policy", NoValue)>>)
             /\ UNCHANGED pending
      BY <1>3 DEF handle_approval_request
    <3> HIDE DEF d
    <3>4. CASE d.action = "prompt"
      <4>1. << >> \in Seq(Answer) /\ Len(<< >>) <= 1
        OBVIOUS
      <4>2. \E gate : pending' = With(pending, req.id,
              [request |-> req, gate |-> gate, inst |-> Len(asked) + 1])
        BY <3>3, <3>4
      <4>3. answers' = Append(answers, << >>)
        BY <3>3, <3>4
      <4>4. QED BY <4>1, <4>2, <4>3, Zenon
    <3>5. CASE d.action # "prompt"
      <4> DEFINE one == <<AnswerBy(d.action, "policy", NoValue)>>
      <4>1. one \in Seq(Answer) /\ Len(one) = 1 /\ Len(one) <= 1
        BY <3>2, <3>5
      <4>2. UNCHANGED pending /\ answers' = Append(answers, one)
        BY <3>3, <3>5
      <4> HIDE DEF one
      <4>3. QED BY <4>1, <4>2, Zenon
    <3>6. QED BY <3>4, <3>5
  <2>3. /\ answers \in Seq(Seq(Answer)) /\ asked \in Seq([request: ApprovalRequest, conn: Nat])
        /\ Len(answers) = Len(asked)
    BY DEF IInv, TypeOK, HistoryConsistent
  <2>4. /\ Len(answers') = Len(answers) + 1 /\ Len(asked') = Len(asked) + 1
        /\ \A i \in DOMAIN answers : answers'[i] = answers[i] /\ asked'[i] = asked[i]
        /\ answers'[Len(asked) + 1] = first
        /\ asked'[Len(asked) + 1] = [request |-> req, conn |-> conn]
        /\ DOMAIN answers = 1..Len(asked) /\ DOMAIN asked = 1..Len(asked)
        /\ DOMAIN answers' = 1..(Len(asked) + 1) /\ DOMAIN asked' = 1..(Len(asked) + 1)
    BY <2>1, <2>2, <2>3
  <2>5. Len(first) <= 1
    BY <2>2
  <2>6. \A i \in DOMAIN answers' : Len(answers'[i]) <= 1
    <3>1. ASSUME NEW i \in DOMAIN answers' PROVE Len(answers'[i]) <= 1
      <4>1. i \in DOMAIN answers \/ i = Len(asked) + 1
        BY <2>3, <2>4, <3>1
      <4>2. QED BY <2>4, <2>5, <4>1 DEF IInv, HistoryConsistent
    <3>2. QED BY <3>1
  <2>7. ASSUME NEW id \in DOMAIN pending'
        PROVE  LET i == pending'[id].inst
               IN  /\ i \in DOMAIN asked' /\ asked'[i].request = pending'[id].request
                   /\ asked'[i].conn = conn' /\ answers'[i] = << >>
    <3>1. CASE id \in DOMAIN pending /\ pending'[id] = pending[id]
      <4>1. LET i == pending[id].inst
            IN  /\ i \in DOMAIN asked /\ asked[i].request = pending[id].request
                /\ asked[i].conn = conn /\ answers[i] = << >>
        BY <3>1 DEF IInv, HistoryConsistent
      <4>2. QED BY <2>1, <2>3, <2>4, <3>1, <4>1, SMTT(60)
    <3>2. CASE /\ first = << >>
               /\ \E gate : pending'[id] = [request |-> req, gate |-> gate, inst |-> Len(asked) + 1]
      BY <2>1, <2>3, <2>4, <3>2
    <3>3. QED BY <2>2, <2>7, <3>1, <3>2, ZenonT(60) DEF With
  <2>8. HistoryConsistent'
    BY <2>3, <2>4, <2>6, <2>7 DEF HistoryConsistent
  <2>9. LedgerStep
    <3>1. CASE UNCHANGED pending /\ Len(first) = 1
      <4>1. Ledger!AnswerAtOnce
        BY <2>1, <2>3, <2>4, <3>1 DEF Ledger!AnswerAtOnce
      <4>2. QED BY <4>1 DEF LedgerStep, Ledger!Next
    <3>2. CASE \E gate : /\ first = << >>
                         /\ pending' = With(pending, req.id,
                                 [request |-> req, gate |-> gate, inst |-> Len(asked) + 1])
      <4> DEFINE replaced == {pending[id].inst : id \in DOMAIN pending \cap {req.id}}
      <4>1. /\ DOMAIN pending' = DOMAIN pending \cup {req.id}
            /\ pending'[req.id].inst = Len(asked) + 1
            /\ \A id \in DOMAIN pending \ {req.id} : pending'[id] = pending[id]
        BY <3>2 DEF With
      <4>2. \A id \in DOMAIN pending : asked[pending[id].inst].request.id = id
        BY DEF IInv, TypeOK, HistoryConsistent
      <4>3. replaced \in SUBSET Open /\ \A i, j \in replaced : i = j
        BY DEF Open
      <4>4. Open' = (Open \ replaced) \cup {Len(answers) + 1}
        <5>1. ASSUME NEW i PROVE i \in Open' <=> i \in (Open \ replaced) \cup {Len(answers) + 1}
          <6>1. i \in Open' <=> \/ i = Len(answers) + 1
                               \/ \E id \in DOMAIN pending \ {req.id} : i = pending[id].inst
            BY <2>3, <4>1 DEF Open
          <6>2. i \in Open \ replaced <=> \E id \in DOMAIN pending \ {req.id} : i = pending[id].inst
            BY <4>2 DEF Open
          <6>3. QED BY <6>1, <6>2
        <5>2. QED BY <5>1
      <4> HIDE DEF replaced
      <4>5. Ledger!Queue
        BY <2>1, <2>3, <2>4, <3>2, <4>3, <4>4 DEF Ledger!Queue, Open
      <4>6. QED BY <4>5 DEF LedgerStep, Ledger!Next
    <3>3. QED BY <2>2, <3>1, <3>2
  <2>10. QED BY <2>4, <2>8, <2>9 DEF NewAnswers
<1>4. ASSUME NEW id \in Ids, NEW choice \in Choices, Decide(id, choice) PROVE Goal
  BY <1>4, ChoicesAssumption, BeginHistory DEF Decide
<1>5. ASSUME NEW g \in gates, GateResolved(g) PROVE Goal
  <2>1. g.request \in ApprovalRequest /\ g.gate \in PolicyGate /\ g.choice \in ApprovalChoice
    BY <1>5 DEF IInv, TypeOK, GateTask
  <2>2. g \in gates \ gates' /\ is_biometric(g.gate) /\ g.choice.decision = "approve"
    BY <1>5 DEF GateResolved, IInv, GatesGenuine
  <2>3. finish_decide(g.request, g.gate, g.choice, g.outcome) /\ asked' = asked /\ conn' = conn
    BY <1>5 DEF GateResolved
  <2>4. QED BY <2>1, <2>2, <2>3, FinishHistory
<1>6. CASE InvokedDecide
  <2> DEFINE Action == [id: Ids, decision: ApprovalDecision]
             choice == [decision |-> Head(invoked).decision, scope |-> NoValue,
                        ttl |-> NoValue, persist |-> FALSE]
  <2>1. invoked \in Seq(Action) /\ invoked # << >>
    BY <1>6 DEF InvokedDecide, IInv, TypeOK
  <2> HIDE DEF Action
  <2>2. Head(invoked) \in Action
    BY <2>1
  <2>3. Head(invoked).id \in Ids /\ choice \in ApprovalChoice
    BY <2>2 DEF Action, ApprovalChoice
  <2>4. begin_decide(Head(invoked).id, choice) /\ asked' = asked /\ conn' = conn
    BY <1>6 DEF InvokedDecide
  <2> HIDE DEF choice
  <2>5. QED BY <2>3, <2>4, BeginHistory
<1>7. CASE expire_pending
  <2> DEFINE decisions == [id \in Swept |-> "deny"]
  <2>1. decisions \in [Swept -> ApprovalDecision] /\ Swept \in SUBSET DOMAIN pending
    BY DEF ApprovalDecision, Swept
  <2>2. answers' = Answered(decisions, "timeout", NoValue) /\ pending' = Without(pending, Swept)
        /\ asked' = asked /\ conn' = conn
    BY <1>7 DEF expire_pending
  <2> HIDE DEF decisions
  <2>3. /\ DOMAIN pending' = DOMAIN pending \ Swept
        /\ \A id \in DOMAIN pending' : /\ pending'[id].request = pending[id].request
                                       /\ pending'[id].inst = pending[id].inst
    BY <2>2 DEF Without
  <2>4. /\ HistoryConsistent' /\ LedgerStep
        /\ \A i \in DOMAIN answers :
             NewAnswers(i) => Settled(i, Swept, decisions, "timeout", NoValue)
    BY <2>1, <2>2, <2>3, AnsweredHistory
  <2>5. ASSUME NEW i \in DOMAIN answers, Settled(i, Swept, decisions, "timeout", NoValue)
        PROVE  Justified(i)
    <3> DEFINE id == asked[i].request.id
    <3>1. /\ id \in Swept /\ pending[id].request = asked[i].request /\ asked[i].conn = conn
          /\ answers[i] = << >>
          /\ answers'[i] = <<AnswerBy(decisions[id], "timeout", NoValue)>>
      BY <2>5 DEF Settled
    <3>2. expired_by_tick(asked[i].request) /\ id \in DOMAIN pending
      BY <3>1 DEF Swept
    <3>3. Len(answers'[i]) = 1 /\ answers'[i][1].by = "timeout"
      BY <3>1 DEF AnswerBy
    <3>4. QED BY <3>1, <3>2, <3>3 DEF Justified, UserMade
  <2>6. QED BY <2>4, <2>5
<1>8. ASSUME NEW s \in SshSettings, set_ssh_approval(s[1], s[2]) PROVE Goal
  <2> QED BY <1>8, SshAssumption, SettingsHistory
<1>9. QED
  BY <1>1, <1>2, <1>3, <1>4, <1>5, <1>6, <1>7, <1>8
  DEF Next, vars, Connected, Untrusted, GateAnswered, NotificationInvoke, NotificationLost,
      SetPolicyRules, Tick

(* The in-flight markers and the dialogs stay in step: a marker is set     *)
(* with its dialog and cleared by the first one of its id that ends.       *)
LEMMA StepGates ==
  ASSUME IInv, [Next]_vars
  PROVE  NoStuckGate' /\ GatesGenuine'
<1> DEFINE Goal == NoStuckGate' /\ GatesGenuine'
<1>1. CASE gating' \subseteq gating /\ UNCHANGED gates
  BY <1>1 DEF IInv, NoStuckGate, GatesGenuine
<1>2. ASSUME NEW id \in Ids, NEW choice, begin_decide(id, choice) PROVE Goal
  <2>1. CASE UNCHANGED <<gating, gates>>
    BY <1>1, <2>1
  <2>2. CASE /\ Actionable(id) /\ NeedsGate(pending[id], choice)
             /\ gating' = gating \cup {id}
             /\ gates' = gates \cup {GateFor(pending[id], choice)}
    <3> DEFINE g == GateFor(pending[id], choice)
    <3>1. /\ g.request = pending[id].request /\ g.gate = pending[id].gate
          /\ g.choice = choice
      BY DEF GateFor
    <3>2. g.request.id = id
      BY <2>2, <3>1 DEF Actionable, IInv, TypeOK
    <3>3. g.choice.decision = "approve" /\ is_biometric(g.gate)
      BY <2>2, <3>1 DEF NeedsGate
    <3> HIDE DEF g
    <3>4. gates' = gates \cup {g}
      BY <2>2 DEF g
    <3>5. QED BY <2>2, <3>2, <3>3, <3>4 DEF IInv, NoStuckGate, GatesGenuine
  <2>3. CASE UNCHANGED gates /\ gating' \subseteq gating
    BY <1>1, <2>3
  <2>4. QED BY <1>2, <2>1, <2>2, <2>3 DEF begin_decide, finish_decide
<1>3. ASSUME NEW g \in gates, NEW o, GateAnswered(g, o) PROVE Goal
  <2> DEFINE h == [g EXCEPT !.outcome = o]
  <2>1. g \in GateTask
    BY <1>3 DEF IInv, TypeOK
  <2>2. h.request = g.request /\ h.gate = g.gate /\ h.choice = g.choice
    BY <2>1 DEF GateTask
  <2> HIDE DEF h
  <2>3. gates' = (gates \ {g}) \cup {h} /\ gating' = gating
    BY <1>3 DEF GateAnswered, h
  <2>4. ASSUME NEW id \in gating PROVE \E t \in gates' : t.request.id = id
    <3>1. PICK t \in gates : t.request.id = id
      BY <2>4 DEF IInv, NoStuckGate
    <3>2. CASE t = g
      BY <2>2, <2>3, <3>1, <3>2
    <3>3. CASE t # g
      BY <2>3, <3>1, <3>3
    <3>4. QED BY <3>2, <3>3
  <2>5. QED BY <1>3, <2>2, <2>3, <2>4 DEF IInv, NoStuckGate, GatesGenuine
<1>4. ASSUME NEW g \in gates, GateResolved(g) PROVE Goal
  <2>1. gates' = gates \ {g} /\ gating' = gating \ {g.request.id}
    BY <1>4 DEF GateResolved, finish_decide
  <2>2. QED BY <2>1 DEF IInv, NoStuckGate, GatesGenuine
<1>5. CASE InvokedDecide
  <2> DEFINE Action == [id: Ids, decision: ApprovalDecision]
  <2>1. invoked \in Seq(Action) /\ invoked # << >>
    BY <1>5 DEF InvokedDecide, IInv, TypeOK
  <2> HIDE DEF Action
  <2>2. Head(invoked) \in Action
    BY <2>1
  <2>3. Head(invoked).id \in Ids
    BY <2>2 DEF Action
  <2>4. QED BY <1>2, <1>5, <2>3 DEF InvokedDecide
<1>6. QED
  BY <1>1, <1>2, <1>3, <1>4, <1>5
  DEF Next, vars, Connected, Disconnected, Untrusted, handle_approval_request, Decide,
      NotificationInvoke, NotificationLost, expire_pending, set_ssh_approval, SetPolicyRules, Tick

(* The coordinator's inductive invariant holds in every reachable state.   *)
THEOREM Invariance == Spec => []IInv
<1>1. Init => IInv
  <2> SUFFICES ASSUME Init PROVE IInv
    OBVIOUS
  <2>1. engine \in Seq(PolicyRule)
    <3>1. InitialSsh \in SshPrefs /\ << >> \in Seq(PolicyRule)
      BY SshAssumption
    <3>2. rebuild_policy(InitialSsh, << >>) \in Seq(PolicyRule)
      BY <3>1, RebuildType
    <3>3. QED BY <3>2 DEF Init
  <2>2. TypeOK
    BY <2>1, SshAssumption DEF Init, TypeOK
  <2>3. HistoryConsistent /\ NoStuckGate /\ GatesGenuine
    BY DEF Init, HistoryConsistent, NoStuckGate, GatesGenuine
  <2>4. QED BY <2>2, <2>3 DEF IInv
<1>2. IInv /\ [Next]_vars => IInv'
  <2> SUFFICES ASSUME IInv, [Next]_vars PROVE IInv'
    OBVIOUS
  <2>1. TypeOK'
    BY NextType DEF IInv
  <2>2. HistoryConsistent' /\ NoStuckGate' /\ GatesGenuine'
    BY StepJustified, StepGates
  <2>3. QED BY <2>1, <2>2 DEF IInv
<1>3. QED BY <1>1, <1>2, PTL DEF Spec

(* The agent never gets two answers for one request it sent, however       *)
(* users, dialogs, the sweep, settings and disconnects race.               *)
THEOREM OneAnswerPerRequest == Spec => []AnsweredOnce
<1>1. IInv => AnsweredOnce
  <2> SUFFICES ASSUME IInv, NEW i \in DOMAIN answers
               PROVE  Len(answers[i]) <= 1 /\ (Waiting(i) => answers[i] = << >>)
    BY DEF AnsweredOnce
  <2>1. QED BY DEF IInv, HistoryConsistent, Waiting
<1>2. QED BY <1>1, Invariance, PTL

(* An in-flight marker without a dialog would swallow approves for ever:   *)
(* there is none.                                                          *)
THEOREM MarkersHaveDialogs == Spec => []NoStuckGate
<1>1. IInv => NoStuckGate
  BY DEF IInv
<1>2. QED BY <1>1, Invariance, PTL

(* The coordinator keeps the promise to the agent: its steps are steps of  *)
(* the ledger, so that every request is settled at most once, for good.    *)
THEOREM Refinement == Spec => KeepsLedger
<1>1. Init => Ledger!Init
  BY DEF Init, Ledger!Init
<1>2. IInv /\ [Next]_vars => [Ledger!Next]_(Ledger!vars)
  BY StepJustified DEF LedgerStep, Open, Ledger!vars
<1>3. QED BY <1>1, <1>2, Invariance, PTL DEF Spec, KeepsLedger, Ledger!Spec

(* No answer is ever sent for a request of a connection that was lost.     *)
THEOREM AnswersKeepConnection == Spec => AnswersStayInTheirConnection
<1>1. IInv /\ [Next]_vars
      => [\A i \in DOMAIN answers : NewAnswers(i) => asked[i].conn = conn]_vars
  BY StepJustified DEF Justified
<1>2. QED BY <1>1, Invariance, PTL DEF Spec, AnswersStayInTheirConnection

(* A user's decision reaches the wire only before the request expires, a   *)
(* timeout only after, also when a dialog outlives its request.            *)
THEOREM DecisionsInTime == Spec => DecidedInTime
<1> DEFINE InTime ==
      \A i \in DOMAIN answers : NewAnswers(i) =>
        LET expiry == asked[i].request.expires_at
        IN  /\ UserMade(LastAnswer(i)') => expiry # Unparseable /\ expiry > now
            /\ LastAnswer(i)'.by = "timeout" => expiry # Unparseable /\ expiry < now
<1>1. IInv /\ [Next]_vars => [InTime]_vars
  <2> SUFFICES ASSUME IInv, [Next]_vars, NEW i \in DOMAIN answers, NewAnswers(i)
      PROVE  LET expiry == asked[i].request.expires_at
             IN  /\ UserMade(LastAnswer(i)') => expiry # Unparseable /\ expiry > now
                 /\ LastAnswer(i)'.by = "timeout" => expiry # Unparseable /\ expiry < now
    OBVIOUS
  <2>1. Justified(i)
    BY StepJustified
  <2>2. LastAnswer(i)' = answers'[i][1]
    BY <2>1 DEF Justified, LastAnswer
  <2>3. QED BY <2>1, <2>2 DEF Justified, not_expired, expired_by_tick
<1>2. QED BY <1>1, Invariance, PTL DEF Spec, DecidedInTime

(* A prompt that asks for native auth is approved only by a confirmed      *)
(* dialog that was opened for that very request.                           *)
THEOREM ConsentIsBound == Spec => ConsentBindsRequest
<1> DEFINE Bound ==
      \A i \in DOMAIN answers :
        /\ NewAnswers(i)
        /\ UserMade(LastAnswer(i)') /\ LastAnswer(i)'.decision = "approve"
        /\ is_biometric(pending[asked[i].request.id].gate)
        => \E g \in gates \ gates' : /\ g.request = asked[i].request
                                     /\ g.outcome = "approved"
                                     /\ is_biometric(g.gate)
<1>1. IInv /\ [Next]_vars => [Bound]_vars
  <2> SUFFICES ASSUME IInv, [Next]_vars, NEW i \in DOMAIN answers, NewAnswers(i),
                      UserMade(LastAnswer(i)'), LastAnswer(i)'.decision = "approve",
                      is_biometric(pending[asked[i].request.id].gate)
               PROVE  \E g \in gates \ gates' : /\ g.request = asked[i].request
                                                /\ g.outcome = "approved"
                                                /\ is_biometric(g.gate)
    OBVIOUS
  <2>1. Justified(i)
    BY StepJustified
  <2>2. LastAnswer(i)' = answers'[i][1]
    BY <2>1 DEF Justified, LastAnswer
  <2>3. QED BY <2>1, <2>2 DEF Justified
<1>2. QED BY <1>1, Invariance, PTL DEF Spec, ConsentBindsRequest

(* A deny of the user takes the grant of its key away in the same step,    *)
(* whichever way it came in.                                               *)
THEOREM DenialRevokes == Spec => DenyRevokes
<1> DEFINE Revoked ==
      \A i \in DOMAIN answers :
        NewAnswers(i) /\ UserMade(LastAnswer(i)') /\ LastAnswer(i)'.decision = "deny"
        => KeyOf(asked[i].request) \notin DOMAIN session_grants'
<1>1. IInv /\ [Next]_vars => [Revoked]_vars
  <2> SUFFICES ASSUME IInv, [Next]_vars, NEW i \in DOMAIN answers, NewAnswers(i),
                      UserMade(LastAnswer(i)'), LastAnswer(i)'.decision = "deny"
               PROVE  KeyOf(asked[i].request) \notin DOMAIN session_grants'
    OBVIOUS
  <2>1. Justified(i)
    BY StepJustified
  <2>2. LastAnswer(i)' = answers'[i][1]
    BY <2>1 DEF Justified, LastAnswer
  <2>3. QED BY <2>1, <2>2 DEF Justified
<1>2. QED BY <1>1, Invariance, PTL DEF Spec, DenyRevokes
-----------------------------------------------------------------------------
(* What users persisted: decisions about one shed of one server. *)
Persisted(extra) ==
  \A i \in DOMAIN extra :
    /\ extra[i].scope \in {"shed", "removed"}
    /\ extra[i].action \in ApprovalDecision
    /\ extra[i].server # NoValue

(* What the preferences alone decide. *)
Base(prefs, req) ==
  CASE req.namespace = SSH ->
         Applied(NamespaceRule(SSH, namespace_action(prefs.policy),
                   IF prompts(prefs.policy) THEN MethodGate(prefs.method) ELSE "none"),
                 "namespace")
    [] req.namespace \in {AWS, DOCKER} ->
         Applied(NamespaceRule(req.namespace, ProviderModes[req.namespace], "none"), "namespace")
    [] OTHER -> FailSafe

(* The rules in force are the persisted decisions before the preferences. *)
LEMMA PolicyInForce ==
  ASSUME NEW prefs \in SshPrefs, NEW extra \in Seq(PolicyRule), Persisted(extra),
         NEW req \in ApprovalRequest
  PROVE  LET d == RuleDecision(rebuild_policy(prefs, extra), req)
         IN  \/ \E i \in DOMAIN extra : ShedMatches(extra[i], req) /\ d = Applied(extra[i], "shed")
             \/ /\ \A i \in DOMAIN extra : ~ShedMatches(extra[i], req)
                /\ d = Base(prefs, req)
<1> DEFINE rules == rebuild_policy(prefs, extra)
           gate == IF prompts(prefs.policy) THEN MethodGate(prefs.method) ELSE "none"
           r1 == NamespaceRule(SSH, namespace_action(prefs.policy), gate)
           r2 == NamespaceRule(AWS, ProviderModes[AWS], "none")
           r3 == NamespaceRule(DOCKER, ProviderModes[DOCKER], "none")
           d == RuleDecision(rules, req)
<1>1. rules \in Seq(PolicyRule)
  BY RebuildType
<1>2. rules = <<r1, r2, r3>> \o extra
  BY DEF rebuild_policy
<1>3. /\ r1.scope = "namespace" /\ r2.scope = "namespace" /\ r3.scope = "namespace"
      /\ r1.namespace = SSH /\ r2.namespace = AWS /\ r3.namespace = DOCKER
  BY DEF NamespaceRule
<1> HIDE DEF r1, r2, r3
<1>4. /\ DOMAIN rules = 1..(3 + Len(extra)) /\ Len(extra) \in Nat
      /\ rules[1] = r1 /\ rules[2] = r2 /\ rules[3] = r3
      /\ \A i \in DOMAIN extra : i + 3 \in DOMAIN rules /\ rules[i + 3] = extra[i]
      /\ \A i \in DOMAIN rules : i \in {1, 2, 3} \/ (i - 3 \in DOMAIN extra /\ rules[i] = extra[i - 3])
  BY <1>2
<1> HIDE DEF rules
<1>5. \A i \in DOMAIN rules : ShedMatches(rules[i], req) =>
        i - 3 \in DOMAIN extra /\ rules[i] = extra[i - 3]
  BY <1>3, <1>4 DEF ShedMatches
<1>6. \A i \in DOMAIN rules : ~DefaultMatches(rules[i], req)
  BY <1>3, <1>4 DEF DefaultMatches, Persisted
<1>7. \A i \in DOMAIN rules : NamespaceMatches(rules[i], req) =>
         \/ i = 1 /\ req.namespace = SSH
         \/ i = 2 /\ req.namespace = AWS
         \/ i = 3 /\ req.namespace = DOCKER
  BY <1>3, <1>4 DEF NamespaceMatches, Persisted
<1>8. CASE \E i \in DOMAIN rules : ShedMatches(rules[i], req) /\ d = Applied(rules[i], "shed")
  BY <1>5, <1>8 DEF rules
<1>9. ASSUME \A i \in DOMAIN rules : ~ShedMatches(rules[i], req),
             \/ \E i \in DOMAIN rules : /\ NamespaceMatches(rules[i], req)
                                        /\ d = Applied(rules[i], "namespace")
             \/ /\ \A i \in DOMAIN rules : ~NamespaceMatches(rules[i], req)
                /\ d = FailSafe
      PROVE  /\ \A i \in DOMAIN extra : ~ShedMatches(extra[i], req)
             /\ d = Base(prefs, req)
  <2>1. \A i \in DOMAIN extra : ~ShedMatches(extra[i], req)
    BY <1>4, <1>9
  <2>2. CASE req.namespace = SSH
    <3>1. 1 \in DOMAIN rules /\ NamespaceMatches(rules[1], req)
      BY <1>3, <1>4, <2>2 DEF NamespaceMatches
    <3>2. d = Applied(r1, "namespace")
      BY <1>4, <1>7, <1>9, <2>2, <3>1 DEF SSH, AWS, DOCKER
    <3>3. QED BY <2>1, <2>2, <3>2 DEF Base, r1, SSH, AWS, DOCKER
  <2>3. CASE req.namespace = AWS
    <3>1. 2 \in DOMAIN rules /\ NamespaceMatches(rules[2], req)
      BY <1>3, <1>4, <2>3 DEF NamespaceMatches
    <3>2. d = Applied(r2, "namespace")
      BY <1>4, <1>7, <1>9, <2>3, <3>1 DEF SSH, AWS, DOCKER
    <3>3. QED BY <2>1, <2>3, <3>2 DEF Base, r2, SSH, AWS, DOCKER
  <2>4. CASE req.namespace = DOCKER
    <3>1. 3 \in DOMAIN rules /\ NamespaceMatches(rules[3], req)
      BY <1>3, <1>4, <2>4 DEF NamespaceMatches
    <3>2. d = Applied(r3, "namespace")
      BY <1>4, <1>7, <1>9, <2>4, <3>1 DEF SSH, AWS, DOCKER
    <3>3. QED BY <2>1, <2>4, <3>2 DEF Base, r3, SSH, AWS, DOCKER
  <2>5. CASE req.namespace \notin {SSH, AWS, DOCKER}
    BY <1>7, <1>9, <2>1, <2>5 DEF Base
  <2>6. QED BY <2>2, <2>3, <2>4, <2>5
<1>10. QED
  <2>1. \/ \E i \in DOMAIN rules : ShedMatches(rules[i], req) /\ d = Applied(rules[i], "shed")
        \/ /\ \A i \in DOMAIN rules : ~ShedMatches(rules[i], req)
           /\ \/ \E i \in DOMAIN rules : /\ NamespaceMatches(rules[i], req)
                                         /\ d = Applied(rules[i], "namespace")
              \/ /\ \A i \in DOMAIN rules : ~NamespaceMatches(rules[i], req)
                 /\ d = FailSafe
    BY <1>1, <1>6, RuleDecisionCases, Zenon
  <2>2. QED BY <1>8, <1>9, <2>1 DEF rules

(* A persisted decision hides no other: what some rule of the list decided *)
(* is still decided by one.                                                *)
LEMMA AddRuleKeepsMatches ==
  ASSUME NEW extra \in Seq(PolicyRule), NEW request \in ApprovalRequest,
         NEW decision \in ApprovalDecision, NEW req,
         LET longer == add_shed_rule(extra, request.server, request.shed, decision)
         IN  \A i \in DOMAIN longer : ~ShedMatches(longer[i], req)
  PROVE  \A i \in DOMAIN extra : ~ShedMatches(extra[i], req)
<1> DEFINE kept == [i \in DOMAIN extra |->
                      IF Superseded(extra[i], request.server, request.shed)
                      THEN [extra[i] EXCEPT !.scope = "removed"]
                      ELSE extra[i]]
           new == ShedRule(request.server, request.shed, decision)
           longer == add_shed_rule(extra, request.server, request.shed, decision)
<1>0. ASSUME NEW r \in PolicyRule PROVE [r EXCEPT !.scope = "removed"] \in PolicyRule
  BY DEF PolicyRule
<1>1. kept \in [1..Len(extra) -> PolicyRule]
  BY <1>0
<1>2. kept \in Seq(PolicyRule) /\ Len(kept) = Len(extra)
  BY <1>1, FunctionIsSeq
<1>3. longer = Append(kept, new)
  BY DEF add_shed_rule
<1>4. /\ DOMAIN extra = 1..Len(extra) /\ Len(extra) \in Nat
      /\ \A i \in DOMAIN extra :
           kept[i] = IF Superseded(extra[i], request.server, request.shed)
                     THEN [extra[i] EXCEPT !.scope = "removed"] ELSE extra[i]
  OBVIOUS
<1>5. new.scope = "shed" /\ new.server = request.server /\ new.shed = request.shed
  BY DEF ShedRule
<1> HIDE DEF kept, new
<1>6. /\ Len(extra) + 1 \in DOMAIN longer /\ longer[Len(extra) + 1] = new
      /\ \A i \in DOMAIN extra : i \in DOMAIN longer /\ longer[i] = kept[i]
  BY <1>2, <1>3, <1>4
<1>7. ASSUME NEW i \in DOMAIN extra, ShedMatches(extra[i], req) PROVE FALSE
  <2>1. CASE Superseded(extra[i], request.server, request.shed)
    <3>1. request.server # NoValue
      BY NoValueAssumption DEF ApprovalRequest
    <3>2. ShedMatches(new, req)
      BY <1>5, <1>7, <2>1, <3>1 DEF ShedMatches, Superseded
    <3>3. QED BY <1>6, <3>2
  <2>2. CASE ~Superseded(extra[i], request.server, request.shed)
    BY <1>4, <1>6, <1>7, <2>2
  <2>3. QED BY <2>1, <2>2
<1>8. QED BY <1>7

(* The rules in force are those of the preferences and of what users       *)
(* persisted, or a list a test installed.                                  *)
RuleInv ==
  /\ Persisted(extra_rules)
  /\ engine = rebuild_policy(ssh, extra_rules) \/ engine \in TestRules

(* A persisted decision is the rule of one shed, with the user's answer. *)
LEMMA AddRulePersisted ==
  ASSUME NEW extra \in Seq(PolicyRule), Persisted(extra), NEW req \in ApprovalRequest,
         NEW d \in ApprovalDecision
  PROVE  Persisted(add_shed_rule(extra, req.server, req.shed, d))
<1> DEFINE kept == [i \in DOMAIN extra |->
                      IF Superseded(extra[i], req.server, req.shed)
                      THEN [extra[i] EXCEPT !.scope = "removed"]
                      ELSE extra[i]]
           new == ShedRule(req.server, req.shed, d)
<1>0. ASSUME NEW r \in PolicyRule
      PROVE  /\ [r EXCEPT !.scope = "removed"] \in PolicyRule
             /\ [r EXCEPT !.scope = "removed"].scope = "removed"
             /\ [r EXCEPT !.scope = "removed"].server = r.server
             /\ [r EXCEPT !.scope = "removed"].action = r.action
  BY DEF PolicyRule
<1>1. kept \in [1..Len(extra) -> PolicyRule]
  BY <1>0
<1>2. kept \in Seq(PolicyRule) /\ Len(kept) = Len(extra)
  BY <1>1, FunctionIsSeq
<1>3. \A i \in DOMAIN extra : /\ kept[i].scope \in {"shed", "removed"}
                              /\ kept[i].server # NoValue
                              /\ kept[i].action \in ApprovalDecision
  BY <1>0 DEF Persisted
<1>4. new.scope = "shed" /\ new.server = req.server /\ new.action = d
  BY DEF ShedRule
<1>5. req.server # NoValue
  BY NoValueAssumption DEF ApprovalRequest
<1> HIDE DEF kept, new
<1>6. add_shed_rule(extra, req.server, req.shed, d) = Append(kept, new)
  BY DEF add_shed_rule, kept, new
<1>7. QED BY <1>2, <1>3, <1>4, <1>5, <1>6 DEF Persisted

(* Committing a choice keeps the rules in force those of the preferences. *)
LEMMA CommitRules ==
  ASSUME TypeOK, RuleInv, NEW request \in ApprovalRequest, NEW gate,
         NEW choice \in ApprovalChoice, Commit(request, gate, choice), ssh' = ssh
  PROVE  RuleInv'
<1>1. CASE choice.persist
  <2>1. /\ extra_rules' = add_shed_rule(extra_rules, request.server,
                                        request.shed, choice.decision)
        /\ engine' = rebuild_policy(ssh, extra_rules')
    BY <1>1 DEF Commit
  <2>2. choice.decision \in ApprovalDecision
    BY DEF ApprovalChoice
  <2>3. Persisted(extra_rules')
    BY <2>1, <2>2, AddRulePersisted DEF RuleInv, TypeOK
  <2>4. QED BY <2>1, <2>3 DEF RuleInv, Persisted
<1>2. CASE ~choice.persist
  BY <1>2 DEF Commit, RuleInv, Persisted
<1>3. QED BY <1>1, <1>2

(* The steps that matter to the queue and the policy. *)
Quiet ==
  /\ UNCHANGED <<pending, session_grants, engine, extra_rules, ssh, conn, asked, answers>>
  /\ posted' \subseteq posted
  /\ now' >= now

Commits(request, gate, choice) ==
  /\ StillOpen(request)
  /\ Commit(request, gate, choice)
  /\ UNCHANGED <<ssh, now, conn, asked>>

(* Phase 2 of a decision commits it or leaves queue and policy alone, *)
LEMMA FinishCases ==
  ASSUME IInv, NEW request \in ApprovalRequest, NEW gate \in PolicyGate,
         NEW choice \in ApprovalChoice, NEW outcome,
         finish_decide(request, gate, choice, outcome), UNCHANGED <<ssh, now, conn, asked>>
  PROVE  Quiet \/ Commits(request, gate, choice)
<1>1. now \in Nat
  BY DEF IInv, TypeOK
<1>2. QED BY <1>1 DEF finish_decide, Quiet, Commits

(* and so does phase 1. *)
LEMMA BeginCases ==
  ASSUME IInv, NEW id \in Ids, NEW choice \in ApprovalChoice,
         begin_decide(id, choice), UNCHANGED <<ssh, now, conn, asked>>
  PROVE  \/ Quiet
         \/ \E request \in ApprovalRequest, gate \in PolicyGate : Commits(request, gate, choice)
<1>1. now \in Nat
  BY DEF IInv, TypeOK
<1>2. CASE UNCHANGED <<pending, session_grants, engine, extra_rules, posted, answers>>
  BY <1>1, <1>2 DEF Quiet
<1>3. CASE /\ Actionable(id)
           /\ finish_decide(pending[id].request, pending[id].gate, choice, "approved")
  <2>1. pending[id].request \in ApprovalRequest /\ pending[id].gate \in PolicyGate
    BY <1>3 DEF Actionable, IInv, TypeOK, PendingApproval
  <2>2. QED BY <1>3, <2>1, FinishCases
<1>4. QED BY <1>2, <1>3 DEF begin_decide

(* What a step does to the queue and to the rules: nothing, a disconnect,  *)
(* an arrival, a commit, a sweep, or new settings or rules.                *)
LEMMA StepCases ==
  ASSUME IInv, [Next]_vars
  PROVE  \/ Quiet
         \/ Disconnected
         \/ \E req \in Incoming : handle_approval_request(req)
         \/ \E request \in ApprovalRequest, gate \in PolicyGate, choice \in ApprovalChoice :
              Commits(request, gate, choice)
         \/ expire_pending
         \/ \E method \in ApprovalMethod \cup {NoValue}, policy \in SshApprovalPolicy \cup {NoValue} :
              set_ssh_approval(method, policy)
         \/ \E rules \in TestRules : SetPolicyRules(rules)
<1>0. now \in Nat
  BY DEF IInv, TypeOK
<1>1. ASSUME NEW id \in Ids, NEW choice \in Choices, Decide(id, choice)
      PROVE  \/ Quiet
             \/ \E request \in ApprovalRequest, gate \in PolicyGate, c \in ApprovalChoice :
                  Commits(request, gate, c)
  <2>1. choice \in ApprovalChoice
    BY ChoicesAssumption
  <2>2. QED BY <1>1, <2>1, BeginCases DEF Decide
<1>2. ASSUME NEW g \in gates, GateResolved(g)
      PROVE  \/ Quiet
             \/ \E request \in ApprovalRequest, gate \in PolicyGate, choice \in ApprovalChoice :
                  Commits(request, gate, choice)
  <2>1. g.request \in ApprovalRequest /\ g.gate \in PolicyGate /\ g.choice \in ApprovalChoice
    BY <1>2 DEF IInv, TypeOK, GateTask
  <2>2. Quiet \/ Commits(g.request, g.gate, g.choice)
    BY <1>2, <2>1, FinishCases DEF GateResolved
  <2>3. QED BY <2>1, <2>2
<1>3. CASE InvokedDecide
  <2> DEFINE Action == [id: Ids, decision: ApprovalDecision]
             choice == [decision |-> Head(invoked).decision, scope |-> NoValue,
                        ttl |-> NoValue, persist |-> FALSE]
  <2>1. invoked \in Seq(Action) /\ invoked # << >>
    BY <1>3 DEF InvokedDecide, IInv, TypeOK
  <2> HIDE DEF Action
  <2>2. Head(invoked) \in Action
    BY <2>1
  <2>3. Head(invoked).id \in Ids /\ choice \in ApprovalChoice
    BY <2>2 DEF Action, ApprovalChoice
  <2>4. begin_decide(Head(invoked).id, choice) /\ UNCHANGED <<ssh, now, conn, asked>>
    BY <1>3 DEF InvokedDecide
  <2> HIDE DEF choice
  <2>5. QED BY <2>3, <2>4, BeginCases
<1>4. ASSUME NEW s \in SshSettings, set_ssh_approval(s[1], s[2])
      PROVE  \E method \in ApprovalMethod \cup {NoValue}, policy \in SshApprovalPolicy \cup {NoValue} :
               set_ssh_approval(method, policy)
  <2>1. s[1] \in ApprovalMethod \cup {NoValue} /\ s[2] \in SshApprovalPolicy \cup {NoValue}
    BY SshAssumption
  <2>2. QED BY <1>4, <2>1
<1>5. CASE UNCHANGED vars
  BY <1>0, <1>5 DEF Quiet, vars
<1>6. ASSUME NEW d, Connected(d) PROVE Quiet
  BY <1>0, <1>6 DEF Quiet, Connected
<1>7. CASE Untrusted
  BY <1>0, <1>7 DEF Quiet, Untrusted
<1>8. ASSUME NEW g, NEW o, GateAnswered(g, o) PROVE Quiet
  BY <1>0, <1>8 DEF Quiet, GateAnswered
<1>9. ASSUME NEW id, NEW d, NotificationInvoke(id, d) PROVE Quiet
  BY <1>0, <1>9 DEF Quiet, NotificationInvoke
<1>10. ASSUME NEW id, NotificationLost(id) PROVE Quiet
  BY <1>0, <1>10 DEF Quiet, NotificationLost
<1>11. CASE Tick
  BY <1>0, <1>11 DEF Quiet, Tick
<1>12. CASE Next
  BY <1>1, <1>2, <1>3, <1>4, <1>6, <1>7, <1>8, <1>9, <1>10, <1>11, <1>12, Zenon DEF Next
<1>13. QED BY <1>5, <1>12

(* The rules in force are kept. *)
LEMMA StepRules ==
  ASSUME IInv, RuleInv, [Next]_vars
  PROVE  RuleInv'
<1>1. CASE UNCHANGED <<engine, extra_rules, ssh>>
  BY <1>1 DEF RuleInv, Persisted
<1>2. ASSUME NEW request \in ApprovalRequest, NEW gate \in PolicyGate, NEW choice \in ApprovalChoice,
             Commits(request, gate, choice)
      PROVE  RuleInv'
  BY <1>2, CommitRules DEF Commits, IInv
<1>3. ASSUME NEW method, NEW policy, set_ssh_approval(method, policy) PROVE RuleInv'
  BY <1>3 DEF set_ssh_approval, RuleInv, Persisted
<1>4. ASSUME NEW rules \in TestRules, SetPolicyRules(rules) PROVE RuleInv'
  BY <1>4 DEF SetPolicyRules, RuleInv, Persisted
<1>5. QED
  BY <1>1, <1>2, <1>3, <1>4, StepCases
  DEF Quiet, Disconnected, handle_approval_request, expire_pending

(* So they are in force in every reachable state. *)
LEMMA RulesInForce == Spec => []RuleInv
<1>1. Init => RuleInv
  BY DEF Init, RuleInv, Persisted
<1>2. QED BY <1>1, StepRules, Invariance, PTL DEF Spec

(* A prompt keeps the gate of the policy in force when the rules change    *)
(* only by a decision that was persisted.                                  *)
LEMMA GateKeptByRule ==
  ASSUME NEW prefs \in SshPrefs, NEW extra \in Seq(PolicyRule), Persisted(extra),
         NEW request \in ApprovalRequest, NEW decision \in ApprovalDecision,
         NEW req \in ApprovalRequest,
         LET longer == add_shed_rule(extra, request.server, request.shed, decision)
         IN  RuleDecision(rebuild_policy(prefs, longer), req).action = "prompt"
  PROVE  LET longer == add_shed_rule(extra, request.server, request.shed, decision)
         IN  RuleDecision(rebuild_policy(prefs, longer), req)
               = RuleDecision(rebuild_policy(prefs, extra), req)
<1> DEFINE longer == add_shed_rule(extra, request.server, request.shed, decision)
           new == RuleDecision(rebuild_policy(prefs, longer), req)
           old == RuleDecision(rebuild_policy(prefs, extra), req)
<1>1. longer \in Seq(PolicyRule) /\ Persisted(longer)
  BY AddRuleType, AddRulePersisted
<1>2. (\A i \in DOMAIN longer : ~ShedMatches(longer[i], req))
        => \A i \in DOMAIN extra : ~ShedMatches(extra[i], req)
  BY AddRuleKeepsMatches
<1>3. new.action = "prompt"
  OBVIOUS
<1> HIDE DEF longer
<1>4. \/ \E i \in DOMAIN longer : ShedMatches(longer[i], req) /\ new = Applied(longer[i], "shed")
      \/ (\A i \in DOMAIN longer : ~ShedMatches(longer[i], req)) /\ new = Base(prefs, req)
  BY <1>1, PolicyInForce
<1>5. \/ \E i \in DOMAIN extra : ShedMatches(extra[i], req) /\ old = Applied(extra[i], "shed")
      \/ (\A i \in DOMAIN extra : ~ShedMatches(extra[i], req)) /\ old = Base(prefs, req)
  BY PolicyInForce
<1> HIDE DEF new, old
<1>6. \A i \in DOMAIN longer : Applied(longer[i], "shed").action # "prompt"
  BY <1>1 DEF Persisted, Applied, ApprovalDecision
<1>7. new = Base(prefs, req) /\ old = Base(prefs, req)
  BY <1>2, <1>3, <1>4, <1>5, <1>6
<1>8. QED BY <1>7 DEF new, old, longer

(* The queue stays current: a step takes prompts off it with their         *)
(* notifications, adds one with the gate of the policy, or moves all to    *)
(* the gate of the new policy.                                             *)
LEMMA StepCurrent ==
  ASSUME TestRules = {}, IInv, RuleInv, QueueIsCurrent, [Next]_vars
  PROVE  QueueIsCurrent'
<1>0. /\ now \in Nat /\ engine = rebuild_policy(ssh, extra_rules)
      /\ \A id \in DOMAIN pending : pending[id].request \in ApprovalRequest
      /\ ssh \in SshPrefs /\ extra_rules \in Seq(PolicyRule) /\ Persisted(extra_rules)
  BY DEF IInv, TypeOK, PendingApproval, RuleInv
<1>1. CASE /\ engine' = engine /\ now' >= now /\ now' \in Nat
           /\ DOMAIN pending' \subseteq DOMAIN pending
           /\ \A id \in DOMAIN pending' : pending'[id] = pending[id]
           /\ posted' \subseteq DOMAIN pending'
  <2>1. ASSUME NEW id \in DOMAIN pending', not_expired(pending[id].request)'
        PROVE  not_expired(pending[id].request)
    BY <1>0, <1>1, <2>1 DEF not_expired, ApprovalRequest
  <2>2. QED BY <1>1, <2>1 DEF QueueIsCurrent
<1>2. ASSUME NEW req \in Incoming, handle_approval_request(req) PROVE QueueIsCurrent'
  <2> DEFINE d == decide(engine, req, valid_grants(session_grants))
             r == RuleDecision(engine, req)
  <2>1. d.action = "prompt" => d = r
    BY DEF decide, SessionGranted
  <2>2. now' = now /\ engine' = engine
    BY <1>2 DEF handle_approval_request
  <2>3. \/ /\ d.action = "prompt" /\ posted' = posted \cup {req.id}
           /\ pending' = With(pending, req.id, [request |-> req, gate |-> d.gate,
                                               inst |-> Len(asked) + 1])
        \/ UNCHANGED <<pending, posted>>
    BY <1>2 DEF handle_approval_request
  <2> HIDE DEF d
  <2>4. CASE UNCHANGED <<pending, posted>>
    BY <1>0, <1>1, <2>2, <2>4 DEF QueueIsCurrent
  <2>5. CASE /\ d.action = "prompt" /\ posted' = posted \cup {req.id}
             /\ pending' = With(pending, req.id, [request |-> req, gate |-> d.gate,
                                                 inst |-> Len(asked) + 1])
    <3>1. posted' \subseteq DOMAIN pending'
      BY <2>5 DEF With, QueueIsCurrent
    <3>2. ASSUME NEW id \in DOMAIN pending', not_expired(pending[id].request)',
                 RuleDecision(engine', pending'[id].request).action = "prompt"
          PROVE  pending'[id].gate = RuleDecision(engine', pending'[id].request).gate
      <4>1. CASE id = req.id
        <5>1. pending'[id] = [request |-> req, gate |-> d.gate, inst |-> Len(asked) + 1]
          BY <2>5, <4>1 DEF With
        <5>2. pending'[id].request = req /\ pending'[id].gate = d.gate
          BY <5>1
        <5>3. QED BY <2>1, <2>2, <2>5, <5>2
      <4>2. CASE id # req.id
        <5>1. id \in DOMAIN pending /\ pending'[id] = pending[id]
          BY <2>5, <3>2, <4>2 DEF With
        <5>2. not_expired(pending[id].request)
          BY <2>2, <3>2, <5>1 DEF not_expired
        <5>3. QED BY <2>2, <3>2, <5>1, <5>2 DEF QueueIsCurrent
      <4>3. QED BY <4>1, <4>2
    <3>3. QED BY <3>1, <3>2 DEF QueueIsCurrent
  <2>6. QED BY <2>3, <2>4, <2>5
<1>3. ASSUME NEW request \in ApprovalRequest, NEW gate \in PolicyGate, NEW choice \in ApprovalChoice,
             Commits(request, gate, choice)
      PROVE  QueueIsCurrent'
  <2>1. /\ pending' = Without(pending, {request.id}) /\ posted' = posted \ {request.id}
        /\ now' = now /\ ssh' = ssh
    BY <1>3 DEF Commits, Commit
  <2>2. /\ DOMAIN pending' \subseteq DOMAIN pending
        /\ \A id \in DOMAIN pending' : pending'[id] = pending[id]
        /\ posted' \subseteq DOMAIN pending'
    BY <2>1 DEF Without, QueueIsCurrent
  <2>3. CASE ~choice.persist
    <3>1. engine' = engine
      BY <1>3, <2>3 DEF Commits, Commit
    <3>2. now' >= now /\ now' \in Nat
      BY <1>0, <2>1
    <3>3. QED BY <1>1, <2>2, <3>1, <3>2
  <2>4. CASE choice.persist
    <3>1. /\ extra_rules' = add_shed_rule(extra_rules, request.server, request.shed, choice.decision)
          /\ engine' = rebuild_policy(ssh, extra_rules')
      BY <1>3, <2>4 DEF Commits, Commit
    <3>2. choice.decision \in ApprovalDecision
      BY DEF ApprovalChoice
    <3>3. ASSUME NEW id \in DOMAIN pending', not_expired(pending[id].request)',
                 RuleDecision(engine', pending'[id].request).action = "prompt"
          PROVE  pending'[id].gate = RuleDecision(engine', pending'[id].request).gate
      <4>1. not_expired(pending[id].request)
        BY <2>1, <2>2, <3>3 DEF not_expired
      <4>2. id \in DOMAIN pending /\ pending'[id] = pending[id] /\ pending[id].request \in ApprovalRequest
        BY <1>0, <2>2, <3>3
      <4>3. RuleDecision(engine', pending[id].request) = RuleDecision(engine, pending[id].request)
        BY <1>0, <3>1, <3>2, <3>3, <4>2, GateKeptByRule
      <4>4. QED BY <3>3, <4>1, <4>2, <4>3 DEF QueueIsCurrent
    <3>4. QED BY <2>2, <3>3 DEF QueueIsCurrent
  <2>5. QED BY <2>3, <2>4
<1>4. ASSUME NEW method, NEW policy, set_ssh_approval(method, policy) PROVE QueueIsCurrent'
  <2> DEFINE grants == reset_ssh_grants
             decided == Redecidable(engine', grants)
  <2>1. /\ reevaluate_pending(engine', grants) /\ now' = now
    BY <1>4 DEF set_ssh_approval
  <2>2. /\ pending' = [id \in DOMAIN pending \ decided |-> Refreshed(engine', grants, id)]
        /\ posted' = posted \ decided
    BY <2>1 DEF reevaluate_pending
  <2>3. posted' \subseteq DOMAIN pending'
    BY <2>2 DEF QueueIsCurrent
  <2>4. ASSUME NEW id \in DOMAIN pending', not_expired(pending[id].request)',
               RuleDecision(engine', pending'[id].request).action = "prompt"
        PROVE  pending'[id].gate = RuleDecision(engine', pending'[id].request).gate
    <3> DEFINE d == Redecided(engine', grants, id)
    <3>1. /\ id \in DOMAIN pending /\ id \notin decided
          /\ pending'[id] = Refreshed(engine', grants, id)
          /\ pending[id] \in PendingApproval
      BY <2>2, <2>4 DEF IInv, TypeOK
    <3>2. pending'[id].request = pending[id].request
      BY <3>1 DEF Refreshed, PendingApproval
    <3>3. ~expired_by_tick(pending[id].request)
      BY <1>0, <2>1, <2>4, <3>1, <3>2 DEF expired_by_tick, not_expired, ApprovalRequest
    <3>4. d.action = "prompt"
      BY <3>1, <3>3 DEF Redecidable
    <3>5. d = RuleDecision(engine', pending[id].request)
      BY <3>4 DEF Redecided, decide, SessionGranted
    <3> HIDE DEF d
    <3>6. pending'[id].gate = d.gate
      BY <3>1, <3>3 DEF Refreshed, PendingApproval, d
    <3>7. QED BY <3>2, <3>5, <3>6
  <2>5. QED BY <2>3, <2>4 DEF QueueIsCurrent
<1>5. CASE Quiet
  <2>1. now' \in Nat
    BY NextType DEF IInv, TypeOK
  <2>2. QED BY <1>1, <1>5, <2>1 DEF Quiet, QueueIsCurrent
<1>6. CASE Disconnected
  <2>1. posted' \subseteq DOMAIN pending' /\ DOMAIN pending' = {} /\ engine' = engine /\ now' = now
    BY <1>6 DEF Disconnected, Without, QueueIsCurrent
  <2>2. QED BY <1>0, <1>1, <2>1
<1>7. CASE expire_pending
  <2>1. /\ DOMAIN pending' = DOMAIN pending \ Swept /\ posted' = posted \ Swept
        /\ \A id \in DOMAIN pending' : pending'[id] = pending[id]
        /\ engine' = engine /\ now' = now
    BY <1>7 DEF expire_pending, Without
  <2>2. QED BY <1>0, <1>1, <2>1 DEF QueueIsCurrent
<1>8. QED BY <1>2, <1>3, <1>4, <1>5, <1>6, <1>7, StepCases

(* What the user sees of the queue is current, whatever commands come in   *)
(* which order, as long as no test replaces the rules.                     *)
THEOREM QueueStaysCurrent ==
  ASSUME TestRules = {}
  PROVE  Spec => []QueueIsCurrent
<1>1. Init => QueueIsCurrent
  BY DEF Init, QueueIsCurrent
<1>2. QED BY <1>1, StepCurrent, Invariance, RulesInForce, PTL DEF Spec
-----------------------------------------------------------------------------
(* One dialog per request, where no id comes twice: the requests are told  *)
(* apart by their ids, a dialog belongs to a request that was received,    *)
(* and while that one is queued its marker is set.                         *)
DialogInv ==
  /\ \A i, j \in DOMAIN asked : asked[i].request.id = asked[j].request.id => i = j
  /\ \A g \in gates : g.inst \in DOMAIN asked /\ asked[g.inst].request = g.request
  /\ \A g \in gates : g.request.id \in DOMAIN pending => g.request.id \in gating
  /\ OneDialogPerRequest

(* Dialogs and markers stay in step when dialogs only end and prompts only *)
(* leave the queue.                                                        *)
LEMMA DialogsShrink ==
  ASSUME DialogInv, asked' = asked, gates' \subseteq gates,
         DOMAIN pending' \subseteq DOMAIN pending,
         \A g \in gates' : g.request.id \in DOMAIN pending' /\ g.request.id \in gating
                             => g.request.id \in gating'
  PROVE  DialogInv'
  BY DEF DialogInv, OneDialogPerRequest

(* Every step keeps dialogs, markers and queue in step. *)
LEMMA StepDialogs ==
  ASSUME ReuseIds = FALSE, IInv, DialogInv, [Next]_vars
  PROVE  DialogInv'
<1>1. CASE /\ UNCHANGED <<asked, gating, gates>>
           /\ DOMAIN pending' \subseteq DOMAIN pending
  BY <1>1, DialogsShrink
<1>2. ASSUME NEW req \in Incoming, handle_approval_request(req) PROVE DialogInv'
  <2> DEFINE Record == [request: ApprovalRequest, conn: Nat]
             new == [request |-> req, conn |-> conn]
  <2>1. asked \in Seq(Record) /\ new \in Record /\ new.request = req
    BY IncomingAssumption DEF IInv, TypeOK
  <2>2. /\ asked' = Append(asked, new) /\ gates' = gates
        /\ \A i \in DOMAIN asked : asked[i].request.id # req.id
        /\ gating \ {req.id} \subseteq gating'
        /\ DOMAIN pending' \subseteq DOMAIN pending \cup {req.id}
    BY <1>2 DEF handle_approval_request, With
  <2> HIDE DEF new, Record
  <2>3. /\ DOMAIN asked = 1..Len(asked) /\ Len(asked) \in Nat
        /\ DOMAIN asked' = 1..(Len(asked) + 1)
        /\ \A i \in DOMAIN asked : asked'[i] = asked[i] /\ i \in DOMAIN asked'
        /\ asked'[Len(asked) + 1] = new
        /\ \A i \in DOMAIN asked' : i \in DOMAIN asked \/ i = Len(asked) + 1
    BY <2>1, <2>2
  <2>4. ASSUME NEW i \in DOMAIN asked', NEW j \in DOMAIN asked',
               asked'[i].request.id = asked'[j].request.id
        PROVE  i = j
    BY <2>1, <2>2, <2>3, <2>4 DEF DialogInv
  <2>5. ASSUME NEW g \in gates PROVE g.inst \in DOMAIN asked' /\ asked'[g.inst].request = g.request
    BY <2>3, <2>5 DEF DialogInv
  <2>6. ASSUME NEW g \in gates, g.request.id \in DOMAIN pending' PROVE g.request.id \in gating'
    <3>1. g.request.id # req.id
      BY <2>2, <2>6 DEF DialogInv
    <3>2. QED BY <2>2, <2>6, <3>1 DEF DialogInv
  <2>7. QED BY <2>2, <2>4, <2>5, <2>6 DEF DialogInv, OneDialogPerRequest
<1>3. ASSUME NEW id \in Ids, NEW choice, begin_decide(id, choice), asked' = asked PROVE DialogInv'
  <2>1. CASE UNCHANGED <<pending, gating, gates>>
    BY <1>1, <1>3, <2>1
  <2>2. CASE /\ Actionable(id) /\ ~AlreadyGating(id)
             /\ gating' = gating \cup {id}
             /\ gates' = gates \cup {GateFor(pending[id], choice)}
             /\ UNCHANGED pending
    <3> DEFINE g == GateFor(pending[id], choice)
    <3>1. g.request = pending[id].request /\ g.inst = pending[id].inst
      BY DEF GateFor
    <3> HIDE DEF g
    <3>2. /\ id \in DOMAIN pending /\ g.request.id = id
          /\ g.inst \in DOMAIN asked /\ asked[g.inst].request = g.request
      BY <2>2, <3>1 DEF Actionable, IInv, TypeOK, HistoryConsistent
    <3>3. ASSUME NEW h \in gates PROVE h.inst # g.inst
      BY <2>2, <3>2, <3>3 DEF DialogInv, AlreadyGating
    <3>4. gates' = gates \cup {g} /\ gating' = gating \cup {id}
      BY <2>2 DEF g
    <3>5. OneDialogPerRequest'
      BY <3>3, <3>4 DEF DialogInv, OneDialogPerRequest
    <3>6. QED BY <1>3, <2>2, <3>2, <3>4, <3>5 DEF DialogInv
  <2>3. CASE /\ Actionable(id) /\ ~NeedsGate(pending[id], choice) /\ UNCHANGED gates
             /\ finish_decide(pending[id].request, pending[id].gate, choice, "approved")
    <3>1. StillOpen(pending[id].request) /\ Confirmed(pending[id].gate, choice, "approved")
      BY <2>3 DEF Actionable, StillOpen, Confirmed, IInv, TypeOK
    <3>2. /\ pending' = Without(pending, {pending[id].request.id})
          /\ gating' = gating \ {pending[id].request.id}
      BY <2>3, <3>1 DEF finish_decide, Commit
    <3>3. QED BY <1>3, <2>3, <3>2, DialogsShrink DEF Without
  <2>4. QED BY <1>3, <2>1, <2>2, <2>3 DEF begin_decide
<1>4. ASSUME NEW g \in gates, NEW o, GateAnswered(g, o) PROVE DialogInv'
  <2> DEFINE h == [g EXCEPT !.outcome = o]
  <2>1. g \in GateTask
    BY <1>4 DEF IInv, TypeOK
  <2>2. h.request = g.request /\ h.inst = g.inst
    BY <2>1 DEF GateTask
  <2> HIDE DEF h
  <2>3. gates' = (gates \ {g}) \cup {h} /\ UNCHANGED <<gating, asked, pending>>
    BY <1>4 DEF GateAnswered, h
  <2>4. OneDialogPerRequest'
    BY <2>2, <2>3 DEF DialogInv, OneDialogPerRequest
  <2>5. QED BY <2>2, <2>3, <2>4 DEF DialogInv
<1>5. ASSUME NEW g \in gates, GateResolved(g) PROVE DialogInv'
  <2>1. /\ gates' = gates \ {g} /\ gating' = gating \ {g.request.id} /\ asked' = asked
        /\ DOMAIN pending' \subseteq DOMAIN pending
    BY <1>5 DEF GateResolved, finish_decide, Commit, Without
  <2>2. ASSUME NEW h \in gates' PROVE h.request.id # g.request.id
    BY <2>1, <2>2 DEF DialogInv, OneDialogPerRequest
  <2>3. QED BY <2>1, <2>2, DialogsShrink
<1>6. CASE InvokedDecide
  <2> DEFINE Action == [id: Ids, decision: ApprovalDecision]
  <2>1. invoked \in Seq(Action) /\ invoked # << >>
    BY <1>6 DEF InvokedDecide, IInv, TypeOK
  <2> HIDE DEF Action
  <2>2. Head(invoked) \in Action
    BY <2>1
  <2>3. Head(invoked).id \in Ids
    BY <2>2 DEF Action
  <2>4. QED BY <1>3, <1>6, <2>3 DEF InvokedDecide
<1>7. CASE Disconnected
  <2>1. DOMAIN pending' = {} /\ UNCHANGED <<asked, gates>>
    BY <1>7 DEF Disconnected, Without
  <2>2. QED BY <2>1, DialogsShrink
<1>8. CASE expire_pending
  BY <1>1, <1>8 DEF expire_pending, Without
<1>9. ASSUME NEW method, NEW policy, set_ssh_approval(method, policy) PROVE DialogInv'
  BY <1>1, <1>9 DEF set_ssh_approval, reevaluate_pending
<1>10. QED
  BY <1>1, <1>2, <1>3, <1>4, <1>5, <1>6, <1>7, <1>8, <1>9
  DEF Next, vars, Connected, Untrusted, Decide, NotificationInvoke, NotificationLost,
      SetPolicyRules, Tick

(* No request ever has two OS dialogs open, also after a disconnect or a   *)
(* settings change, provided that the agent uses an id once.               *)
THEOREM OneDialog ==
  ASSUME ReuseIds = FALSE
  PROVE  Spec => []OneDialogPerRequest
<1>1. Init => DialogInv
  BY DEF Init, DialogInv, OneDialogPerRequest
<1>2. DialogInv => OneDialogPerRequest
  BY DEF DialogInv
<1>3. QED BY <1>1, <1>2, StepDialogs, Invariance, PTL DEF Spec
-----------------------------------------------------------------------------
(* Automatic approves are earned: every live grant and every persisted     *)
(* approve has the user's decision behind it in the history.               *)
EarnInv ==
  /\ \A k \in DOMAIN session_grants : EarnedForKey(k)
  /\ \A i \in DOMAIN extra_rules :
       extra_rules[i].scope = "shed" /\ extra_rules[i].action = "approve"
       => EarnedForGood(extra_rules[i])

NoTestApproves == \A rules \in TestRules : \A i \in DOMAIN rules : rules[i].action # "approve"

(* What was received stays, and what was answered. *)
HistoryGrows ==
  \A j \in DOMAIN answers :
    /\ j \in DOMAIN answers' /\ asked'[j] = asked[j]
    /\ answers[j] # << >> => answers'[j] = answers[j]

(* No step takes back or rewrites a request or an answer. *)
LEMMA StepHistory ==
  ASSUME IInv, [Next]_vars
  PROVE  HistoryGrows
<1>1. /\ answers \in Seq(Seq(Answer)) /\ asked \in Seq([request: ApprovalRequest, conn: Nat])
      /\ Len(answers) = Len(asked) /\ DOMAIN answers = DOMAIN asked
  BY DEF IInv, TypeOK, HistoryConsistent
<1>2. \A j \in DOMAIN answers : answers[j] # << >> => answers'[j] = answers[j]
  BY StepJustified DEF Justified, NewAnswers
<1>3. CASE asked' = asked
  <2>1. Len(answers') = Len(asked') /\ answers' \in Seq(Seq(Answer))
    BY StepJustified, NextType DEF HistoryConsistent, IInv, TypeOK
  <2>2. QED BY <1>1, <1>2, <1>3, <2>1 DEF HistoryGrows
<1>4. ASSUME NEW req \in Incoming, handle_approval_request(req) PROVE HistoryGrows
  <2> DEFINE Record == [request: ApprovalRequest, conn: Nat]
             new == [request |-> req, conn |-> conn]
  <2>1. asked \in Seq(Record) /\ new \in Record
    BY IncomingAssumption DEF IInv, TypeOK
  <2>2. asked' = Append(asked, new)
    BY <1>4 DEF handle_approval_request
  <2>3. Len(answers') = Len(asked') /\ answers' \in Seq(Seq(Answer))
    BY StepJustified, NextType DEF HistoryConsistent, IInv, TypeOK
  <2> HIDE DEF new, Record
  <2>4. \A j \in DOMAIN answers : j \in DOMAIN answers' /\ asked'[j] = asked[j]
    BY <1>1, <2>1, <2>2, <2>3
  <2>5. QED BY <1>2, <2>4 DEF HistoryGrows
<1>5. QED
  BY <1>3, <1>4, StepCases
  DEF Quiet, Disconnected, Commits, expire_pending, set_ssh_approval, SetPolicyRules

(* What was earned stays so: for good, or while the connection lasts. *)
LEMMA EarnedStays ==
  ASSUME HistoryGrows
  PROVE  /\ \A r : EarnedForGood(r) => EarnedForGood(r)'
         /\ conn' = conn => \A k : EarnedForKey(k) => EarnedForKey(k)'
<1>1. ASSUME NEW r, EarnedForGood(r) PROVE EarnedForGood(r)'
  <2>1. PICK j \in DOMAIN answers : \E n \in DOMAIN answers[j] :
          /\ answers[j][n].decision = "approve" /\ UserMade(answers[j][n])
          /\ answers[j][n].scope = "always"
          /\ asked[j].request.server = r.server
          /\ asked[j].request.shed = r.shed
    BY <1>1, Zenon DEF EarnedForGood
  <2>2. answers[j] # << >>
    BY <2>1
  <2>3. j \in DOMAIN answers' /\ asked'[j] = asked[j] /\ answers'[j] = answers[j]
    BY <2>2 DEF HistoryGrows
  <2>4. QED BY <2>1, <2>3 DEF EarnedForGood, UserMade
<1>2. ASSUME NEW k, EarnedForKey(k), conn' = conn PROVE EarnedForKey(k)'
  <2>1. PICK j \in DOMAIN answers : \E n \in DOMAIN answers[j] :
          /\ answers[j][n].decision = "approve" /\ UserMade(answers[j][n])
          /\ answers[j][n].scope \in {"per-session", "per-shed"}
          /\ KeyOf(asked[j].request) = k
          /\ asked[j].conn = conn
    BY <1>2, Zenon DEF EarnedForKey
  <2>2. answers[j] # << >>
    BY <2>1
  <2>3. j \in DOMAIN answers' /\ asked'[j] = asked[j] /\ answers'[j] = answers[j]
    BY <2>2 DEF HistoryGrows
  <2>4. QED BY <1>2, <2>1, <2>3 DEF EarnedForKey, UserMade
<1>3. QED BY <1>1, <1>2

(* The approve a policy gives is allowed outright or earned. *)
LEMMA PolicyApproves ==
  ASSUME NoTestApproves, RuleInv, EarnInv, extra_rules \in Seq(PolicyRule),
         NEW prefs \in SshPrefs, NEW rules \in Seq(PolicyRule),
         rules = rebuild_policy(prefs, extra_rules) \/ rules \in TestRules,
         NEW req \in ApprovalRequest, NEW grants \in SUBSET DOMAIN session_grants,
         decide(rules, req, grants).action = "approve"
  PROVE  AllowedOutright(req, prefs) \/ EarnedForGood(req) \/ EarnedForKey(KeyOf(req))
<1>1. CASE KeyOf(req) \in grants
  BY <1>1 DEF EarnInv
<1> DEFINE d == RuleDecision(rules, req)
<1>2. CASE KeyOf(req) \notin grants
  <2>1. d.action = "approve"
    BY <1>2 DEF decide
  <2>2. CASE rules \in TestRules
    <3>1. FailSafe.action # "approve"
      BY DEF FailSafe
    <3>2. \A i \in DOMAIN rules : \A scope : Applied(rules[i], scope).action # "approve"
      BY <2>2 DEF NoTestApproves, Applied
    <3>3. d = FailSafe \/ \E i \in DOMAIN rules : \E scope : d = Applied(rules[i], scope)
      BY RuleDecisionCases, Zenon
    <3> HIDE DEF d
    <3>4. QED BY <2>1, <3>1, <3>2, <3>3
  <2>3. CASE rules = rebuild_policy(prefs, extra_rules)
    <3>1. \/ \E i \in DOMAIN extra_rules :
               ShedMatches(extra_rules[i], req) /\ d = Applied(extra_rules[i], "shed")
          \/ d = Base(prefs, req)
      BY <2>3, PolicyInForce DEF RuleInv
    <3> HIDE DEF d
    <3>2. ASSUME NEW i \in DOMAIN extra_rules, ShedMatches(extra_rules[i], req),
                 d = Applied(extra_rules[i], "shed")
          PROVE  EarnedForGood(req)
      <4>1. extra_rules[i].scope = "shed" /\ extra_rules[i].action = "approve"
        BY <2>1, <3>2 DEF ShedMatches, Applied
      <4>2. extra_rules[i].server = req.server /\ extra_rules[i].shed = req.shed
        BY <3>2 DEF ShedMatches, RuleInv, Persisted
      <4>3. EarnedForGood(extra_rules[i])
        BY <4>1 DEF EarnInv
      <4>4. QED BY <4>2, <4>3 DEF EarnedForGood
    <3>3. CASE d = Base(prefs, req)
      <4>1. CASE req.namespace = SSH
        BY <2>1, <3>3, <4>1 DEF Base, Applied, NamespaceRule, namespace_action,
                               AllowedOutright, SSH, AWS, DOCKER
      <4>2. CASE req.namespace \in {AWS, DOCKER}
        BY <2>1, <3>3, <4>2 DEF Base, Applied, NamespaceRule, AllowedOutright, SSH, AWS, DOCKER
      <4>3. CASE req.namespace \notin {SSH, AWS, DOCKER}
        BY <2>1, <3>3, <4>3 DEF Base, FailSafe
      <4>4. QED BY <4>1, <4>2, <4>3
    <3>4. QED BY <3>1, <3>2, <3>3
  <2>4. QED BY <2>2, <2>3
<1>3. QED BY <1>1, <1>2

(* A committed choice is in the history of its request. *)
LEMMA CommitRecorded ==
  ASSUME IInv, NEW request \in ApprovalRequest, NEW gate \in PolicyGate,
         NEW choice \in ApprovalChoice, Commits(request, gate, choice)
  PROVE  \E i \in DOMAIN answers :
           /\ i \in DOMAIN answers' /\ asked'[i] = asked[i]
           /\ asked[i].request = request /\ asked[i].conn = conn
           /\ 1 \in DOMAIN answers'[i]
           /\ answers'[i][1].decision = choice.decision
           /\ UserMade(answers'[i][1])
           /\ choice.persist => answers'[i][1].scope = "always"
           /\ ~choice.persist /\ choice.scope # NoValue => answers'[i][1].scope = choice.scope
<1> DEFINE by == IF choice.decision = "approve" /\ is_biometric(gate)
                 THEN "touchid" ELSE "user"
           scope == IF choice.persist THEN "always"
                    ELSE IF choice.scope = NoValue THEN "per-request" ELSE choice.scope
           decisions == [id \in {request.id} |-> choice.decision]
           i == pending[request.id].inst
           a == AnswerBy(choice.decision, by, scope)
<1>1. /\ answers' = Answered(decisions, by, scope) /\ asked' = asked
      /\ request.id \in DOMAIN pending /\ pending[request.id].request = request
  BY DEF Commits, Commit, StillOpen
<1>2. /\ i \in DOMAIN asked /\ asked[i].request = request /\ asked[i].conn = conn
      /\ answers[i] = << >> /\ i \in DOMAIN answers
  <2>1. /\ i \in DOMAIN asked /\ asked[i].request = request /\ asked[i].conn = conn
        /\ answers[i] = << >> /\ Len(answers) = Len(asked)
    BY <1>1 DEF IInv, HistoryConsistent
  <2>2. answers \in Seq(Seq(Answer)) /\ asked \in Seq([request: ApprovalRequest, conn: Nat])
    BY DEF IInv, TypeOK
  <2>3. QED BY <2>1, <2>2
<1>3. decisions[request.id] = choice.decision /\ DOMAIN decisions = {request.id}
  OBVIOUS
<1>4. /\ a.decision = choice.decision /\ a.scope = scope /\ a.by = by
      /\ by \in {"touchid", "user"}
  BY SMTT(60) DEF AnswerBy
<1> HIDE DEF decisions, by, scope
<1>5. i \in DOMAIN answers' /\ answers'[i] = Append(<< >>, AnswerBy(decisions[request.id], by, scope))
  BY <1>1, <1>2, <1>3 DEF Answered
<1> HIDE DEF a
<1>6. answers'[i] = <<a>>
  BY <1>3, <1>5 DEF a
<1>7. answers'[i][1] = a /\ 1 \in DOMAIN answers'[i]
  BY <1>6
<1>8. UserMade(a)
  BY <1>4 DEF UserMade
<1>9. QED BY <1>1, <1>2, <1>4, <1>5, <1>7, <1>8 DEF scope

(* Every step keeps grants and persisted approves earned. *)
LEMMA StepEarned ==
  ASSUME IInv, RuleInv, EarnInv, [Next]_vars
  PROVE  EarnInv'
<1>1. HistoryGrows
  BY StepHistory
<1>2. CASE /\ extra_rules' = extra_rules /\ conn' = conn
           /\ DOMAIN session_grants' \subseteq DOMAIN session_grants
  BY <1>1, <1>2, EarnedStays DEF EarnInv
<1>3. CASE Disconnected
  <2>1. DOMAIN session_grants' = {} /\ extra_rules' = extra_rules
    BY <1>3 DEF Disconnected, Without
  <2>2. QED BY <1>1, <2>1, EarnedStays DEF EarnInv
<1>4. ASSUME NEW request \in ApprovalRequest, NEW gate \in PolicyGate, NEW choice \in ApprovalChoice,
             Commits(request, gate, choice)
      PROVE  EarnInv'
  <2>1. PICK i \in DOMAIN answers :
           /\ i \in DOMAIN answers' /\ asked'[i] = asked[i]
           /\ asked[i].request = request /\ asked[i].conn = conn
           /\ 1 \in DOMAIN answers'[i]
           /\ answers'[i][1].decision = choice.decision
           /\ UserMade(answers'[i][1])
           /\ choice.persist => answers'[i][1].scope = "always"
           /\ ~choice.persist /\ choice.scope # NoValue => answers'[i][1].scope = choice.scope
    BY <1>4, CommitRecorded
  <2>2. conn' = conn /\ session_grants' = GrantsAfter(request, choice)
    BY <1>4 DEF Commits, Commit
  <2>3. ASSUME NEW k \in DOMAIN session_grants' PROVE EarnedForKey(k)'
    <3>1. CASE k \in DOMAIN session_grants
      BY <1>1, <2>2, <3>1, EarnedStays DEF EarnInv
    <3>2. CASE k \notin DOMAIN session_grants
      <4>1. /\ k = KeyOf(request) /\ choice.decision # "deny" /\ ~choice.persist
            /\ choice.scope \in {"per-shed", "per-session"}
        BY <2>2, <2>3, <3>2 DEF GrantsAfter, With, Without
      <4>2. choice.decision = "approve"
        BY <4>1 DEF ApprovalChoice, ApprovalDecision
      <4>3. choice.scope # NoValue
        BY <4>1, SshAssumption DEF ApprovalScope
      <4>4. QED BY <2>1, <2>2, <4>1, <4>2, <4>3 DEF EarnedForKey, UserMade
    <3>3. QED BY <3>1, <3>2
  <2>4. CASE ~choice.persist
    <3>1. extra_rules' = extra_rules
      BY <1>4, <2>4 DEF Commits, Commit
    <3>2. \A n \in DOMAIN extra_rules :
            extra_rules[n].scope = "shed" /\ extra_rules[n].action = "approve"
            => EarnedForGood(extra_rules[n])'
      BY <1>1, <3>1, EarnedStays DEF EarnInv
    <3>3. QED BY <2>3, <3>1, <3>2 DEF EarnInv
  <2>5. CASE choice.persist
    <3> DEFINE kept == [n \in DOMAIN extra_rules |->
                         IF Superseded(extra_rules[n], request.server, request.shed)
                         THEN [extra_rules[n] EXCEPT !.scope = "removed"]
                         ELSE extra_rules[n]]
               new == ShedRule(request.server, request.shed, choice.decision)
    <3>0. ASSUME NEW r \in PolicyRule
          PROVE  /\ [r EXCEPT !.scope = "removed"] \in PolicyRule
                 /\ [r EXCEPT !.scope = "removed"].scope = "removed"
      BY DEF PolicyRule
    <3>1. extra_rules \in Seq(PolicyRule)
      BY DEF IInv, TypeOK
    <3>2. kept \in [1..Len(extra_rules) -> PolicyRule]
      BY <3>0, <3>1
    <3>3. kept \in Seq(PolicyRule) /\ Len(kept) = Len(extra_rules)
      BY <3>1, <3>2, FunctionIsSeq
    <3>4. extra_rules' = Append(kept, new)
      BY <1>4, <2>5 DEF Commits, Commit, add_shed_rule
    <3>5. \A n \in DOMAIN extra_rules : kept[n].scope = "shed" => kept[n] = extra_rules[n]
      BY <3>0, <3>1
    <3>6. /\ new.server = request.server /\ new.shed = request.shed
          /\ new.action = choice.decision
      BY DEF ShedRule
    <3> HIDE DEF kept, new
    <3>7. \A n \in DOMAIN extra_rules' : \/ n \in DOMAIN extra_rules /\ extra_rules'[n] = kept[n]
                                         \/ extra_rules'[n] = new
      BY <3>1, <3>3, <3>4
    <3>8. ASSUME NEW n \in DOMAIN extra_rules', extra_rules'[n].scope = "shed",
                 extra_rules'[n].action = "approve"
          PROVE  EarnedForGood(extra_rules[n])'
      <4>1. CASE n \in DOMAIN extra_rules /\ extra_rules'[n] = kept[n]
        <5>1. extra_rules'[n] = extra_rules[n] /\ EarnedForGood(extra_rules[n])
          BY <3>5, <3>8, <4>1 DEF EarnInv
        <5>2. PICK r : r = extra_rules[n]
          OBVIOUS
        <5>3. EarnedForGood(r)'
          BY <1>1, <5>1, <5>2, EarnedStays
        <5>4. QED BY <5>1, <5>2, <5>3
      <4>2. CASE extra_rules'[n] = new
        BY <2>1, <2>5, <3>6, <3>8, <4>2 DEF EarnedForGood, UserMade
      <4>3. QED BY <3>7, <4>1, <4>2
    <3>9. QED BY <2>3, <3>8 DEF EarnInv
  <2>6. QED BY <2>4, <2>5
<1>5. ASSUME NEW method, NEW policy, set_ssh_approval(method, policy) PROVE EarnInv'
  BY <1>2, <1>5 DEF set_ssh_approval, reset_ssh_grants, Without
<1>6. QED
  BY <1>2, <1>3, <1>4, <1>5, StepCases
  DEF Quiet, handle_approval_request, expire_pending, SetPolicyRules

(* Nothing is approved by policy that the user has not allowed: the rules, *)
(* the grants and the history cannot drift apart, whatever is set, denied, *)
(* persisted or dropped in between.                                        *)
THEOREM AutoApprovalsEarned ==
  ASSUME NoTestApproves
  PROVE  Spec => AutoApprovalEarned
<1> DEFINE Earned(i) ==
      /\ (i \notin DOMAIN answers \/ NewAnswers(i)) /\ answers'[i] # << >>
      /\ LastAnswer(i)'.decision = "approve" /\ LastAnswer(i)'.by = "policy"
      => LET req == asked'[i].request
         IN  \/ AllowedOutright(req, ssh')
             \/ EarnedForGood(req)
             \/ EarnedForKey(KeyOf(req))
<1>1. ASSUME IInv, RuleInv, EarnInv, [Next]_vars, NEW i \in DOMAIN answers' PROVE Earned(i)
  <2>0. /\ answers \in Seq(Seq(Answer)) /\ asked \in Seq([request: ApprovalRequest, conn: Nat])
        /\ Len(answers) = Len(asked) /\ ssh \in SshPrefs /\ extra_rules \in Seq(PolicyRule)
        /\ engine \in Seq(PolicyRule)
    BY <1>1 DEF IInv, TypeOK, HistoryConsistent
  <2>1. CASE answers' = answers
    BY <1>1, <2>1 DEF NewAnswers
  <2>2. ASSUME NEW req \in Incoming, handle_approval_request(req) PROVE Earned(i)
    <3> DEFINE d == decide(engine, req, valid_grants(session_grants))
               new == [request |-> req, conn |-> conn]
               one == <<AnswerBy(d.action, "policy", NoValue)>>
    <3>1. /\ asked' = Append(asked, new) /\ ssh' = ssh
          /\ \/ answers' = Append(answers, << >>)
             \/ answers' = Append(answers, one)
      BY <2>2 DEF handle_approval_request
    <3>2. new.request = req /\ new \in [request: ApprovalRequest, conn: Nat]
      BY <1>1, IncomingAssumption DEF IInv, TypeOK
    <3>3. req \in ApprovalRequest /\ valid_grants(session_grants) \in SUBSET DOMAIN session_grants
      BY IncomingAssumption DEF valid_grants
    <3>4. d.action = "approve" =>
            AllowedOutright(req, ssh) \/ EarnedForGood(req) \/ EarnedForKey(KeyOf(req))
      BY <1>1, <2>0, <3>3, PolicyApproves DEF RuleInv
    <3>5. one[Len(one)].decision = d.action
      BY DEF AnswerBy
    <3> HIDE DEF d, new, one
    <3>6. i \in DOMAIN answers => answers'[i] = answers[i]
      <4>1. PICK first : answers' = Append(answers, first)
        BY <3>1
      <4>2. QED BY <2>0, <4>1
    <3>7. i \notin DOMAIN answers => /\ asked'[i] = new
                                     /\ answers'[i] = << >> \/ answers'[i] = one
      BY <1>1, <2>0, <3>1, <3>2
    <3>8. QED BY <3>1, <3>2, <3>4, <3>5, <3>6, <3>7 DEF NewAnswers, LastAnswer
  <2>3. ASSUME NEW S \in SUBSET DOMAIN pending, NEW decisions \in [S -> ApprovalDecision],
               NEW by \in {"policy", "user", "touchid", "timeout"},
               NEW scope \in ApprovalScope \cup {"always", NoValue},
               answers' = Answered(decisions, by, scope), asked' = asked,
               by = "policy" => \A id \in S : decisions[id] = "approve" =>
                 LET req == pending[id].request
                 IN  AllowedOutright(req, ssh') \/ EarnedForGood(req) \/ EarnedForKey(KeyOf(req))
        PROVE  Earned(i)
    <3> DEFINE id == asked[i].request.id
               a == AnswerBy(decisions[id], by, scope)
    <3>1. DOMAIN answers' = DOMAIN answers
      BY <2>3 DEF Answered
    <3>2. answers'[i] # answers[i] =>
            /\ id \in S /\ pending[id].inst = i
            /\ answers'[i] = Append(answers[i], a)
      BY <1>1, <2>3, <3>1 DEF Answered
    <3>3. ASSUME id \in S, pending[id].inst = i
          PROVE  asked[i].request = pending[id].request /\ answers[i] = << >>
      BY <1>1, <3>3 DEF IInv, HistoryConsistent
    <3>4. a.decision = decisions[id] /\ a.by = by
      BY DEF AnswerBy
    <3> HIDE DEF a
    <3>5. Append(<< >>, a) = <<a>> /\ Len(<<a>>) = 1 /\ <<a>>[1] = a
      OBVIOUS
    <3>6. NewAnswers(i) => LastAnswer(i)' = a
      BY <3>2, <3>3, <3>5 DEF NewAnswers, LastAnswer
    <3>7. QED BY <1>1, <2>3, <3>1, <3>2, <3>3, <3>4, <3>6 DEF NewAnswers
  <2>4. ASSUME NEW request \in ApprovalRequest, NEW gate \in PolicyGate,
               NEW choice \in ApprovalChoice, Commits(request, gate, choice)
        PROVE  Earned(i)
    <3> DEFINE by == IF choice.decision = "approve" /\ is_biometric(gate)
                     THEN "touchid" ELSE "user"
               scope == IF choice.persist THEN "always"
                        ELSE IF choice.scope = NoValue THEN "per-request" ELSE choice.scope
               decisions == [id \in {request.id} |-> choice.decision]
    <3>1. answers' = Answered(decisions, by, scope) /\ asked' = asked
      BY <2>4 DEF Commits, Commit
    <3>2. /\ decisions \in [{request.id} -> ApprovalDecision]
          /\ {request.id} \in SUBSET DOMAIN pending
      BY <2>4 DEF ApprovalChoice, Commits, StillOpen
    <3>3. by \in {"policy", "user", "touchid", "timeout"} /\ by # "policy"
      OBVIOUS
    <3>4. scope \in ApprovalScope \cup {"always", NoValue}
      BY DEF ApprovalScope, ApprovalChoice
    <3> HIDE DEF by, scope, decisions
    <3>5. QED BY <2>3, <3>1, <3>2, <3>3, <3>4
  <2>5. CASE expire_pending
    <3> DEFINE decisions == [id \in Swept |-> "deny"]
    <3>1. decisions \in [Swept -> ApprovalDecision] /\ Swept \in SUBSET DOMAIN pending
      BY DEF ApprovalDecision, Swept
    <3>2. answers' = Answered(decisions, "timeout", NoValue) /\ asked' = asked
      BY <2>5 DEF expire_pending
    <3> HIDE DEF decisions
    <3>3. QED BY <2>3, <3>1, <3>2
  <2>6. ASSUME NEW method \in ApprovalMethod \cup {NoValue},
               NEW policy \in SshApprovalPolicy \cup {NoValue},
               set_ssh_approval(method, policy)
        PROVE  Earned(i)
    <3> DEFINE grants == reset_ssh_grants
               rules == engine'
               decided == Redecidable(rules, grants)
               decisions == [id \in decided |-> Redecided(rules, grants, id).action]
    <3>1. /\ reevaluate_pending(rules, grants) /\ asked' = asked
          /\ engine' = rebuild_policy(ssh', extra_rules)
      BY <2>6 DEF set_ssh_approval
    <3>2. ssh' \in SshPrefs /\ engine' \in Seq(PolicyRule)
      BY <1>1, NextType DEF IInv, TypeOK
    <3>3. answers' = Answered(decisions, "policy", NoValue) /\ decided \in SUBSET DOMAIN pending
      BY <3>1 DEF reevaluate_pending, Redecidable
    <3>4. valid_grants(grants) \in SUBSET DOMAIN session_grants
      BY DEF valid_grants, reset_ssh_grants, Without
    <3>5. ASSUME NEW id \in decided
          PROVE  /\ Redecided(rules, grants, id).action \in ApprovalDecision
                 /\ Redecided(rules, grants, id).action = "approve" =>
                      LET req == pending[id].request
                      IN  AllowedOutright(req, ssh') \/ EarnedForGood(req) \/ EarnedForKey(KeyOf(req))
      <4>1. Redecided(rules, grants, id) \in PolicyDecision
        BY <3>2, DecideType DEF Redecided
      <4>2. Redecided(rules, grants, id).action \in ApprovalDecision
        BY <3>5, <4>1 DEF Redecidable, PolicyDecision, PolicyAction, ApprovalDecision
      <4>3. pending[id].request \in ApprovalRequest
        BY <1>1, <3>3, <3>5 DEF IInv, TypeOK, PendingApproval
      <4> HIDE DEF rules, grants
      <4>4. Redecided(rules, grants, id) = decide(rules, pending[id].request, valid_grants(grants))
        BY DEF Redecided
      <4>5. QED BY <1>1, <2>0, <3>1, <3>2, <3>4, <4>2, <4>3, <4>4, PolicyApproves DEF rules
    <3>6. decisions \in [decided -> ApprovalDecision]
      BY <3>5
    <3>7. \A id \in decided : decisions[id] = Redecided(rules, grants, id).action
      OBVIOUS
    <3> HIDE DEF decisions, decided, rules, grants
    <3>8. QED BY <2>3, <3>1, <3>3, <3>5, <3>6, <3>7
  <2>7. QED
    BY <1>1, <2>1, <2>2, <2>4, <2>5, <2>6, StepCases
    DEF Quiet, Disconnected, SetPolicyRules
<1>2. Init => EarnInv
  BY DEF Init, EarnInv
<1>3. IInv /\ RuleInv /\ EarnInv /\ [Next]_vars => [\A i \in DOMAIN answers' : Earned(i)]_vars
  BY <1>1
<1>4. QED BY <1>2, <1>3, StepEarned, Invariance, RulesInForce, PTL DEF Spec, AutoApprovalEarned
=============================================================================
