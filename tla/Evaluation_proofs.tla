------------------------- MODULE Evaluation_proofs --------------------------
(***************************************************************************)
(* Proofs about the pure functions, for every input: what decide and       *)
(* ttl_shorthand_seconds promise, that the fleet fails closed, the         *)
(* contract with the guest, and that the fields of a server are read from  *)
(* its own block of the configuration, none of them lost (ConfigReader).   *)
(***************************************************************************)
EXTENDS Evaluation, ConfigReader, WellFoundedInduction, TLAPS

-----------------------------------------------------------------------------
(* The policy engine. *)

(* First picks the least: a nonempty set of positions has one. *)
LEMMA FirstIsLeast ==
  ASSUME NEW S, S \subseteq Nat, S # {}
  PROVE  First(S) \in S /\ \A j \in S : First(S) <= j
<1>1. \E m \in S : \A k \in S : ~ (<<k, m>> \in OpToRel(<, Nat))
  BY WFMin, NatLessThanWellFounded, Zenon
<1>2. \E m \in S : \A k \in S : m <= k
  <2>1. PICK m \in S : \A k \in S : ~ (<<k, m>> \in OpToRel(<, Nat))
    BY <1>1, Zenon
  <2>2. ASSUME NEW k \in S PROVE m <= k
    <3>1. k \in Nat /\ m \in Nat
      BY <2>2
    <3>2. k < m => <<k, m>> \in OpToRel(<, Nat)
      BY <3>1, Zenon DEF OpToRel
    <3>3. ~ (k < m)
      BY <3>2, <2>1, <2>2, Zenon
    <3>4. QED BY <3>1, <3>3
  <2>3. QED BY <2>2
<1>3. QED BY <1>2 DEF First

(* decide returns a decision whatever the rules and the grants are. *)
LEMMA DecideType ==
  ASSUME NEW rules \in Seq(PolicyRule), NEW req, NEW grants
  PROVE  decide(rules, req, grants) \in PolicyDecision
<1> DEFINE sheds    == {i \in DOMAIN rules : ShedMatches(rules[i], req)}
           spaces   == {i \in DOMAIN rules : NamespaceMatches(rules[i], req)}
           defaults == {i \in DOMAIN rules : DefaultMatches(rules[i], req)}
<1>1. ASSUME NEW S, S \subseteq DOMAIN rules, S # {},
             NEW scope \in {"default", "namespace", "shed", "session"}
      PROVE  Applied(rules[First(S)], scope) \in PolicyDecision
  <2>1. First(S) \in DOMAIN rules
    <3>1. S \subseteq Nat
      BY <1>1
    <3>2. QED BY <1>1, <3>1, FirstIsLeast
  <2>2. rules[First(S)] \in PolicyRule
    BY <2>1
  <2>3. QED
    BY <2>2, <1>1 DEF Applied, PolicyRule, PolicyDecision
<1>2. SessionGranted \in PolicyDecision /\ FailSafe \in PolicyDecision
  BY DEF SessionGranted, FailSafe, PolicyDecision, PolicyAction, PolicyGate
<1>3. sheds \subseteq DOMAIN rules /\ spaces \subseteq DOMAIN rules
        /\ defaults \subseteq DOMAIN rules
  OBVIOUS
<1>4. sheds # {} => Applied(rules[First(sheds)], "shed") \in PolicyDecision
  BY <1>1, <1>3
<1>5. spaces # {} => Applied(rules[First(spaces)], "namespace") \in PolicyDecision
  BY <1>1, <1>3
<1>6. defaults # {} => Applied(rules[First(defaults)], "default") \in PolicyDecision
  BY <1>1, <1>3
<1>7. QED
  BY <1>2, <1>4, <1>5, <1>6, Zenon DEF decide, RuleDecision

(* The first matching rule of the most specific scope decides. *)
LEMMA RuleDecisionCases ==
  ASSUME NEW rules \in Seq(PolicyRule), NEW req
  PROVE  LET d == RuleDecision(rules, req)
             NoShed == \A i \in DOMAIN rules : ~ShedMatches(rules[i], req)
             NoSpace == \A i \in DOMAIN rules : ~NamespaceMatches(rules[i], req)
         IN  \/ \E i \in DOMAIN rules :
                  /\ ShedMatches(rules[i], req)
                  /\ \A j \in DOMAIN rules : ShedMatches(rules[j], req) => i <= j
                  /\ d = Applied(rules[i], "shed")
             \/ /\ NoShed
                /\ \E i \in DOMAIN rules :
                     /\ NamespaceMatches(rules[i], req)
                     /\ \A j \in DOMAIN rules : NamespaceMatches(rules[j], req) => i <= j
                     /\ d = Applied(rules[i], "namespace")
             \/ /\ NoShed /\ NoSpace
                /\ \E i \in DOMAIN rules :
                     /\ DefaultMatches(rules[i], req)
                     /\ \A j \in DOMAIN rules : DefaultMatches(rules[j], req) => i <= j
                     /\ d = Applied(rules[i], "default")
             \/ /\ NoShed /\ NoSpace
                /\ \A i \in DOMAIN rules : ~DefaultMatches(rules[i], req)
                /\ d = FailSafe
<1> DEFINE sheds    == {i \in DOMAIN rules : ShedMatches(rules[i], req)}
           spaces   == {i \in DOMAIN rules : NamespaceMatches(rules[i], req)}
           defaults == {i \in DOMAIN rules : DefaultMatches(rules[i], req)}
<1>1. sheds \subseteq Nat /\ spaces \subseteq Nat /\ defaults \subseteq Nat
  OBVIOUS
<1>2. /\ sheds # {} => First(sheds) \in sheds /\ \A j \in sheds : First(sheds) <= j
      /\ spaces # {} => First(spaces) \in spaces /\ \A j \in spaces : First(spaces) <= j
      /\ defaults # {} => First(defaults) \in defaults /\ \A j \in defaults : First(defaults) <= j
  BY <1>1, FirstIsLeast
<1>3. RuleDecision(rules, req) =
        IF sheds # {} THEN Applied(rules[First(sheds)], "shed")
        ELSE IF spaces # {} THEN Applied(rules[First(spaces)], "namespace")
        ELSE IF defaults # {} THEN Applied(rules[First(defaults)], "default")
        ELSE FailSafe
  BY DEF RuleDecision
<1>4. QED
  BY <1>2, <1>3, Zenon

(* decide() keeps its promise for every rule list, request and set of      *)
(* grants.                                                                 *)
THEOREM MostSpecificWins ==
  ASSUME NEW rules \in Seq(PolicyRule), NEW req, NEW grants
  PROVE  MostSpecific(rules, req, grants, decide(rules, req, grants))
<1>1. CASE KeyOf(req) \in grants
  BY <1>1 DEF MostSpecific, decide, SessionGranted
<1>2. CASE KeyOf(req) \notin grants
  <2> DEFINE d == RuleDecision(rules, req)
             Before(i, j) == \/ Rank(rules[i].scope) < Rank(rules[j].scope)
                             \/ rules[i].scope = rules[j].scope /\ i <= j
             hits == {i \in DOMAIN rules : Matching(rules[i], req)}
             Best(i) == /\ i \in hits /\ \A j \in hits : Before(i, j)
                        /\ d = Applied(rules[i], rules[i].scope)
  <2>1. \A i \in DOMAIN rules :
          Matching(rules[i], req) <=> \/ ShedMatches(rules[i], req)
                                     \/ NamespaceMatches(rules[i], req)
                                     \/ DefaultMatches(rules[i], req)
    BY DEF Matching, ShedMatches, NamespaceMatches, DefaultMatches
  <2>2. Rank("shed") = 1 /\ Rank("namespace") = 2 /\ Rank("default") = 3
    BY DEF Rank
  <2>3. decide(rules, req, grants) = d
    BY <1>2 DEF decide
  <2>4. (\E i \in DOMAIN rules : Best(i)) \/ (hits = {} /\ d = FailSafe)
    <3>1. CASE \E i \in DOMAIN rules :
                 /\ ShedMatches(rules[i], req)
                 /\ \A j \in DOMAIN rules : ShedMatches(rules[j], req) => i <= j
                 /\ d = Applied(rules[i], "shed")
      BY <2>1, <2>2, <3>1 DEF ShedMatches, NamespaceMatches, DefaultMatches
    <3>2. CASE /\ \A i \in DOMAIN rules : ~ShedMatches(rules[i], req)
               /\ \E i \in DOMAIN rules :
                    /\ NamespaceMatches(rules[i], req)
                    /\ \A j \in DOMAIN rules : NamespaceMatches(rules[j], req) => i <= j
                    /\ d = Applied(rules[i], "namespace")
      BY <2>1, <2>2, <3>2 DEF NamespaceMatches, DefaultMatches
    <3>3. CASE /\ \A i \in DOMAIN rules : ~ShedMatches(rules[i], req)
               /\ \A i \in DOMAIN rules : ~NamespaceMatches(rules[i], req)
               /\ \E i \in DOMAIN rules :
                    /\ DefaultMatches(rules[i], req)
                    /\ \A j \in DOMAIN rules : DefaultMatches(rules[j], req) => i <= j
                    /\ d = Applied(rules[i], "default")
      BY <2>1, <2>2, <3>3 DEF DefaultMatches
    <3>4. CASE /\ \A i \in DOMAIN rules : ~ShedMatches(rules[i], req)
               /\ \A i \in DOMAIN rules : ~NamespaceMatches(rules[i], req)
               /\ \A i \in DOMAIN rules : ~DefaultMatches(rules[i], req)
               /\ d = FailSafe
      BY <2>1, <3>4
    <3>5. QED BY <3>1, <3>2, <3>3, <3>4, RuleDecisionCases, Zenon
  <2> HIDE DEF d
  <2>5. CASE \E i \in DOMAIN rules : Best(i)
    BY <1>2, <2>3, <2>5 DEF MostSpecific
  <2>6. CASE hits = {} /\ d = FailSafe
    BY <1>2, <2>3, <2>6 DEF MostSpecific, FailSafe, is_biometric
  <2>7. QED BY <2>4, <2>5, <2>6
<1>3. QED BY <1>1, <1>2

(* A remainder is not larger than the number. *)
LEMMA ModLe == ASSUME NEW a \in Nat, NEW m \in Nat \ {0} PROVE a % m \in Nat /\ a % m <= a
  OBVIOUS

(* A time to live is never longer than what was asked for, also where the  *)
(* product of number and unit overflows (ttl_shorthand_seconds).  The      *)
(* powers of two are given as numbers: the provers know no exponentiation. *)
THEOREM TtlBounded ==
  ASSUME NEW n \in Int, NEW unit, NEW width \in Nat \ {0},
         2^(width - 1) \in Nat \ {0}, 2^width \in Nat \ {0}
  PROVE  LET ttl == ttl_shorthand_seconds(n, unit, width)
         IN  \/ ttl = NoValue
             \/ n > 0 /\ unit \in {"s", "m", "h", "d"} /\ ttl <= n * UnitSeconds(unit)
<1>1. CASE unit \in {"s", "m", "h", "d"} /\ n > 0
  <2>1. UnitSeconds(unit) \in Nat
    BY <1>1 DEF UnitSeconds
  <2>2. PICK p : p = n * UnitSeconds(unit)
    OBVIOUS
  <2>3. p \in Nat
    BY <1>1, <2>2 DEF UnitSeconds
  <2>4. PICK h \in Nat \ {0}, m \in Nat \ {0} : h = 2^(width - 1) /\ m = 2^width
    OBVIOUS
  <2>5. Wrap(p, width) = ((p + h) % m) - h
    BY <2>4 DEF Wrap
  <2>6. p + h \in Nat /\ (p + h) % m \in Nat /\ (p + h) % m <= p + h
    BY <2>3, <2>4, ModLe
  <2>7. Wrap(p, width) <= p
    BY <2>3, <2>4, <2>5, <2>6
  <2>8. QED BY <1>1, <2>2, <2>7 DEF ttl_shorthand_seconds
<1>2. QED BY <1>1 DEF ttl_shorthand_seconds

-----------------------------------------------------------------------------
(* The evaluations. *)

(* What is in the answer is the value of the function that was asked. *)
EvalInv == Asked /\ (answer = NoValue \/ answer = Value)

(* A question stays as it was asked, and its answer is the function's. *)
LEMMA EvalInvariance == EvalSpec => []EvalInv
<1>1. EvalInit => EvalInv
  BY DEF EvalInit, EvalInv
<1>2. EvalInv /\ [Evaluate]_evalVars => EvalInv'
  <2> SUFFICES ASSUME EvalInv, [Evaluate]_evalVars PROVE EvalInv'
    OBVIOUS
  <2>1. about' = about /\ input' = input
    BY DEF Evaluate, evalVars
  <2>2. Asked'
    BY <2>1 DEF EvalInv, Asked
  <2>3. Value' = Value
    BY <2>1, Zenon DEF Value, Fleet, Launch
  <2>4. answer' = NoValue \/ answer' = Value'
    BY <2>3 DEF EvalInv, Evaluate, evalVars
  <2>5. QED BY <2>2, <2>4 DEF EvalInv
<1>3. QED BY <1>1, <1>2, PTL DEF EvalSpec

(* What the invariant says of each function. *)
LEMMA ValueIs ==
  ASSUME EvalInv
  PROVE  /\ Evaluated("decide") => /\ input \in PolicyInputs
                                  /\ answer = decide(input.rules, input.req, input.grants)
         /\ Evaluated("ttl") => /\ input \in TtlInputs
                               /\ answer = <<ttl_shorthand_seconds(input.n, input.unit, Width)>>
         /\ Evaluated("fleet") => input \in FleetInputs /\ answer = Fleet(input)
         /\ Evaluated("launch") => input \in LaunchInputs /\ answer = Launch(input)
         /\ Evaluated("pane") => /\ input \in PaneInputs
                                /\ answer = L!classify_pane(input.kind, input.pane)
  BY DEF EvalInv, Asked, Value, Evaluated

(* "Most specific wins" for every rule list, request and set of grants     *)
(* that decide can be given.                                               *)
LEMMA PolicyHolds == EvalSpec => []MostSpecificFirstWins
<1>1. EvalInv => MostSpecificFirstWins
  <2> SUFFICES ASSUME EvalInv, Evaluated("decide")
               PROVE  MostSpecific(input.rules, input.req, input.grants, answer)
    BY DEF MostSpecificFirstWins
  <2>1. input \in PolicyInputs /\ answer = decide(input.rules, input.req, input.grants)
    BY ValueIs
  <2>2. input.rules \in Seq(PolicyRule)
    BY <2>1, PolicyAssumption
  <2>3. MostSpecific(input.rules, input.req, input.grants,
                     decide(input.rules, input.req, input.grants))
    BY <2>2, MostSpecificWins, Zenon
  <2>4. QED BY <2>1, <2>3, Zenon
<1>2. QED BY <1>1, EvalInvariance, PTL

(* No time to live is longer than the one asked for, whatever the number,  *)
(* the unit and the width of the integers (ttl_shorthand_seconds).         *)
LEMMA TtlHolds == EvalSpec => []TtlNeverLonger
<1>1. EvalInv => TtlNeverLonger
  <2> SUFFICES ASSUME EvalInv, Evaluated("ttl")
               PROVE  \/ answer = <<NoValue>>
                      \/ /\ input.n > 0 /\ input.unit \in {"s", "m", "h", "d"}
                         /\ answer[1] <= input.n * UnitSeconds(input.unit)
    BY DEF TtlNeverLonger
  <2> DEFINE ttl == ttl_shorthand_seconds(input.n, input.unit, Width)
  <2>1. input \in TtlInputs /\ answer = <<ttl>>
    BY ValueIs
  <2>2. input.n \in Int
    BY <2>1, TtlAssumption
  <2>3. \/ ttl = NoValue
        \/ /\ input.n > 0 /\ input.unit \in {"s", "m", "h", "d"}
           /\ ttl <= input.n * UnitSeconds(input.unit)
    BY <2>2, TtlAssumption, TtlBounded
  <2> HIDE DEF ttl
  <2>4. QED BY <2>1, <2>3
<1>2. QED BY <1>1, EvalInvariance, PTL

(* The policy and its times to live are as documented, for every input of  *)
(* decide and of ttl_shorthand_seconds.                                    *)
THEOREM PolicyIsAsDocumented == EvalSpec => []PolicyAsDocumented
BY PolicyHolds, TtlHolds, PTL DEF PolicyAsDocumented
-----------------------------------------------------------------------------
(* The fleet. *)

(* How a client is made of a server: with the mock it is the mock's,       *)
(* without token, pin and minter.                                          *)
MadeOf(c, s, mock, minter) ==
  /\ c.name = s.name
  /\ mock # NoValue => c.base_url = mock /\ c.token = Empty /\ ~c.minter
  /\ mock = NoValue => c.base_url = F!resolved_endpoint(s).base_url /\ c.pin = s.pin
  /\ mock = NoValue => (c.minter <=> minter)
  /\ mock = NoValue /\ s.pin # Empty => c.base_url.scheme = "https"

(* A client is made of a server in the configuration. *)
LEMMA ClientsOfConfig ==
  ASSUME NEW config, NEW mock, NEW minter,
         NEW c \in RangeOf(F!from_config_with_minter(config, mock, minter).clients)
  PROVE  \E i \in DOMAIN config.servers : MadeOf(c, config.servers[i], mock, minter)
<1> DEFINE clients == F!from_config_with_minter(config, mock, minter).clients
           Of(i) == F!ClientOf(config.servers[i], mock, minter)
<1>1. clients = [i \in {j \in DOMAIN config.servers : Of(j) # << >>} |-> Of(i)[1]]
  BY DEF F!from_config_with_minter
<1>2. PICK i \in DOMAIN config.servers : Of(i) # << >> /\ c = Of(i)[1]
  BY <1>1 DEF RangeOf
<1>3. WITNESS i \in DOMAIN config.servers
<1>4. F!resolved_endpoint(config.servers[i]).pin = config.servers[i].pin
  BY DEF F!resolved_endpoint
<1>5. QED BY <1>2, <1>4 DEF F!ClientOf, F!NewClient, MadeOf

(* The hops that a pinned client makes from an https URL are all to the    *)
(* pinned certificate.                                                     *)
LEMMA PinnedHops ==
  ASSUME NEW c, NEW hops, DOMAIN hops = 1..Len(hops), Len(hops) \in Nat,
         c.pin # Empty, Len(hops) > 0, hops[1].url.scheme = "https", NEW h \in F!Hops(c, hops)
  PROVE  h.url.scheme = "https" /\ h.cert = c.pin
<1>1. PICK n \in DOMAIN hops : /\ h = hops[n] /\ F!Connects(c, hops[n])
                               /\ \A i \in 1..n : i > 1 => hops[i].url.scheme = "https"
  BY DEF F!Hops
<1>2. n \in Nat /\ n >= 1 /\ n \in 1..n
  BY <1>1
<1>3. h.url.scheme = "https"
  BY <1>1, <1>2
<1>4. QED BY <1>1, <1>3 DEF F!Connects

(* What resolve_entry finds is one of the items, and bears the name of an  *)
(* explicit host.                                                          *)
LEMMA ResolvedByName ==
  ASSUME NEW items, NEW default, NEW host, host # NoValue,
         NEW x \in F!resolve_entry(items, default, host)
  PROVE  x.name = host
  BY DEF F!resolve_entry, F!FirstOf, F!by_name

(* The fleet fails closed for every environment, configuration, choice of  *)
(* host and sequence of redirects.                                         *)
THEOREM FleetIsClosed == EvalSpec => []FleetFailsClosed
<1>1. EvalInv => FleetFailsClosed
  <2> SUFFICES ASSUME EvalInv, Evaluated("fleet") PROVE FleetFailsClosed
    BY DEF FleetFailsClosed
  <2> DEFINE env == input.env
             files == [p \in {input.path} |-> input.config]
             config == F!load(files, F!from_process(env).config_path)
             backend == F!from_env_parts_with_minter(F!from_process(env), files, input.minter)
             clients == RangeOf(answer.backend.clients)
             built == F!from_config_with_minter(config, env.mock, input.minter)
  <2>1. input \in FleetInputs /\ answer = Fleet(input)
    BY ValueIs
  <2>2. /\ answer.backend = backend
        /\ answer.client = F!client_for(backend, input.host)
        /\ answer.ssh = F!ssh_target_for(backend, input.host)
    BY <2>1 DEF Fleet
  <2>3. /\ env.test_mode /\ env.mock = NoValue => backend = F!NoBackend
        /\ ~(env.test_mode /\ env.mock = NoValue) => backend = built
    BY DEF F!from_env_parts_with_minter, F!from_process
  <2>4. config = input.config \/ config = F!NoConfig
    BY DEF F!load
  <2>5. RangeOf(F!NoBackend.clients) = {} /\ RangeOf(F!NoBackend.ssh_targets) = {}
    BY DEF RangeOf, F!NoBackend
  <2>6. DOMAIN F!NoConfig.servers = {}
    BY DEF F!NoConfig
  <2>7. env.test_mode /\ env.config = Empty /\ input.path = "home" => config = F!NoConfig
    BY FleetAssumption, SMTT(60) DEF F!load, F!from_process
  <2>8. DOMAIN config.servers = {} => RangeOf(built.clients) = {} /\ RangeOf(built.ssh_targets) = {}
    BY DEF F!from_config_with_minter, RangeOf
  <2> HIDE DEF built, backend, config
  <2>9. env.test_mode /\ (env.mock = NoValue \/ (env.config = Empty /\ input.path = "home")) =>
           clients = {} /\ RangeOf(answer.backend.ssh_targets) = {}
    BY <2>2, <2>3, <2>5, <2>6, <2>7, <2>8
  <2>10. ASSUME NEW c \in clients
         PROVE  \E i \in DOMAIN input.config.servers :
                  MadeOf(c, input.config.servers[i], env.mock, input.minter)
    <3>1. c \in RangeOf(built.clients)
      BY <2>2, <2>3, <2>5, <2>10
    <3>2. config = input.config
      BY <2>4, <2>6, <2>8, <3>1
    <3>3. \E i \in DOMAIN config.servers :
            MadeOf(c, config.servers[i], env.mock, input.minter)
      BY <3>1, ClientsOfConfig, Zenon DEF built
    <3>4. QED BY <3>2, <3>3, Zenon
  <2>11. env.mock # NoValue =>
           \A c \in clients : c.base_url = env.mock /\ F!bearer(c, "minted") = NoValue
    BY <2>10 DEF F!bearer, MadeOf
  <2>12. ASSUME env.mock = NoValue, NEW c \in clients, NEW s \in RangeOf(input.config.servers),
                NEW hops \in Journeys, c.name = s.name, s.pin # Empty,
                Len(hops) > 0, hops[1].url = c.base_url, NEW h \in F!Hops(c, hops)
         PROVE  h.url.scheme = "https" /\ h.cert = s.pin
    <3>1. PICK i \in DOMAIN input.config.servers : s = input.config.servers[i]
      BY DEF RangeOf
    <3>2. PICK j \in DOMAIN input.config.servers :
            MadeOf(c, input.config.servers[j], NoValue, input.minter)
      BY <2>10, <2>12
    <3>3. i = j
      BY <2>1, <2>12, <3>1, <3>2, FleetAssumption DEF MadeOf
    <3>4. c.pin = s.pin /\ hops[1].url.scheme = "https"
      <4>1. MadeOf(c, s, NoValue, input.minter)
        BY <3>1, <3>2, <3>3, Zenon
      <4>2. c.pin = s.pin /\ c.base_url.scheme = "https"
        BY <4>1, <2>12, Zenon DEF MadeOf
      <4>3. QED BY <4>2, <2>12
    <3>5. DOMAIN hops = 1..Len(hops) /\ Len(hops) \in Nat
      BY FleetAssumption
    <3>6. QED BY <2>12, <3>4, <3>5, PinnedHops
  <2>13. input.minter /\ env.mock = NoValue => \A c \in clients : F!bearer(c, NoValue) = NoValue
    BY <2>10, Zenon DEF F!bearer, MadeOf
  <2>14. input.host # NoValue => \A x \in answer.client \cup answer.ssh : x.name = input.host
    BY <2>2, ResolvedByName DEF F!client_for, F!ssh_target_for
  <2>15. QED BY <2>9, <2>11, <2>12, <2>13, <2>14 DEF FleetFailsClosed
<1>2. QED BY <1>1, EvalInvariance, PTL
-----------------------------------------------------------------------------
(* The contract with the guest. *)

(* A nonempty set of positions of a list has a last one. *)
LEMMA LastExists ==
  ASSUME NEW n \in Nat, NEW S, S \subseteq 1..n, S # {}
  PROVE  \E m \in S : \A k \in S : k <= m
<1> DEFINE T == {n - i : i \in S}
<1>1. T \subseteq Nat /\ T # {}
  <2>1. ASSUME NEW i \in S PROVE n - i \in Nat
    <3>1. i \in 1..n
      OBVIOUS
    <3>2. QED BY <3>1
  <2>2. QED BY <2>1
<1>2. First(T) \in T /\ \A j \in T : First(T) <= j
  BY <1>1, FirstIsLeast
<1>3. PICK m \in S : First(T) = n - m
  BY <1>2
<1>4. ASSUME NEW k \in S PROVE k <= m
  <2>1. n - m <= n - k
    BY <1>2, <1>3
  <2>2. k \in Int /\ m \in Int
    OBVIOUS
  <2>3. QED BY <2>1, <2>2
<1>5. QED BY <1>4

(* Trim drops the white space around a word, and nothing else. *)
LEMMA TrimmedAsTyped ==
  ASSUME NEW raw \in Seq(Chars)
  PROVE  IF \A i \in DOMAIN raw : raw[i] \in L!Whitespace
         THEN L!Trim(raw) = << >>
         ELSE L!Trim(raw) # << >> /\ AsTyped(L!Trim(raw), raw)
<1> DEFINE kept == {i \in DOMAIN raw : raw[i] \notin L!Whitespace}
<1>1. CASE kept = {}
  BY <1>1 DEF L!Trim
<1>2. CASE kept # {}
  <2> DEFINE i == CHOOSE k \in kept : \A j \in kept : k <= j
             j == CHOOSE k \in kept : \A l \in kept : l <= k
  <2>1. kept \subseteq 1..Len(raw) /\ Len(raw) \in Nat
    OBVIOUS
  <2>2. i \in kept /\ \A k \in kept : i <= k
    <3>1. kept \subseteq Nat
      BY <2>1
    <3>2. QED BY <1>2, <3>1, FirstIsLeast DEF First
  <2>3. j \in kept /\ \A k \in kept : k <= j
    <3>1. \E m \in kept : \A k \in kept : k <= m
      BY <1>2, <2>1, LastExists
    <3>2. QED BY <3>1
  <2>4. L!Trim(raw) = SubSeq(raw, i, j)
    BY <1>2 DEF L!Trim
  <2> HIDE DEF i, j
  <2>5. i \in 1..Len(raw) /\ j \in 1..Len(raw) /\ i <= j
    BY <2>1, <2>2, <2>3
  <2>6. Len(SubSeq(raw, i, j)) = j - i + 1
    BY <2>5
  <2>7. SubSeq(raw, i, j) # << >>
    BY <2>5, <2>6
  <2>8. \A k \in DOMAIN raw : k < i \/ k > j => raw[k] \in L!Whitespace
    BY <2>1, <2>2, <2>3, <2>5
  <2>9. AsTyped(L!Trim(raw), raw)
    BY <2>2, <2>3, <2>4, <2>8 DEF AsTyped
  <2>10. QED BY <1>2, <2>4, <2>7, <2>9
<1>3. QED BY <1>1, <1>2

(* A list of three parts ends with the end of the last one. *)
LEMMA ThreeParts ==
  ASSUME NEW T, NEW a \in Seq(T), NEW b \in Seq(T), NEW c \in Seq(T)
  PROVE  /\ Len(a \o b \o c) = Len(a) + Len(b) + Len(c)
         /\ Len(c) = 1 => (a \o b \o c)[Len(a) + Len(b) + 1] = c[1]
<1>1. PICK d \in Seq(T) : d = a \o b
  <2>1. a \o b \in Seq(T)
    OBVIOUS
  <2>2. QED BY <2>1, Zenon
<1>2. Len(d) = Len(a) + Len(b)
  BY <1>1
<1>3. Len(d \o c) = Len(d) + Len(c) /\ (Len(c) = 1 => (d \o c)[Len(d) + 1] = c[1])
  OBVIOUS
<1>4. QED BY <1>1, <1>2, <1>3

(* The argv tells the guest to read a prompt exactly when there is one,    *)
(* whatever the name, the slug and the workdir are.                        *)
LEMMA ArgvTells ==
  ASSUME NEW kind, NEW name, NEW slug, NEW workdir, NEW has_prompt \in BOOLEAN
  PROVE  ReadsPrompt(L!create_argv(kind, name, slug, workdir, has_prompt)) <=> has_prompt
<1> DEFINE T == {<<"create">>, <<"--kind">>, <<kind>>, <<"--name">>, name, <<"--slug">>, slug,
                 <<"--wait">>, <<"--workdir">>, workdir, <<"--prompt-stdin">>}
           argv == L!create_argv(kind, name, slug, workdir, has_prompt)
<1>1. PICK base \in Seq(T) :
        /\ base = <<<<"create">>, <<"--kind">>, <<kind>>, <<"--name">>, name, <<"--slug">>, slug,
                    <<"--wait">>>>
        /\ Len(base) = 8
  <2> DEFINE fixed == <<<<"create">>, <<"--kind">>, <<kind>>, <<"--name">>, name, <<"--slug">>, slug,
                        <<"--wait">>>>
  <2>1. fixed \in Seq(T) /\ Len(fixed) = 8
    OBVIOUS
  <2>2. QED BY <2>1, Zenon
<1>2. PICK dir \in Seq(T) :
        /\ dir = IF L!Given(workdir) THEN <<<<"--workdir">>, workdir>> ELSE << >>
        /\ Len(dir) \in {0, 2}
  <2>1. CASE L!Given(workdir)
    <3>1. <<<<"--workdir">>, workdir>> \in Seq(T) /\ Len(<<<<"--workdir">>, workdir>>) = 2
      OBVIOUS
    <3>2. QED BY <2>1, <3>1, Zenon
  <2>2. CASE ~L!Given(workdir)
    <3>1. << >> \in Seq(T) /\ Len(<< >>) = 0
      OBVIOUS
    <3>2. QED BY <2>2, <3>1, Zenon
  <2>3. QED BY <2>1, <2>2
<1>3. PICK flag \in Seq(T) :
        /\ flag = IF has_prompt THEN <<<<"--prompt-stdin">>>> ELSE << >>
        /\ has_prompt => Len(flag) = 1 /\ flag[1] = <<"--prompt-stdin">>
        /\ ~has_prompt => Len(flag) = 0
  <2>1. CASE has_prompt
    <3>1. /\ <<<<"--prompt-stdin">>>> \in Seq(T) /\ Len(<<<<"--prompt-stdin">>>>) = 1
          /\ <<<<"--prompt-stdin">>>>[1] = <<"--prompt-stdin">>
      OBVIOUS
    <3>2. QED BY <2>1, <3>1, Zenon
  <2>2. CASE ~has_prompt
    <3>1. << >> \in Seq(T) /\ Len(<< >>) = 0
      OBVIOUS
    <3>2. QED BY <2>2, <3>1, Zenon
  <2>3. QED BY <2>1, <2>2
<1>4. argv = base \o dir \o flag
  BY <1>1, <1>2, <1>3, Zenon DEF L!create_argv
<1> HIDE DEF T, argv
<1>5. /\ Len(argv) = Len(base) + Len(dir) + Len(flag)
      /\ Len(flag) = 1 => argv[Len(base) + Len(dir) + 1] = flag[1]
  BY <1>4, ThreeParts
<1>6. CASE has_prompt
  <2>1. Len(argv) \in {9, 11} /\ argv[Len(argv)] = <<"--prompt-stdin">>
    BY <1>1, <1>2, <1>3, <1>5, <1>6
  <2>2. QED BY <1>6, <2>1 DEF ReadsPrompt, argv
<1>7. CASE ~has_prompt
  <2>1. Len(argv) \notin {9, 11}
    BY <1>1, <1>2, <1>3, <1>5, <1>7
  <2>2. QED BY <1>7, <2>1 DEF ReadsPrompt, argv
<1>8. QED BY <1>6, <1>7

(* The parts of a launch: its display name, its prompt, what is run. *)
NameOf(x) == IF x.name = NoValue THEN x.shed \o <<"/">> \o x.slug ELSE x.name
PromptOf(x) == L!normalize_rc_prompt(x.raw, x.kind)
CallOf(x) == L!create_invocation(x.kind, NameOf(x), x.slug, x.workdir, PromptOf(x).prompt)

RefusedFor(x) ==
  \/ ~L!is_safe_rc_value(NameOf(x))
  \/ x.workdir # NoValue /\ ~L!is_safe_rc_value(x.workdir)
  \/ ~PromptOf(x).ok

(* What launch does with an input, case by case: refused, synthesised in   *)
(* test mode, failed, or a session of the guest's.                         *)
LEMMA LaunchCases ==
  ASSUME NEW x, NEW a, a = Launch(x), NEW out, out = L!run(x.child)
  PROVE  \/ a.call = {} /\ a.result = "BadRequest" /\ a.row = {} /\ RefusedFor(x)
         \/ /\ x.test_mode /\ a.call = {} /\ a.result = "ok"
            /\ \A row \in a.row : row.host = x.server /\ row.shed = x.shed /\ row.slug = x.slug
         \/ /\ ~x.test_mode /\ ~RefusedFor(x) /\ a.call = {CallOf(x)} /\ a.row = {}
            /\ \/ a.result = "Failed"
               \/ /\ out.code # 0 /\ out # NoValue
                  /\ a.result = L!error_from_exit(out.code, out.stderr)
         \/ /\ ~x.test_mode /\ ~RefusedFor(x) /\ a.call = {CallOf(x)} /\ a.result = "ok"
            /\ out # NoValue /\ out.code = 0 /\ out.dto # NoValue
            /\ \A row \in a.row :
                 row.host = x.server /\ row.shed = x.shed /\ row.slug = out.dto.slug
<1> DEFINE Without(c, result) == [call |-> c, result |-> result, row |-> {}]
           Synthetic == [host |-> x.server, shed |-> x.shed, slug |-> x.slug, state |-> "ready",
                         url |-> L!synthetic_url(x.kind), display_name |-> NameOf(x)]
<1>1. a = IF RefusedFor(x) THEN Without({}, "BadRequest")
          ELSE IF x.test_mode THEN [call |-> {}, result |-> "ok", row |-> {Synthetic}]
          ELSE IF out = NoValue THEN Without({CallOf(x)}, "Failed")
          ELSE IF out.code # 0 THEN Without({CallOf(x)}, L!error_from_exit(out.code, out.stderr))
          ELSE IF out.dto = NoValue THEN Without({CallOf(x)}, "Failed")
          ELSE [call |-> {CallOf(x)}, result |-> "ok",
                row |-> {L!from_dto(out.dto, x.server, x.shed)}]
  BY DEF Launch, L!launch, RefusedFor, CallOf, PromptOf, NameOf
<1>2. CASE RefusedFor(x)
  BY <1>1, <1>2
<1>3. CASE ~RefusedFor(x) /\ x.test_mode
  BY <1>1, <1>3
<1>4. CASE ~RefusedFor(x) /\ ~x.test_mode /\ (out = NoValue \/ out.code # 0 \/ out.dto = NoValue)
  BY <1>1, <1>4
<1>5. CASE ~RefusedFor(x) /\ ~x.test_mode /\ out # NoValue /\ out.code = 0 /\ out.dto # NoValue
  <2>1. a = [call |-> {CallOf(x)}, result |-> "ok",
             row |-> {L!from_dto(out.dto, x.server, x.shed)}]
    BY <1>1, <1>5
  <2>2. ASSUME NEW row \in a.row
        PROVE  row.host = x.server /\ row.shed = x.shed /\ row.slug = out.dto.slug
    <3>1. row = L!from_dto(out.dto, x.server, x.shed)
      BY <2>1
    <3>2. QED BY <3>1 DEF L!from_dto
  <2>3. a.call = {CallOf(x)} /\ a.result = "ok"
    BY <2>1
  <2>4. QED BY <1>5, <2>2, <2>3
<1>6. QED BY <1>2, <1>3, <1>4, <1>5

Blank(raw) == raw = NoValue \/ \A i \in DOMAIN raw : raw[i] \in L!Whitespace

(* A launch that is not refused runs with the prompt as typed and the flag *)
(* that makes the guest read it, or with neither.                          *)
LEMMA CallCarriesPrompt ==
  ASSUME NEW x \in LaunchInputs, ~RefusedFor(x)
  PROVE  /\ ReadsPrompt(CallOf(x).argv) <=> ~Blank(x.raw)
         /\ Blank(x.raw) => CallOf(x).stdin = {}
         /\ ~Blank(x.raw) => /\ CallOf(x).stdin # {}
                             /\ \A prompt \in CallOf(x).stdin : AsTyped(prompt, x.raw)
<1> DEFINE trimmed == IF x.raw = NoValue THEN << >> ELSE L!Trim(x.raw)
           typed == L!accepts_typed_input(x.kind)
           effective == IF typed THEN PromptOf(x).prompt ELSE {}
<1>1. Blank(x.raw) => trimmed = << >>
  BY TrimmedAsTyped, LaunchAssumption DEF Blank
<1>2. ~Blank(x.raw) => trimmed # << >> /\ AsTyped(trimmed, x.raw)
  BY TrimmedAsTyped, LaunchAssumption DEF Blank
<1>3. PromptOf(x) =
        CASE trimmed = << >> -> [ok |-> TRUE, prompt |-> {}]
          [] trimmed # << >> /\ ( \/ ~typed \/ ~L!is_safe_rc_value(trimmed)
                                  \/ L!Bytes(trimmed) > PromptCap )
               -> [ok |-> FALSE, prompt |-> {}]
          [] OTHER -> [ok |-> TRUE, prompt |-> {trimmed}]
  BY DEF PromptOf, L!normalize_rc_prompt
<1> HIDE DEF trimmed, typed
<1>4. PromptOf(x).ok
  BY DEF RefusedFor
<1>5. /\ CallOf(x).argv = L!create_argv(x.kind, NameOf(x), x.slug, x.workdir, effective # {})
      /\ CallOf(x).stdin = effective
  BY DEF CallOf, L!create_invocation, typed
<1>6. ReadsPrompt(CallOf(x).argv) <=> effective # {}
  <2>1. (effective # {}) \in BOOLEAN
    OBVIOUS
  <2>2. QED BY <1>5, <2>1, ArgvTells
<1>7. CASE trimmed = << >>
  <2>1. PromptOf(x) = [ok |-> TRUE, prompt |-> {}]
    BY <1>3, <1>7
  <2>2. effective = {}
    BY <2>1
  <2>3. Blank(x.raw)
    BY <1>2, <1>7
  <2>4. QED BY <1>5, <1>6, <2>2, <2>3
<1>8. CASE trimmed # << >>
  <2>1. typed /\ PromptOf(x) = [ok |-> TRUE, prompt |-> {trimmed}]
    BY <1>3, <1>4, <1>8
  <2>2. effective = {trimmed}
    BY <2>1
  <2>3. ~Blank(x.raw) /\ AsTyped(trimmed, x.raw)
    BY <1>1, <1>2, <1>8
  <2>4. QED BY <1>5, <1>6, <2>2, <2>3
<1>9. QED BY <1>7, <1>8

(* A prompt alone is refused only if it is not blank. *)
LEMMA BlankIsFine == ASSUME NEW x \in LaunchInputs, Blank(x.raw) PROVE PromptOf(x).ok
<1>1. (IF x.raw = NoValue THEN << >> ELSE L!Trim(x.raw)) = << >>
  BY TrimmedAsTyped, LaunchAssumption DEF Blank
<1>2. QED BY <1>1 DEF PromptOf, L!normalize_rc_prompt

(* Exit code 2, and no other end of the command, is the caller's fault;    *)
(* only a command that ended by itself has exit code 0.                    *)
LEMMA ExitCodes ==
  ASSUME NEW x \in LaunchInputs, NEW out, out = L!run(x.child), out # NoValue
  PROVE  /\ out.code = 0 => x.child.ends = "exits" /\ x.child.code = 0
         /\ out.dto = x.child.dto
         /\ L!error_from_exit(out.code, out.stderr) = "BadRequest" => x.child.code = 2
         /\ L!error_from_exit(out.code, out.stderr) # "ok"
<1>1. PICK child : child = x.child
  OBVIOUS
<1>2. PICK code, stderr : code = out.code /\ stderr = out.stderr
  OBVIOUS
<1>3. L!error_from_exit(code, stderr) # "ok"
  BY DEF L!error_from_exit
<1>4. L!error_from_exit(code, stderr) = "BadRequest" => code = 2
  BY DEF L!error_from_exit
<1>5. CASE child.ends = "overruns"
  <2>1. out = [code |-> 124, stderr |-> "timed-out", dto |-> child.dto]
    BY <1>1, <1>5 DEF L!run
  <2>2. out.code = 124 /\ out.dto = child.dto
    BY <2>1
  <2>3. QED BY <1>1, <1>2, <1>3, <1>4, <2>2
<1>6. CASE child.ends = "exits"
  <2>1. out = [code |-> IF child.code = NoValue THEN -1 ELSE child.code,
               stderr |-> child.stderr, dto |-> child.dto]
    BY <1>1, <1>6 DEF L!run
  <2>2. out.dto = child.dto /\ (code = -1 \/ code = child.code)
    BY <2>1, <1>2
  <2>3. QED BY <1>1, <1>2, <1>3, <1>4, <1>6, <2>2
<1>7. child.ends # "no-spawn"
  BY <1>1 DEF L!run
<1>8. QED BY <1>1, <1>5, <1>6, <1>7, LaunchAssumption

(* The contract with the guest, for every launch and every pane. *)
THEOREM GuestContractHolds == EvalSpec => []GuestContract
<1>1. EvalInv => LaunchAsAsked
  <2> SUFFICES ASSUME EvalInv, Evaluated("launch") PROVE LaunchAsAsked
    BY DEF LaunchAsAsked
  <2>1. PICK x \in LaunchInputs : input = x /\ answer = Launch(x)
    BY ValueIs
  <2>2. PICK a : a = answer
    OBVIOUS
  <2>3. PICK out : out = L!run(x.child)
    OBVIOUS
  <2>4. CASE a.call = {} /\ a.result = "BadRequest" /\ a.row = {} /\ RefusedFor(x)
    <3>1. \/ ~Blank(x.raw) \/ ~L!is_safe_rc_value(NameOf(x))
          \/ x.workdir # NoValue /\ ~L!is_safe_rc_value(x.workdir)
      BY <2>4, BlankIsFine DEF RefusedFor
    <3>2. QED BY <2>1, <2>2, <2>4, <3>1 DEF LaunchAsAsked, L!rc_err, Blank, NameOf
  <2>5. CASE /\ x.test_mode /\ a.call = {} /\ a.result = "ok"
             /\ \A row \in a.row : row.host = x.server /\ row.shed = x.shed /\ row.slug = x.slug
    BY <2>1, <2>2, <2>5 DEF LaunchAsAsked
  <2>6. CASE /\ ~x.test_mode /\ ~RefusedFor(x) /\ a.call = {CallOf(x)} /\ a.row = {}
             /\ \/ a.result = "Failed"
                \/ /\ out.code # 0 /\ out # NoValue
                   /\ a.result = L!error_from_exit(out.code, out.stderr)
    <3>1. a.result # "ok" /\ (a.result = "BadRequest" => x.child.code = 2)
      BY <2>3, <2>6, ExitCodes
    <3>2. QED BY <2>1, <2>2, <2>6, <3>1, CallCarriesPrompt DEF LaunchAsAsked, L!rc_err, Blank
  <2>7. CASE /\ ~x.test_mode /\ ~RefusedFor(x) /\ a.call = {CallOf(x)} /\ a.result = "ok"
             /\ out # NoValue /\ out.code = 0 /\ out.dto # NoValue
             /\ \A row \in a.row :
                  row.host = x.server /\ row.shed = x.shed /\ row.slug = out.dto.slug
    <3>1. x.child.ends = "exits" /\ x.child.code = 0 /\ out.dto = x.child.dto
      BY <2>3, <2>7, ExitCodes
    <3>2. QED BY <2>1, <2>2, <2>7, <3>1, CallCarriesPrompt
          DEF LaunchAsAsked, L!rc_err, Blank
  <2>8. QED BY <2>1, <2>2, <2>3, <2>4, <2>5, <2>6, <2>7, LaunchCases
<1>2. EvalInv => ReadyMeansUsable
  <2> SUFFICES ASSUME EvalInv, Evaluated("pane"), input.kind # "shell", answer.state = "ready"
               PROVE  /\ answer.url = IF input.kind = "claude-broker" THEN "broker-url" ELSE "session-url"
                      /\ answer.url \in input.pane /\ input.pane \cap {"trust", "auth"} = {}
                      /\ input.kind = "claude-broker" => "reconnecting" \notin input.pane
    BY DEF ReadyMeansUsable
  <2>1. answer = L!classify_pane(input.kind, input.pane)
    BY ValueIs
  <2>2. QED BY <2>1 DEF L!classify_pane, L!classify_by_url, L!extract_url
<1>3. QED BY <1>1, <1>2, EvalInvariance, PTL DEF GuestContract
-----------------------------------------------------------------------------
(* The configuration reader. *)

(* Lines of the text t, by their place. *)
EntryAt(t, i) == i \in DOMAIN t /\ t[i].kind = "entry"
OpenerAt(t, j) == EntryAt(t, j) /\ ~t[j].leaf

(* Every entry from line j + 1 to line i is deeper than d. *)
AllDeeper(t, j, i, d) == \A m \in j + 1..i : EntryAt(t, m) => t[m].indent > d

(* Line i stands in the block that line j opens; line 0 opens the file. *)
StandsIn(t, i, j) ==
  EntryAt(t, i) /\ (j = 0 \/ (OpenerAt(t, j) /\ j < i /\ AllDeeper(t, j, i, t[j].indent)))

(* The scalars of a map were read from lines of the block, the maps in it  *)
(* from the blocks that lines of it opened, two levels down.               *)
ScalarsOf(t, map, j) ==
  \A k \in DOMAIN map : ~is_map(map[k]) => StandsIn(t, map[k].line, j) /\ t[map[k].line].key = k
OpenedBy(t, k, l, j) == l \in DOMAIN t /\ StandsIn(t, l, j) /\ t[l].key = k
EntriesOf(t, map, j) ==
  /\ ScalarsOf(t, map, j)
  /\ \A k \in DOMAIN map : is_map(map[k]) =>
       \E l : OpenedBy(t, k, l, j) /\ ScalarsOf(t, map[k].map, l)
SectionsOf(t, map, j) ==
  /\ ScalarsOf(t, map, j)
  /\ \A k \in DOMAIN map : is_map(map[k]) =>
       \E l : OpenedBy(t, k, l, j) /\ EntriesOf(t, map[k].map, l)

(* A call of build under way when line a is next. *)
Frame(t, a, b) ==
  /\ DOMAIN b = {"opener", "parent", "child", "map"}
  /\ b.opener \in Nat /\ b.opener < a /\ b.parent \in Int
  /\ b.opener = 0 => b.parent = -1
  /\ b.opener # 0 => OpenerAt(t, b.opener) /\ b.parent = t[b.opener].indent
  /\ AllDeeper(t, b.opener, a - 1, b.parent)
  /\ SectionsOf(t, b.map, b.opener)

(* The calls under way: each was made in the block of the one before it. *)
Stacked(t, a, bs) ==
  /\ bs \in Seq({bs[d] : d \in DOMAIN bs})
  /\ \A d \in DOMAIN bs : Frame(t, a, bs[d])
  /\ \A d \in DOMAIN bs : d = 1 => bs[d].opener = 0
  /\ \A d \in DOMAIN bs : d > 1 =>
       bs[d].opener \in DOMAIN t /\ StandsIn(t, bs[d].opener, bs[d - 1].opener)
  /\ \A d, e \in DOMAIN bs : d < e => bs[d].parent < bs[e].parent

ReaderInv ==
  /\ text \in Texts /\ at \in Nat /\ at > 0
  /\ Stacked(text, at, blocks)
  /\ FieldsStayInTheirServer

(* A line is read, or passed over: it is deeper than every open block. *)
LEMMA LineIsDeeper ==
  ASSUME NEW t \in Seq(TextLine), NEW a \in Nat, NEW bs, Stacked(t, a, bs), a > 0,
         bs # << >>, EntryAt(t, a) => t[a].indent > bs[Len(bs)].parent
  PROVE  Stacked(t, a + 1, bs)
<1> DEFINE S == {bs[d] : d \in DOMAIN bs}
<1>1. bs \in Seq(S)
  BY DEF Stacked
<1> HIDE DEF S
<1>2. Len(bs) \in DOMAIN bs /\ \A d \in DOMAIN bs : d \in Nat /\ d <= Len(bs)
  BY <1>1
<1>3. ASSUME NEW d \in DOMAIN bs PROVE Frame(t, a + 1, bs[d])
  <2>1. Frame(t, a, bs[d]) /\ Frame(t, a, bs[Len(bs)])
    BY <1>2 DEF Stacked
  <2>2. bs[d].parent <= bs[Len(bs)].parent
    <3>1. CASE d = Len(bs)
      BY <3>1, <2>1 DEF Frame
    <3>2. CASE d < Len(bs)
      <4>1. bs[d].parent < bs[Len(bs)].parent
        BY <3>2, <1>2 DEF Stacked
      <4>2. QED BY <4>1, <2>1 DEF Frame
    <3>3. QED BY <3>1, <3>2, <1>2
  <2>3. PICK p \in Int : p = bs[d].parent
    BY <2>1 DEF Frame
  <2>4. PICK j \in Nat : j = bs[d].opener /\ j < a
    BY <2>1 DEF Frame
  <2>5. PICK q \in Int : q = bs[Len(bs)].parent
    BY <2>1 DEF Frame
  <2>6. AllDeeper(t, j, a - 1, p)
    BY <2>1, <2>3, <2>4 DEF Frame
  <2>7. AllDeeper(t, j, (a + 1) - 1, p)
    <3>1. SUFFICES ASSUME NEW m \in j + 1..(a + 1) - 1, EntryAt(t, m)
                   PROVE  t[m].indent > p
      BY DEF AllDeeper
    <3>2. m \in DOMAIN t /\ t[m] \in TextLine
      BY <3>1 DEF EntryAt
    <3>3. t[m].indent \in Nat
      BY <3>2 DEF TextLine
    <3>4. CASE m = a
      BY <3>4, <3>1, <3>3, <2>2, <2>3, <2>5
    <3>5. CASE m # a
      <4>1. m \in j + 1..a - 1
        BY <3>1, <3>5, <2>4
      <4>2. QED BY <4>1, <3>1, <2>6 DEF AllDeeper
    <3>6. QED BY <3>4, <3>5
  <2>8. QED BY <2>1, <2>3, <2>4, <2>7 DEF Frame
<1>4. QED
  BY <1>3 DEF Stacked

(* The innermost call goes on with more in its map. *)
LEMMA TopReplaced ==
  ASSUME NEW t, NEW a, NEW bs, Stacked(t, a, bs), bs # << >>, NEW b, Frame(t, a, b),
         b.opener = bs[Len(bs)].opener, b.parent = bs[Len(bs)].parent
  PROVE  Stacked(t, a, [bs EXCEPT ![Len(bs)] = b])
<1> DEFINE S == {bs[d] : d \in DOMAIN bs}
           cs == [bs EXCEPT ![Len(bs)] = b]
<1>1. bs \in Seq(S)
  BY DEF Stacked
<1> HIDE DEF S
<1>2. Len(bs) \in DOMAIN bs /\ DOMAIN bs = 1..Len(bs) /\ Len(bs) \in Nat
  BY <1>1
<1>3. DOMAIN cs = DOMAIN bs /\ Len(cs) = Len(bs) /\ cs \in Seq(S \cup {b})
  BY <1>1, <1>2
<1>4. \A d \in DOMAIN bs : cs[d] = IF d = Len(bs) THEN b ELSE bs[d]
  OBVIOUS
<1> HIDE DEF cs
<1>5. cs \in Seq({cs[d] : d \in DOMAIN cs})
  BY <1>3
<1>6. \A d \in DOMAIN cs : Frame(t, a, cs[d])
  BY <1>3, <1>4 DEF Stacked
<1>7. \A d \in DOMAIN cs : cs[d].opener = bs[d].opener /\ cs[d].parent = bs[d].parent
  BY <1>3, <1>4
<1>8. \A d \in DOMAIN cs : d > 1 => d - 1 \in DOMAIN cs
  BY <1>2, <1>3
<1>9. \A d \in DOMAIN cs : d > 1 =>
        cs[d].opener \in DOMAIN t /\ StandsIn(t, cs[d].opener, cs[d - 1].opener)
  BY <1>3, <1>7, <1>8 DEF Stacked
<1>10. \A d, e \in DOMAIN cs : d < e => cs[d].parent < cs[e].parent
  BY <1>3, <1>7 DEF Stacked
<1>11. \A d \in DOMAIN cs : d = 1 => cs[d].opener = 0
  BY <1>3, <1>7 DEF Stacked
<1>12. QED
  BY <1>5, <1>6, <1>9, <1>10, <1>11 DEF Stacked, cs

(* build calls itself for the block a line of the innermost block opens. *)
LEMMA CallMade ==
  ASSUME NEW t, NEW a, NEW bs, Stacked(t, a, bs), bs # << >>, NEW b, Frame(t, a, b),
         b.opener \in DOMAIN t, StandsIn(t, b.opener, bs[Len(bs)].opener),
         bs[Len(bs)].parent < b.parent
  PROVE  Stacked(t, a, Append(bs, b))
<1> DEFINE S == {bs[d] : d \in DOMAIN bs}
           cs == Append(bs, b)
<1>1. bs \in Seq(S)
  BY DEF Stacked
<1> HIDE DEF S
<1>2. Len(bs) \in DOMAIN bs /\ DOMAIN bs = 1..Len(bs) /\ Len(bs) \in Nat
  BY <1>1
<1>3. /\ DOMAIN cs = 1..Len(bs) + 1 /\ cs \in Seq(S \cup {b})
      /\ \A d \in DOMAIN bs : cs[d] = bs[d]
      /\ cs[Len(bs) + 1] = b
  BY <1>1, <1>2
<1> HIDE DEF cs
<1>4. \A d \in DOMAIN cs : d \in DOMAIN bs \/ d = Len(bs) + 1
  BY <1>2, <1>3
<1>5. cs \in Seq({cs[d] : d \in DOMAIN cs})
  BY <1>3
<1>6. \A d \in DOMAIN cs : Frame(t, a, cs[d])
  BY <1>3, <1>4 DEF Stacked
<1>7. \A d \in DOMAIN cs : d = 1 => cs[d].opener = 0
  <2>1. 1 \in DOMAIN bs
    BY <1>2
  <2>2. QED BY <2>1, <1>3 DEF Stacked
<1>8. ASSUME NEW d \in DOMAIN cs, d > 1
      PROVE  cs[d].opener \in DOMAIN t /\ StandsIn(t, cs[d].opener, cs[d - 1].opener)
  <2>1. CASE d \in DOMAIN bs
    <3>1. d - 1 \in DOMAIN bs
      BY <2>1, <1>2, <1>8
    <3>2. QED BY <2>1, <3>1, <1>3, <1>8 DEF Stacked
  <2>2. CASE d = Len(bs) + 1
    <3>1. d - 1 = Len(bs)
      BY <2>2, <1>2
    <3>2. QED BY <2>2, <3>1, <1>2, <1>3
  <2>3. QED BY <2>1, <2>2, <1>4
<1>9. ASSUME NEW d \in DOMAIN cs, NEW e \in DOMAIN cs, d < e
      PROVE  cs[d].parent < cs[e].parent
  <2>1. d \in DOMAIN bs
    BY <1>2, <1>3, <1>9
  <2>2. CASE e \in DOMAIN bs
    BY <2>1, <2>2, <1>3, <1>9 DEF Stacked
  <2>3. CASE e = Len(bs) + 1
    <3>1. bs[d].parent \in Int /\ bs[Len(bs)].parent \in Int /\ b.parent \in Int
      BY <2>1, <1>2 DEF Stacked, Frame
    <3>2. d = Len(bs) \/ bs[d].parent < bs[Len(bs)].parent
      <4>1. d = Len(bs) \/ d < Len(bs)
        BY <2>1, <1>2
      <4>2. QED BY <4>1, <2>1, <1>2 DEF Stacked
    <3>3. bs[d].parent < b.parent
      BY <3>1, <3>2
    <3>4. QED BY <3>3, <2>1, <2>3, <1>3
  <2>4. QED BY <2>2, <2>3, <1>4
<1>10. QED
  BY <1>5, <1>6, <1>7, <1>8, <1>9 DEF Stacked, cs

(* A call returns to the one before it. *)
LEMMA CallReturns ==
  ASSUME NEW t, NEW a, NEW bs, Stacked(t, a, bs), Len(bs) > 1
  PROVE  Stacked(t, a, SubSeq(bs, 1, Len(bs) - 1))
<1> DEFINE S == {bs[d] : d \in DOMAIN bs}
           cs == SubSeq(bs, 1, Len(bs) - 1)
<1>1. bs \in Seq(S)
  BY DEF Stacked
<1> HIDE DEF S
<1>2. DOMAIN bs = 1..Len(bs) /\ Len(bs) \in Nat
  BY <1>1
<1>3. /\ DOMAIN cs = 1..Len(bs) - 1 /\ cs \in Seq(S)
      /\ \A d \in DOMAIN cs : cs[d] = bs[d]
  BY <1>1, <1>2
<1> HIDE DEF cs
<1>4. \A d \in DOMAIN cs : d \in DOMAIN bs /\ (d > 1 => d - 1 \in DOMAIN cs)
  BY <1>2, <1>3
<1>5. cs \in Seq({cs[d] : d \in DOMAIN cs})
  BY <1>3
<1>6. \A d \in DOMAIN cs : Frame(t, a, cs[d]) /\ (d = 1 => cs[d].opener = 0)
  BY <1>3, <1>4 DEF Stacked
<1>7. \A d \in DOMAIN cs : d > 1 =>
        cs[d].opener \in DOMAIN t /\ StandsIn(t, cs[d].opener, cs[d - 1].opener)
  BY <1>3, <1>4 DEF Stacked
<1>8. \A d, e \in DOMAIN cs : d < e => cs[d].parent < cs[e].parent
  BY <1>3, <1>4 DEF Stacked
<1>9. QED
  BY <1>5, <1>6, <1>7, <1>8 DEF Stacked, cs

(* A scalar read from a line of the block is a field of it. *)
LEMMA ScalarPut ==
  ASSUME NEW t, NEW map, NEW j, NEW i, SectionsOf(t, map, j), StandsIn(t, i, j)
  PROVE  SectionsOf(t, Put(map, t[i].key, Scalar(i)), j)
<1> DEFINE new == Put(map, t[i].key, Scalar(i))
<1>1. DOMAIN new = DOMAIN map \cup {t[i].key}
  BY DEF Put
<1>2. new[t[i].key] = Scalar(i)
  BY DEF Put
<1>3. \A k \in DOMAIN new : k # t[i].key => k \in DOMAIN map /\ new[k] = map[k]
  BY DEF Put
<1> HIDE DEF new
<1>4. ~is_map(Scalar(i)) /\ Scalar(i).line = i
  BY DEF is_map, Scalar
<1>5. ScalarsOf(t, new, j)
  BY <1>1, <1>2, <1>3, <1>4 DEF ScalarsOf, SectionsOf
<1>6. ASSUME NEW k \in DOMAIN new, is_map(new[k])
      PROVE  \E l : OpenedBy(t, k, l, j) /\ EntriesOf(t, new[k].map, l)
  BY <1>6, <1>2, <1>3, <1>4 DEF SectionsOf
<1>7. QED
  BY <1>5, <1>6 DEF SectionsOf, new

(* So is the map of a block that a line of it opened. *)
LEMMA MapPut ==
  ASSUME NEW t, NEW map, NEW j, NEW i, SectionsOf(t, map, j), i \in DOMAIN t, StandsIn(t, i, j),
         NEW inner, SectionsOf(t, inner, i)
  PROVE  SectionsOf(t, Put(map, t[i].key, Map(inner)), j)
<1> DEFINE new == Put(map, t[i].key, Map(inner))
<1>1. DOMAIN new = DOMAIN map \cup {t[i].key}
  BY DEF Put
<1>2. new[t[i].key] = Map(inner)
  BY DEF Put
<1>3. \A k \in DOMAIN new : k # t[i].key => k \in DOMAIN map /\ new[k] = map[k]
  BY DEF Put
<1> HIDE DEF new
<1>4. is_map(Map(inner)) /\ Map(inner).map = inner
  BY DEF is_map, Map
<1>5. ScalarsOf(t, new, j)
  BY <1>1, <1>2, <1>3, <1>4 DEF ScalarsOf, SectionsOf
<1>6. EntriesOf(t, inner, i)
  BY DEF SectionsOf, EntriesOf
<1>7. ASSUME NEW k \in DOMAIN new, is_map(new[k])
      PROVE  \E l : OpenedBy(t, k, l, j) /\ EntriesOf(t, new[k].map, l)
  <2>1. CASE k = t[i].key
    <3>1. OpenedBy(t, k, i, j)
      BY <2>1 DEF OpenedBy
    <3>2. new[k].map = inner
      BY <2>1, <1>2, <1>4
    <3>3. QED BY <3>1, <3>2, <1>6
  <2>2. CASE k # t[i].key
    <3>1. k \in DOMAIN map /\ new[k] = map[k]
      BY <2>2, <1>3
    <3>2. QED BY <3>1, <1>7 DEF SectionsOf
  <2>3. QED BY <2>1, <2>2
<1>8. QED
  BY <1>5, <1>7 DEF SectionsOf, new

(* A line deeper than the block it is read in stands in that block. *)
LEMMA LineStandsIn ==
  ASSUME NEW t \in Seq(TextLine), NEW a \in Nat, NEW b, Frame(t, a, b), EntryAt(t, a),
         t[a].indent > b.parent
  PROVE  StandsIn(t, a, b.opener)
<1>1. CASE b.opener = 0
  BY <1>1 DEF StandsIn
<1>2. CASE b.opener # 0
  <2>1. PICK j \in Nat : j = b.opener /\ j < a
    BY DEF Frame
  <2>2. OpenerAt(t, j) /\ b.parent = t[j].indent /\ AllDeeper(t, j, a - 1, t[j].indent)
    BY <2>1, <1>2 DEF Frame
  <2>3. AllDeeper(t, j, a, t[j].indent)
    <3>1. SUFFICES ASSUME NEW m \in j + 1..a, EntryAt(t, m)
                   PROVE  t[m].indent > t[j].indent
      BY DEF AllDeeper
    <3>2. CASE m = a
      BY <3>2, <2>2
    <3>3. CASE m # a
      <4>1. m \in j + 1..a - 1
        BY <3>1, <3>3, <2>1
      <4>2. QED BY <4>1, <3>1, <2>2 DEF AllDeeper
    <3>4. QED BY <3>2, <3>3
  <2>4. QED BY <2>1, <2>2, <2>3 DEF StandsIn
<1>3. QED BY <1>1, <1>2

(* The lines by their place are the lines of the state. *)
LEMMA PlacesOfText ==
  /\ \A i : Entry(i) <=> EntryAt(text, i)
  /\ \A i, j : j # 0 /\ StandsIn(text, i, j) => Within(i, j)
<1>1. \A i : Entry(i) <=> EntryAt(text, i)
  BY DEF Entry, EntryAt
<1>2. ASSUME NEW i, NEW j, j # 0, StandsIn(text, i, j) PROVE Within(i, j)
  <2>1. EntryAt(text, i) /\ OpenerAt(text, j) /\ j < i /\ AllDeeper(text, j, i, text[j].indent)
    BY <1>2 DEF StandsIn
  <2>2. EntryAt(text, j) /\ ~text[j].leaf
    BY <2>1 DEF OpenerAt
  <2>3. \A m \in j + 1..i : Entry(m) => text[m].indent > text[j].indent
    BY <2>1, <1>1 DEF AllDeeper
  <2>4. QED BY <2>1, <2>2, <2>3, <1>1 DEF Within
<1>3. QED BY <1>1, <1>2

(* What parse makes of the outermost map. *)
LEMMA ParsedFields ==
  ASSUME text \in Seq(TextLine), NEW top, SectionsOf(text, top, 0),
         NEW s \in ServersOf(ShedConfig(top)),
         NEW f \in {"host", "control_token", "api_url", "tls_cert_fingerprint"},
         s[f] # Absent
  PROVE  OfServer(s[f], f, s.name)
<1> DEFINE block == IF "servers" \in DOMAIN top /\ is_map(top["servers"])
                    THEN top["servers"].map ELSE << >>
           placed == {j \in DOMAIN NameOrder : NameOrder[j] \in DOMAIN block
                                               /\ is_map(block[NameOrder[j]])}
<1>1. ShedConfig(top).servers = [i \in placed |-> Server(NameOrder[i], block[NameOrder[i]].map)]
  BY DEF ShedConfig
<1> HIDE DEF block
<1>2. PICK i \in placed : s = Server(NameOrder[i], block[NameOrder[i]].map)
  BY <1>1 DEF ServersOf
<1>3. PICK n : n = NameOrder[i]
  OBVIOUS
<1>4. n \in DOMAIN block /\ is_map(block[n]) /\ s = Server(n, block[n].map)
  BY <1>2, <1>3
<1> HIDE DEF placed
<1>5. "servers" \in DOMAIN top /\ is_map(top["servers"]) /\ block = top["servers"].map
  <2>1. DOMAIN << >> = {}
    OBVIOUS
  <2>2. QED BY <1>4, <2>1 DEF block
<1>6. PICK l : OpenedBy(text, "servers", l, 0) /\ EntriesOf(text, block, l)
  BY <1>5 DEF SectionsOf
<1>7. PICK k : OpenedBy(text, n, k, l) /\ ScalarsOf(text, block[n].map, k)
  BY <1>6, <1>4 DEF EntriesOf
<1>8. PICK fields : fields = block[n].map
  OBVIOUS
<1>9. s.name = n /\ s[f] = scalar(fields, f, Absent)
  BY <1>4, <1>8 DEF Server
<1>10. f \in DOMAIN fields /\ ~is_map(fields[f]) /\ s[f] = fields[f].line
  BY <1>9 DEF scalar
<1>11. StandsIn(text, s[f], k) /\ text[s[f]].key = f
  BY <1>7, <1>8, <1>10 DEF ScalarsOf
<1>12. /\ l \in DOMAIN text /\ k \in DOMAIN text /\ StandsIn(text, k, l)
       /\ text[l].key = "servers" /\ text[k].key = n
  BY <1>6, <1>7 DEF OpenedBy
<1>13. l # 0 /\ k # 0
  BY <1>12
<1>14. Within(s[f], k) /\ Within(k, l)
  BY <1>11, <1>12, <1>13, PlacesOfText
<1>15. Entry(s[f])
  BY <1>14 DEF Within
<1>16. QED
  BY <1>9, <1>11, <1>12, <1>14, <1>15 DEF OfServer

(* Reading the same lines, the property says the same of the same servers. *)
LEMMA SameText ==
  ASSUME text' = text
  PROVE  /\ \A i, f, n : OfServer(i, f, n)' <=> OfServer(i, f, n)
         /\ parsed' = parsed => (FieldsStayInTheirServer' <=> FieldsStayInTheirServer)
<1>1. \A i, f, n : OfServer(i, f, n)' <=> OfServer(i, f, n)
  BY DEF OfServer, Within, Entry
<1>2. ASSUME parsed' = parsed PROVE FieldsStayInTheirServer' <=> FieldsStayInTheirServer
  BY <1>2, <1>1 DEF FieldsStayInTheirServer, ServersOf
<1>3. QED BY <1>1, <1>2

(* The file is open before the first line of it. *)
LEMMA ReaderInitInv == ReaderInit => ReaderInv
<1> SUFFICES ASSUME ReaderInit PROVE ReaderInv
  OBVIOUS
<1>1. Frame(text, at, Block(0, -1))
  <2>1. SectionsOf(text, << >>, 0)
    BY DEF SectionsOf, ScalarsOf
  <2>2. AllDeeper(text, 0, 0, -1)
    BY DEF AllDeeper
  <2>3. QED BY <2>1, <2>2 DEF Frame, Block, ReaderInit
<1>2. PICK b : b = Block(0, -1)
  OBVIOUS
<1>3. b.opener = 0
  BY <1>2 DEF Block
<1>4. blocks = <<b>> /\ at = 1
  BY <1>2 DEF ReaderInit
<1>5. DOMAIN blocks = {1} /\ blocks[1] = b /\ blocks \in Seq({b})
  BY <1>4
<1>6. blocks \in Seq({blocks[d] : d \in DOMAIN blocks})
  <2>1. {blocks[d] : d \in DOMAIN blocks} = {b}
    BY <1>5
  <2>2. QED BY <2>1, <1>5
<1>7. Stacked(text, at, blocks)
  BY <1>1, <1>2, <1>3, <1>5, <1>6 DEF Stacked
<1>8. QED
  BY <1>4, <1>7 DEF ReaderInv, ReaderInit, FieldsStayInTheirServer

(* Every step keeps the calls nested and their maps in their blocks. *)
LEMMA ReaderStepInv == ReaderInv /\ [ReaderNext]_readerVars => ReaderInv'
<1> SUFFICES ASSUME ReaderInv, [ReaderNext]_readerVars PROVE ReaderInv'
  OBVIOUS
<1>1. text \in Seq(TextLine) /\ at \in Nat /\ at > 0 /\ Stacked(text, at, blocks)
  BY TextAssumption DEF ReaderInv
<1>2. PICK S : blocks \in Seq(S)
  BY <1>1 DEF Stacked
<1>3. ASSUME NEW b, blocks # << >>, b = Top
      PROVE  Frame(text, at, b) /\ Len(blocks) \in DOMAIN blocks /\ b = blocks[Len(blocks)]
  <2>1. Len(blocks) \in DOMAIN blocks
    BY <1>2, <1>3
  <2>2. QED BY <2>1, <1>1, <1>3 DEF Stacked, Top
<1>4. ASSUME NEW b, blocks # << >>, b = Top, Entry(at), ~BlockEnds
      PROVE  /\ EntryAt(text, at) /\ text[at].indent \in Nat /\ text[at].indent > b.parent
             /\ StandsIn(text, at, b.opener)
             /\ Stacked(text, at + 1, blocks)
  <2>1. EntryAt(text, at)
    BY <1>4, PlacesOfText
  <2>2. text[at] \in TextLine
    BY <2>1, <1>1 DEF EntryAt
  <2>3. text[at].indent \in Nat
    BY <2>2 DEF TextLine
  <2>4. b.parent \in Int /\ b = blocks[Len(blocks)] /\ Frame(text, at, b)
    BY <1>3, <1>4 DEF Frame
  <2>5. ~(text[at].indent <= b.parent)
    BY <1>4 DEF BlockEnds
  <2>6. text[at].indent > b.parent
    BY <2>3, <2>4, <2>5
  <2>7. StandsIn(text, at, b.opener)
    BY <2>1, <2>4, <2>6, <1>1, LineStandsIn
  <2>8. Stacked(text, at + 1, blocks)
    BY <2>4, <2>6, <1>1, <1>4, LineIsDeeper
  <2>9. QED BY <2>1, <2>3, <2>6, <2>7, <2>8
<1>5. ASSUME text' = text, parsed' = parsed, at' \in {at, at + 1}, Stacked(text, at', blocks')
      PROVE  ReaderInv'
  <2>1. FieldsStayInTheirServer'
    BY <1>5, SameText DEF ReaderInv
  <2>2. text' \in Texts /\ at' \in Nat /\ at' > 0
    BY <1>5, <1>1 DEF ReaderInv
  <2>3. QED BY <2>1, <2>2, <1>5 DEF ReaderInv
<1>6. CASE Passes
  <2>1. blocks # << >> /\ ~EntryAt(text, at)
    BY <1>6, PlacesOfText DEF Passes
  <2>2. Stacked(text, at + 1, blocks)
    BY <2>1, <1>1, LineIsDeeper
  <2>3. QED BY <2>2, <1>5, <1>6 DEF Passes
<1>7. CASE Skips
  <2>1. Stacked(text, at + 1, blocks)
    BY <1>4, <1>7 DEF Skips
  <2>2. QED BY <2>1, <1>5, <1>7 DEF Skips
<1>8. CASE ReadsScalar
  <2>1. PICK b : b = Top
    OBVIOUS
  <2>2. blocks # << >> /\ Entry(at) /\ ~BlockEnds
    BY <1>8 DEF ReadsScalar
  <2>3. StandsIn(text, at, b.opener) /\ Stacked(text, at + 1, blocks) /\ b = blocks[Len(blocks)]
    BY <2>1, <2>2, <1>3, <1>4
  <2>4. Frame(text, at + 1, b)
    BY <2>1, <2>2, <2>3, <1>3 DEF Stacked
  <2>5. PICK new : new = Put(b.map, text[at].key, Scalar(at))
    OBVIOUS
  <2>6. SectionsOf(text, new, b.opener)
    <3>1. SectionsOf(text, b.map, b.opener)
      BY <2>4 DEF Frame
    <3>2. QED BY <3>1, <2>3, <2>5, ScalarPut
  <2>7. PICK c : c = [b EXCEPT !.child = {text[at].indent}, !.map = new]
    OBVIOUS
  <2>8. DOMAIN b = {"opener", "parent", "child", "map"}
    BY <2>4 DEF Frame
  <2>9. DOMAIN c = DOMAIN b /\ c.opener = b.opener /\ c.parent = b.parent /\ c.map = new
    BY <2>7, <2>8
  <2>10. Frame(text, at + 1, c)
    BY <2>4, <2>6, <2>9 DEF Frame
  <2>11. Stacked(text, at + 1, [blocks EXCEPT ![Len(blocks)] = c])
    BY <2>2, <2>3, <2>9, <2>10, TopReplaced
  <2>12. blocks' = [blocks EXCEPT ![Len(blocks)] = c]
    BY <1>8, <2>1, <2>5, <2>7 DEF ReadsScalar, WithTop
  <2>13. QED BY <2>11, <2>12, <1>5, <1>8 DEF ReadsScalar
<1>9. CASE OpensBlock
  <2>1. PICK b : b = Top
    OBVIOUS
  <2>2. blocks # << >> /\ Entry(at) /\ ~BlockEnds /\ ~text[at].leaf
    BY <1>9 DEF OpensBlock
  <2>3. /\ StandsIn(text, at, b.opener) /\ Stacked(text, at + 1, blocks) /\ b = blocks[Len(blocks)]
        /\ EntryAt(text, at) /\ text[at].indent \in Nat /\ text[at].indent > b.parent
    BY <2>1, <2>2, <1>3, <1>4
  <2>4. Frame(text, at + 1, b)
    BY <2>1, <2>2, <2>3, <1>3 DEF Stacked
  <2>5. PICK c : c = [b EXCEPT !.child = {text[at].indent}]
    OBVIOUS
  <2>6. DOMAIN b = {"opener", "parent", "child", "map"}
    BY <2>4 DEF Frame
  <2>7. DOMAIN c = DOMAIN b /\ c.opener = b.opener /\ c.parent = b.parent /\ c.map = b.map
    BY <2>5, <2>6
  <2>8. Frame(text, at + 1, c)
    BY <2>4, <2>7 DEF Frame
  <2>9. PICK bs : bs = [blocks EXCEPT ![Len(blocks)] = c]
    OBVIOUS
  <2>10. Stacked(text, at + 1, bs)
    BY <2>2, <2>3, <2>7, <2>8, <2>9, TopReplaced
  <2>11. bs # << >> /\ bs[Len(bs)] = c
    <3>1. Len(blocks) \in DOMAIN blocks /\ DOMAIN blocks = 1..Len(blocks) /\ Len(blocks) \in Nat
      BY <1>2, <2>2
    <3>2. DOMAIN bs = DOMAIN blocks /\ bs[Len(blocks)] = c
      BY <2>9, <3>1
    <3>3. bs \in Seq(S \cup {c})
      BY <1>2, <2>9, <3>1
    <3>4. Len(bs) = Len(blocks)
      BY <3>1, <3>2, <3>3
    <3>5. QED BY <3>1, <3>2, <3>4
  <2>12. PICK d : d = Block(at, text[at].indent)
    OBVIOUS
  <2>13. /\ DOMAIN d = {"opener", "parent", "child", "map"} /\ d.opener = at
         /\ d.parent = text[at].indent /\ d.map = << >>
    BY <2>12 DEF Block
  <2>14. Frame(text, at + 1, d)
    <3>1. SectionsOf(text, << >>, at)
      BY DEF SectionsOf, ScalarsOf
    <3>2. AllDeeper(text, at, (at + 1) - 1, text[at].indent)
      BY <1>1 DEF AllDeeper
    <3>3. OpenerAt(text, at)
      BY <2>2, <2>3 DEF OpenerAt
    <3>4. at # 0 /\ at < at + 1 /\ text[at].indent \in Int
      BY <1>1, <2>3
    <3>5. QED BY <3>1, <3>2, <3>3, <3>4, <1>1, <2>13 DEF Frame
  <2>15. Stacked(text, at + 1, Append(bs, d))
    <3>1. d.opener \in DOMAIN text
      BY <2>3, <2>13 DEF EntryAt
    <3>2. StandsIn(text, d.opener, bs[Len(bs)].opener)
      BY <2>3, <2>7, <2>11, <2>13
    <3>3. bs[Len(bs)].parent < d.parent
      <4>1. b.parent \in Int
        BY <2>4 DEF Frame
      <4>2. b.parent < text[at].indent
        BY <2>3, <4>1
      <4>3. QED BY <4>2, <2>7, <2>11, <2>13
    <3>4. QED BY <3>1, <3>2, <3>3, <2>10, <2>11, <2>14, CallMade
  <2>16. blocks' = Append(bs, d)
    BY <1>9, <2>1, <2>5, <2>9, <2>12 DEF OpensBlock, WithTop
  <2>17. QED BY <2>15, <2>16, <1>5, <1>9 DEF OpensBlock
<1>10. CASE ClosesBlock
  <2>1. Len(blocks) > 1
    BY <1>10 DEF ClosesBlock
  <2>2. PICK n \in Nat : n = Len(blocks) /\ n > 1 /\ DOMAIN blocks = 1..n
    BY <1>2, <2>1
  <2>3. n \in DOMAIN blocks /\ n - 1 \in DOMAIN blocks
    BY <2>2
  <2>4. PICK b, c : b = blocks[n] /\ c = blocks[n - 1]
    OBVIOUS
  <2>5. Frame(text, at, b) /\ Frame(text, at, c)
    BY <2>3, <2>4, <1>1 DEF Stacked
  <2>6. b.opener \in DOMAIN text /\ StandsIn(text, b.opener, c.opener)
    BY <2>2, <2>3, <2>4, <1>1 DEF Stacked
  <2>7. PICK new : new = Put(c.map, text[b.opener].key, Map(b.map))
    OBVIOUS
  <2>8. SectionsOf(text, new, c.opener)
    <3>1. SectionsOf(text, b.map, b.opener) /\ SectionsOf(text, c.map, c.opener)
      BY <2>5 DEF Frame
    <3>2. QED BY <3>1, <2>6, <2>7, MapPut
  <2>9. PICK e : e = [c EXCEPT !.map = new]
    OBVIOUS
  <2>10. DOMAIN c = {"opener", "parent", "child", "map"}
    BY <2>5 DEF Frame
  <2>11. DOMAIN e = DOMAIN c /\ e.opener = c.opener /\ e.parent = c.parent /\ e.map = new
    BY <2>9, <2>10
  <2>12. Frame(text, at, e)
    BY <2>5, <2>8, <2>11 DEF Frame
  <2>13. PICK bs : bs = SubSeq(blocks, 1, n - 1)
    OBVIOUS
  <2>14. Stacked(text, at, bs)
    BY <2>2, <2>13, <1>1, CallReturns
  <2>15. /\ bs \in Seq(S) /\ Len(bs) = n - 1 /\ bs # << >> /\ bs[n - 1] = c
         /\ \A d \in 1..n - 1 : bs[d] = blocks[d]
    <3>1. bs \in Seq(S) /\ Len(bs) = n - 1 /\ \A d \in 1..n - 1 : bs[d] = blocks[d]
      BY <1>2, <2>2, <2>13
    <3>2. n - 1 \in 1..n - 1 /\ n - 1 # 0
      BY <2>2
    <3>3. bs # << >>
      BY <3>1, <3>2
    <3>4. QED BY <3>1, <3>2, <3>3, <2>4
  <2>16. Stacked(text, at, [bs EXCEPT ![n - 1] = e])
    BY <2>11, <2>12, <2>14, <2>15, TopReplaced
  <2>17. Append(SubSeq(blocks, 1, n - 2), e) = [bs EXCEPT ![n - 1] = e]
    <3>1. DOMAIN bs = 1..n - 1
      BY <2>2, <2>15
    <3>2. PICK cs : cs = SubSeq(blocks, 1, n - 2)
      OBVIOUS
    <3>3. cs \in Seq(S) /\ Len(cs) = n - 2 /\ \A d \in 1..n - 2 : cs[d] = blocks[d]
      BY <1>2, <2>2, <3>2
    <3>4. PICK ds : ds = Append(cs, e)
      OBVIOUS
    <3>5. /\ ds \in Seq(S \cup {e}) /\ Len(ds) = n - 1 /\ ds[n - 1] = e
          /\ \A d \in 1..n - 2 : ds[d] = blocks[d]
      BY <3>3, <3>4, <2>2
    <3>6. PICK es : es = [bs EXCEPT ![n - 1] = e]
      OBVIOUS
    <3>7. /\ es \in Seq(S \cup {e}) /\ Len(es) = n - 1 /\ es[n - 1] = e
          /\ \A d \in 1..n - 2 : es[d] = blocks[d]
      BY <3>1, <3>6, <2>2, <2>15
    <3>8. \A d \in 1..n - 1 : ds[d] = es[d]
      BY <3>5, <3>7, <2>2
    <3>9. ds = es
      BY <3>5, <3>7, <3>8
    <3>10. QED BY <3>2, <3>4, <3>6, <3>9
  <2>18. blocks' = Append(SubSeq(blocks, 1, n - 2), e)
    BY <1>10, <2>2, <2>4, <2>7, <2>9 DEF ClosesBlock, Top
  <2>19. QED BY <2>16, <2>17, <2>18, <1>5, <1>10 DEF ClosesBlock
<1>11. CASE parse
  <2>1. PICK b : b = Top
    OBVIOUS
  <2>2. /\ Len(blocks) = 1 /\ parsed' = {ShedConfig(b.map)} /\ blocks' = << >>
        /\ text' = text /\ at' = at
    BY <1>11, <2>1 DEF parse
  <2>3. 1 \in DOMAIN blocks /\ b = blocks[1]
    BY <1>2, <2>1, <2>2 DEF Top
  <2>4. b.opener = 0 /\ Frame(text, at, b)
    BY <2>3, <1>1 DEF Stacked
  <2>5. PICK top : top = b.map
    OBVIOUS
  <2>6. SectionsOf(text, top, 0)
    BY <2>4, <2>5 DEF Frame
  <2>7. \A s \in ServersOf(ShedConfig(top)) :
          \A f \in {"host", "control_token", "api_url", "tls_cert_fingerprint"} :
            s[f] # Absent => OfServer(s[f], f, s.name)
    BY <2>6, <1>1, ParsedFields
  <2>8. PICK config : config = ShedConfig(top)
    OBVIOUS
  <2>9. parsed' = {config}
    BY <2>2, <2>5, <2>8
  <2>10. \A s \in ServersOf(config) :
          \A f \in {"host", "control_token", "api_url", "tls_cert_fingerprint"} :
            s[f] # Absent => OfServer(s[f], f, s.name)'
    BY <2>2, <2>7, <2>8, SameText
  <2>11. FieldsStayInTheirServer'
    BY <2>9, <2>10 DEF FieldsStayInTheirServer
  <2>12. Stacked(text, at, << >>)
    BY DEF Stacked
  <2>13. QED BY <2>2, <2>11, <2>12, <1>1 DEF ReaderInv
<1>12. CASE UNCHANGED readerVars
  <2>1. text' = text /\ at' = at /\ blocks' = blocks /\ parsed' = parsed
    BY <1>12 DEF readerVars
  <2>2. QED BY <2>1, <1>1, <1>5
<1>13. QED
  BY <1>6, <1>7, <1>8, <1>9, <1>10, <1>11, <1>12 DEF ReaderNext

(* For every file, whatever its indentation: a field that yaml_lite and    *)
(* ShedConfig::parse give a server, its token and its pin among them, was  *)
(* read from a line in that server's block of the list of servers.         *)
THEOREM FieldsContained == ReaderSpec => []FieldsStayInTheirServer
<1>1. ReaderInv => FieldsStayInTheirServer
  BY DEF ReaderInv
<1>2. QED
  BY <1>1, ReaderInitInv, ReaderStepInv, PTL DEF ReaderSpec
-----------------------------------------------------------------------------
(* The converse: what the reader has of the lines of a regular text. *)

(* A regular text, by the places of its lines. *)
RegularText(t) ==
  /\ \A i : EntryAt(t, i) => t[i].indent \in {0, Step, 2 * Step}
  /\ \A i : EntryAt(t, i) /\ t[i].indent > 0 =>
       \E j \in DOMAIN t : /\ OpenerAt(t, j) /\ j < i /\ AllDeeper(t, j, i, t[j].indent)
                           /\ t[i].indent = t[j].indent + Step
  /\ \A i, j : EntryAt(t, i) /\ EntryAt(t, j) /\ t[i].key = t[j].key /\ i # j =>
       /\ t[i].indent = 2 * Step
       /\ \E m \in i + 1..j \cup j + 1..i : EntryAt(t, m) /\ t[m].indent = Step

(* The indentation of the lines in the block that line o opens. *)
Level(t, o) == IF o = 0 THEN 0 ELSE t[o].indent + Step
ChildOf(t, i, o) == StandsIn(t, i, o) /\ t[i].indent = Level(t, o)

(* What the map of a block has of its lines before line a: the scalars,    *)
(* and the blocks that its lines opened, two levels down.  The block that  *)
(* line open opens is still being read.                                    *)
HasScalars(t, map, o, a) ==
  \A i : ChildOf(t, i, o) /\ i < a /\ t[i].leaf =>
    t[i].key \in DOMAIN map /\ map[t[i].key] = Scalar(i)
HasEntries(t, map, o, a, open) ==
  \A i : ChildOf(t, i, o) /\ i < a /\ ~t[i].leaf /\ i # open =>
    /\ t[i].key \in DOMAIN map /\ is_map(map[t[i].key])
    /\ HasScalars(t, map[t[i].key].map, i, Len(t) + 1)
HasSections(t, map, o, a, open) ==
  \A i : ChildOf(t, i, o) /\ i < a /\ ~t[i].leaf /\ i # open =>
    /\ t[i].key \in DOMAIN map /\ is_map(map[t[i].key])
    /\ HasScalars(t, map[t[i].key].map, i, Len(t) + 1)
    /\ HasEntries(t, map[t[i].key].map, i, Len(t) + 1, 0)
HasAll(t, map, o, a, open) ==
  HasScalars(t, map, o, a) /\ HasEntries(t, map, o, a, open) /\ HasSections(t, map, o, a, open)

(* The block within block d of bs that is being read. *)
OpenIn(bs, d) == IF d + 1 \in DOMAIN bs THEN bs[d + 1].opener ELSE 0

OnStack(bs, j) == \E d \in DOMAIN bs : bs[d].opener = j

(* Nothing was skipped before line a, and every block around it is open. *)
Complete(t, a, bs) ==
  /\ \A d \in DOMAIN bs : /\ bs[d].child \subseteq {Level(t, bs[d].opener)}
                          /\ HasAll(t, bs[d].map, bs[d].opener, a, OpenIn(bs, d))
  /\ \A d \in DOMAIN bs : d > 1 => ChildOf(t, bs[d].opener, bs[d - 1].opener)
  /\ a \in DOMAIN t =>
       \A j : OpenerAt(t, j) /\ j < a /\ AllDeeper(t, j, a, t[j].indent) => OnStack(bs, j)

(* Numbers of the lines of a text. *)
LEMMA PlaceIsNumber ==
  ASSUME NEW t \in Seq(TextLine), NEW i, EntryAt(t, i)
  PROVE  i \in Nat /\ i > 0 /\ i <= Len(t) /\ Len(t) \in Nat /\ t[i].indent \in Nat
<1>1. i \in DOMAIN t /\ t[i] \in TextLine
  BY DEF EntryAt
<1>2. QED BY <1>1 DEF TextLine

(* The lines of a block with the indentation of its lines have their keys. *)
LEMMA OneKeyEach ==
  ASSUME NEW t \in Seq(TextLine), RegularText(t), NEW o, o = 0 \/ o \in DOMAIN t,
         NEW i, NEW j, ChildOf(t, i, o), ChildOf(t, j, o), i # j
  PROVE  t[i].key # t[j].key
<1> SUFFICES ASSUME t[i].key = t[j].key PROVE FALSE
  OBVIOUS
<1>1. EntryAt(t, i) /\ EntryAt(t, j)
  BY DEF ChildOf, StandsIn
<1>2. i \in Nat /\ j \in Nat
  BY <1>1, PlaceIsNumber
<1>3. PICK m \in i + 1..j \cup j + 1..i : EntryAt(t, m) /\ t[m].indent = Step
  BY <1>1 DEF RegularText
<1>4. t[i].indent = 2 * Step
  BY <1>1 DEF RegularText
<1>5. o # 0 /\ t[o].indent + Step = 2 * Step
  BY StepAssumption, <1>4 DEF ChildOf, Level
<1>6. /\ OpenerAt(t, o) /\ o < i /\ o < j
      /\ AllDeeper(t, o, i, t[o].indent) /\ AllDeeper(t, o, j, t[o].indent)
  BY <1>5 DEF ChildOf, StandsIn
<1>7. EntryAt(t, o) /\ o \in Nat /\ t[o].indent \in Nat
  BY <1>6, PlaceIsNumber DEF OpenerAt
<1>8. t[o].indent = Step
  BY StepAssumption, <1>5, <1>7
<1>9. m \in o + 1..i \/ m \in o + 1..j
  BY <1>2, <1>3, <1>6, <1>7
<1>10. t[m].indent > Step
  BY <1>3, <1>6, <1>8, <1>9 DEF AllDeeper
<1>11. QED BY StepAssumption, <1>3, <1>10

(* The blocks that are open have lines of different indentations. *)
LEMMA LevelsGrow ==
  ASSUME NEW t \in Seq(TextLine), NEW a \in Nat, NEW bs, Stacked(t, a, bs),
         NEW d \in DOMAIN bs, NEW e \in DOMAIN bs, d # e
  PROVE  Level(t, bs[d].opener) # Level(t, bs[e].opener)
<1> DEFINE S == {bs[c] : c \in DOMAIN bs}
<1>1. bs \in Seq(S)
  BY DEF Stacked
<1> HIDE DEF S
<1>2. d \in Nat /\ e \in Nat
  BY <1>1
<1>3. Frame(t, a, bs[d]) /\ Frame(t, a, bs[e])
  BY DEF Stacked
<1>4. bs[d].parent < bs[e].parent \/ bs[e].parent < bs[d].parent
  BY <1>2, SMTT(60) DEF Stacked
<1>5. PICK o, p : o = bs[d].opener /\ p = bs[e].opener
  OBVIOUS
<1>6. PICK u, v : u = bs[d].parent /\ v = bs[e].parent
  OBVIOUS
<1>7. /\ o = 0 => u = -1
      /\ o # 0 => EntryAt(t, o) /\ u = t[o].indent
      /\ p = 0 => v = -1
      /\ p # 0 => EntryAt(t, p) /\ v = t[p].indent
  BY <1>3, <1>5, <1>6 DEF Frame, OpenerAt
<1>8. /\ o # 0 => t[o].indent \in Nat
      /\ p # 0 => t[p].indent \in Nat
  BY <1>7, PlaceIsNumber
<1>9. Level(t, o) # Level(t, p)
  BY StepAssumption, <1>4, <1>6, <1>7, <1>8, SMTT(60) DEF Level
<1>10. QED BY <1>5, <1>9

(* No line is skipped: one that is deeper than the innermost block has the *)
(* indentation of its lines.                                               *)
LEMMA NoneSkipped ==
  ASSUME NEW t \in Seq(TextLine), RegularText(t), NEW a \in Nat, NEW bs, Stacked(t, a, bs),
         Complete(t, a, bs), bs # << >>, EntryAt(t, a), t[a].indent > bs[Len(bs)].parent
  PROVE  ChildOf(t, a, bs[Len(bs)].opener)
<1> DEFINE S == {bs[c] : c \in DOMAIN bs}
<1>1. bs \in Seq(S)
  BY DEF Stacked
<1> HIDE DEF S
<1>2. Len(bs) \in DOMAIN bs /\ \A d \in DOMAIN bs : d = Len(bs) \/ d < Len(bs)
  BY <1>1
<1>3. PICK o, p : o = bs[Len(bs)].opener /\ p = bs[Len(bs)].parent
  OBVIOUS
<1>4. /\ Frame(t, a, bs[Len(bs)]) /\ p \in Int
      /\ o = 0 => p = -1
      /\ o # 0 => EntryAt(t, o) /\ p = t[o].indent
  BY <1>2, <1>3 DEF Stacked, Frame, OpenerAt
<1>5. StandsIn(t, a, o)
  BY <1>3, <1>4, LineStandsIn
<1>6. t[a].indent \in {0, Step, 2 * Step} /\ (o # 0 => t[o].indent \in {0, Step, 2 * Step})
  BY <1>4 DEF RegularText
<1>7. CASE t[a].indent = 0
  <2>1. o = 0
    BY StepAssumption, <1>3, <1>4, <1>6, <1>7
  <2>2. QED BY <2>1, <1>3, <1>5, <1>7 DEF ChildOf, Level
<1>8. CASE t[a].indent > 0
  <2>1. PICK j \in DOMAIN t :
          /\ OpenerAt(t, j) /\ j < a /\ AllDeeper(t, j, a, t[j].indent)
          /\ t[a].indent = t[j].indent + Step
    BY <1>8 DEF RegularText
  <2>2. a \in DOMAIN t
    BY DEF EntryAt
  <2>3. PICK d \in DOMAIN bs : bs[d].opener = j
    BY <2>1, <2>2 DEF Complete, OnStack
  <2>4. EntryAt(t, j) /\ j # 0 /\ t[j].indent \in Nat
    <3>1. EntryAt(t, j)
      BY <2>1 DEF OpenerAt
    <3>2. QED BY <3>1, PlaceIsNumber
  <2>5. d = Len(bs)
    <3>1. SUFFICES ASSUME d < Len(bs) PROVE FALSE
      BY <1>2
    <3>2. bs[d].parent < p
      BY <3>1, <1>2, <1>3 DEF Stacked
    <3>3. bs[d].parent = t[j].indent
      BY <2>3, <2>4 DEF Stacked, Frame
    <3>4. t[j].indent < p /\ p < t[a].indent
      BY <3>2, <3>3, <1>3, <1>4, <1>6
    <3>5. o # 0
      BY <3>4, <2>4, <1>4
    <3>6. QED BY StepAssumption, <3>4, <3>5, <2>1, <2>4, <1>4, <1>6, SMTT(60)
  <2>6. o = j
    BY <2>3, <2>5, <1>3
  <2>7. QED BY <2>1, <2>4, <2>6, <1>3, <1>5 DEF ChildOf, Level
<1>9. QED BY StepAssumption, <1>6, <1>7, <1>8

(* A line that is not one of a block leaves what the block has. *)
LEMMA OthersLine ==
  ASSUME NEW t \in Seq(TextLine), NEW a \in Nat, NEW map, NEW o, NEW open,
         HasAll(t, map, o, a, open), ~ChildOf(t, a, o)
  PROVE  HasAll(t, map, o, a + 1, open)
<1>1. ASSUME NEW i, ChildOf(t, i, o), i < a + 1 PROVE i < a
  <2>1. i \in Nat /\ i # a
    BY <1>1, PlaceIsNumber DEF ChildOf, StandsIn
  <2>2. QED BY <2>1, <1>1
<1>2. HasScalars(t, map, o, a + 1)
  BY <1>1 DEF HasAll, HasScalars
<1>3. HasEntries(t, map, o, a + 1, open)
  BY <1>1 DEF HasAll, HasEntries
<1>4. HasSections(t, map, o, a + 1, open)
  BY <1>1 DEF HasAll, HasSections
<1>5. QED BY <1>2, <1>3, <1>4 DEF HasAll

(* The block has the scalar of a line of its own that is read. *)
LEMMA ScalarRead ==
  ASSUME NEW t \in Seq(TextLine), RegularText(t), NEW a \in Nat, NEW map, NEW o,
         o = 0 \/ o \in DOMAIN t, ChildOf(t, a, o), t[a].leaf, HasAll(t, map, o, a, 0)
  PROVE  HasAll(t, Put(map, t[a].key, Scalar(a)), o, a + 1, 0)
<1>1. PICK new : new = Put(map, t[a].key, Scalar(a))
  OBVIOUS
<1>2. /\ t[a].key \in DOMAIN new /\ new[t[a].key] = Scalar(a)
      /\ \A k \in DOMAIN map : k # t[a].key => k \in DOMAIN new /\ new[k] = map[k]
  BY <1>1 DEF Put
<1>3. ASSUME NEW i, ChildOf(t, i, o), i < a + 1, i # a PROVE i < a /\ t[i].key # t[a].key
  <2>1. i \in Nat
    BY <1>3, PlaceIsNumber DEF ChildOf, StandsIn
  <2>2. i < a
    BY <2>1, <1>3
  <2>3. t[i].key # t[a].key
    BY <1>3, OneKeyEach
  <2>4. QED BY <2>2, <2>3
<1>4. HasScalars(t, new, o, a + 1)
  BY <1>2, <1>3 DEF HasAll, HasScalars
<1>5. HasEntries(t, new, o, a + 1, 0)
  BY <1>2, <1>3 DEF HasAll, HasEntries
<1>6. HasSections(t, new, o, a + 1, 0)
  BY <1>2, <1>3 DEF HasAll, HasSections
<1>7. QED BY <1>1, <1>4, <1>5, <1>6 DEF HasAll

(* A block has the map of a block that was opened in it and is over. *)
LEMMA BlockRead ==
  ASSUME NEW t \in Seq(TextLine), RegularText(t), NEW a \in Nat, NEW map, NEW o,
         o = 0 \/ o \in DOMAIN t, NEW l, ChildOf(t, l, o), ~t[l].leaf, HasAll(t, map, o, a, l),
         NEW inner, HasAll(t, inner, l, Len(t) + 1, 0)
  PROVE  HasAll(t, Put(map, t[l].key, Map(inner)), o, a, 0)
<1>1. PICK new : new = Put(map, t[l].key, Map(inner))
  OBVIOUS
<1>2. /\ t[l].key \in DOMAIN new /\ new[t[l].key] = Map(inner)
      /\ \A k \in DOMAIN map : k # t[l].key => k \in DOMAIN new /\ new[k] = map[k]
  BY <1>1 DEF Put
<1>3. is_map(Map(inner)) /\ Map(inner).map = inner
  BY DEF is_map, Map
<1>4. ASSUME NEW i, ChildOf(t, i, o), i # l PROVE t[i].key # t[l].key
  BY <1>4, OneKeyEach
<1>5. HasScalars(t, inner, l, Len(t) + 1) /\ HasEntries(t, inner, l, Len(t) + 1, 0)
  BY DEF HasAll
<1>6. HasScalars(t, new, o, a)
  BY <1>2, <1>4 DEF HasAll, HasScalars
<1>7. HasEntries(t, new, o, a, 0)
  <2>1. SUFFICES ASSUME NEW i, ChildOf(t, i, o), i < a, ~t[i].leaf
                 PROVE  /\ t[i].key \in DOMAIN new /\ is_map(new[t[i].key])
                        /\ HasScalars(t, new[t[i].key].map, i, Len(t) + 1)
    BY DEF HasEntries
  <2>2. CASE i = l
    BY <2>2, <1>2, <1>3, <1>5
  <2>3. CASE i # l
    <3>1. t[i].key \in DOMAIN new /\ t[i].key \in DOMAIN map /\ new[t[i].key] = map[t[i].key]
      BY <2>1, <2>3, <1>2, <1>4 DEF HasAll, HasEntries
    <3>2. QED BY <3>1, <2>1, <2>3 DEF HasAll, HasEntries
  <2>4. QED BY <2>2, <2>3
<1>8. HasSections(t, new, o, a, 0)
  <2>1. SUFFICES ASSUME NEW i, ChildOf(t, i, o), i < a, ~t[i].leaf
                 PROVE  /\ t[i].key \in DOMAIN new /\ is_map(new[t[i].key])
                        /\ HasScalars(t, new[t[i].key].map, i, Len(t) + 1)
                        /\ HasEntries(t, new[t[i].key].map, i, Len(t) + 1, 0)
    BY DEF HasSections
  <2>2. CASE i = l
    BY <2>2, <1>2, <1>3, <1>5
  <2>3. CASE i # l
    <3>1. t[i].key \in DOMAIN new /\ t[i].key \in DOMAIN map /\ new[t[i].key] = map[t[i].key]
      BY <2>1, <2>3, <1>2, <1>4 DEF HasAll, HasSections
    <3>2. QED BY <3>1, <2>1, <2>3 DEF HasAll, HasSections
  <2>4. QED BY <2>2, <2>3
<1>9. QED BY <1>1, <1>6, <1>7, <1>8 DEF HasAll

(* A block that is over has all its lines. *)
LEMMA BlockOver ==
  ASSUME NEW t \in Seq(TextLine), NEW a \in Nat, NEW l, OpenerAt(t, l), l < a,
         a > Len(t) \/ (EntryAt(t, a) /\ t[a].indent <= t[l].indent),
         NEW map, HasAll(t, map, l, a, 0)
  PROVE  HasAll(t, map, l, Len(t) + 1, 0)
<1>1. l \in Nat /\ l # 0 /\ t[l].indent \in Nat
  BY PlaceIsNumber DEF OpenerAt
<1>2. ASSUME NEW i, ChildOf(t, i, l) PROVE i < a
  <2>1. EntryAt(t, i) /\ l < i /\ AllDeeper(t, l, i, t[l].indent)
    BY <1>1, <1>2 DEF ChildOf, StandsIn
  <2>2. i \in Nat /\ i <= Len(t) /\ Len(t) \in Nat
    BY <2>1, PlaceIsNumber
  <2>3. CASE a > Len(t)
    BY <2>2, <2>3
  <2>4. CASE EntryAt(t, a) /\ t[a].indent <= t[l].indent
    <3>1. SUFFICES ASSUME a <= i PROVE FALSE
      BY <2>2
    <3>2. a \in l + 1..i
      BY <3>1, <2>2, <1>1
    <3>3. t[a].indent > t[l].indent
      BY <3>2, <2>1, <2>4 DEF AllDeeper
    <3>4. t[a].indent \in Nat
      BY <2>4, PlaceIsNumber
    <3>5. QED BY <3>3, <3>4, <2>4, <1>1
  <2>5. QED BY <2>3, <2>4
<1>3. HasScalars(t, map, l, Len(t) + 1)
  BY <1>2 DEF HasAll, HasScalars
<1>4. HasEntries(t, map, l, Len(t) + 1, 0)
  BY <1>2 DEF HasAll, HasEntries
<1>5. HasSections(t, map, l, Len(t) + 1, 0)
  BY <1>2 DEF HasAll, HasSections
<1>6. QED BY <1>3, <1>4, <1>5 DEF HasAll

(* The blocks around the next line are those around this one, and perhaps *)
(* the one that this line opens.                                           *)
LEMMA AroundNext ==
  ASSUME NEW t \in Seq(TextLine), NEW a \in Nat, a > 0, NEW bs, Complete(t, a, bs),
         a + 1 \in DOMAIN t,
         NEW j, OpenerAt(t, j), j < a + 1, AllDeeper(t, j, a + 1, t[j].indent), j # a
  PROVE  OnStack(bs, j)
<1>1. j \in Nat
  BY PlaceIsNumber DEF OpenerAt
<1>2. j < a
  BY <1>1
<1>3. a \in DOMAIN t
  OBVIOUS
<1>4. \A m \in j + 1..a : m \in j + 1..a + 1
  BY <1>1
<1>5. AllDeeper(t, j, a, t[j].indent)
  BY <1>4 DEF AllDeeper
<1>6. QED BY <1>2, <1>3, <1>5 DEF Complete

(* A line without an entry is passed over. *)
LEMMA CompletePasses ==
  ASSUME NEW t \in Seq(TextLine), NEW a \in Nat, a > 0, NEW bs, Complete(t, a, bs),
         ~EntryAt(t, a)
  PROVE  Complete(t, a + 1, bs)
<1>1. \A o : ~ChildOf(t, a, o)
  BY DEF ChildOf, StandsIn
<1>2. ASSUME NEW d \in DOMAIN bs
      PROVE  /\ bs[d].child \subseteq {Level(t, bs[d].opener)}
             /\ HasAll(t, bs[d].map, bs[d].opener, a + 1, OpenIn(bs, d))
  BY <1>1, OthersLine DEF Complete
<1>3. ASSUME a + 1 \in DOMAIN t, NEW j, OpenerAt(t, j), j < a + 1,
             AllDeeper(t, j, a + 1, t[j].indent)
      PROVE  OnStack(bs, j)
  <2>1. j # a
    BY <1>3 DEF OpenerAt
  <2>2. QED BY <2>1, <1>3, AroundNext
<1>4. QED BY <1>2, <1>3 DEF Complete

(* A line with a value is read. *)
LEMMA CompleteReads ==
  ASSUME NEW t \in Seq(TextLine), RegularText(t), NEW a \in Nat, a > 0,
         NEW bs, Stacked(t, a, bs), Complete(t, a, bs), bs # << >>,
         ChildOf(t, a, bs[Len(bs)].opener), t[a].leaf,
         NEW b, b.opener = bs[Len(bs)].opener, b.child = {t[a].indent},
         b.map = Put(bs[Len(bs)].map, t[a].key, Scalar(a))
  PROVE  Complete(t, a + 1, [bs EXCEPT ![Len(bs)] = b])
<1> DEFINE S == {bs[d] : d \in DOMAIN bs}
           cs == [bs EXCEPT ![Len(bs)] = b]
<1>1. bs \in Seq(S)
  BY DEF Stacked
<1> HIDE DEF S
<1>2. Len(bs) \in DOMAIN bs /\ Len(bs) + 1 \notin DOMAIN bs
  BY <1>1
<1>3. DOMAIN cs = DOMAIN bs /\ \A d \in DOMAIN bs : cs[d] = IF d = Len(bs) THEN b ELSE bs[d]
  OBVIOUS
<1> HIDE DEF cs
<1>4. \A d \in DOMAIN bs : cs[d].opener = bs[d].opener
  BY <1>3
<1>5. \A d \in DOMAIN bs : OpenIn(cs, d) = OpenIn(bs, d)
  BY <1>3, <1>4 DEF OpenIn
<1>6. ASSUME NEW d \in DOMAIN cs
      PROVE  /\ cs[d].child \subseteq {Level(t, cs[d].opener)}
             /\ HasAll(t, cs[d].map, cs[d].opener, a + 1, OpenIn(cs, d))
  <2>1. CASE d = Len(bs)
    <3>1. PICK o, map : o = bs[Len(bs)].opener /\ map = bs[Len(bs)].map
      OBVIOUS
    <3>2. OpenIn(bs, d) = 0 /\ HasAll(t, map, o, a, 0)
      BY <2>1, <3>1, <1>2 DEF OpenIn, Complete
    <3>3. o = 0 \/ o \in DOMAIN t
      BY <3>1 DEF ChildOf, StandsIn, OpenerAt, EntryAt
    <3>4. ChildOf(t, a, o)
      BY <3>1
    <3>5. HasAll(t, Put(map, t[a].key, Scalar(a)), o, a + 1, 0)
      BY <3>2, <3>3, <3>4, ScalarRead
    <3>6. cs[d].child \subseteq {Level(t, cs[d].opener)}
      BY <2>1, <3>1, <3>4, <1>2, <1>3 DEF ChildOf
    <3>7. QED BY <3>1, <3>2, <3>5, <3>6, <2>1, <1>2, <1>3, <1>5
  <2>2. CASE d # Len(bs)
    <3>1. ~ChildOf(t, a, bs[d].opener)
      BY <2>2, <1>2, <1>3, LevelsGrow DEF ChildOf
    <3>2. HasAll(t, bs[d].map, bs[d].opener, a + 1, OpenIn(bs, d))
      BY <3>1, <1>3, OthersLine DEF Complete
    <3>3. QED BY <3>2, <2>2, <1>3, <1>5 DEF Complete
  <2>3. QED BY <2>1, <2>2
<1>7. ASSUME NEW d \in DOMAIN cs, d > 1 PROVE ChildOf(t, cs[d].opener, cs[d - 1].opener)
  <2>1. d - 1 \in DOMAIN bs
    BY <1>1, <1>3, <1>7
  <2>2. QED BY <2>1, <1>3, <1>4, <1>7 DEF Complete
<1>8. ASSUME a + 1 \in DOMAIN t, NEW j, OpenerAt(t, j), j < a + 1,
             AllDeeper(t, j, a + 1, t[j].indent)
      PROVE  OnStack(cs, j)
  <2>1. j # a
    BY <1>8 DEF OpenerAt
  <2>2. OnStack(bs, j)
    BY <2>1, <1>8, AroundNext
  <2>3. QED BY <2>2, <1>3, <1>4 DEF OnStack
<1>9. Complete(t, a + 1, cs)
  BY <1>6, <1>7, <1>8 DEF Complete
<1>10. QED BY <1>9 DEF cs

(* A line opens a block. *)
LEMMA CompleteOpens ==
  ASSUME NEW t \in Seq(TextLine), NEW a \in Nat, a > 0,
         NEW bs, Stacked(t, a, bs), Complete(t, a, bs), bs # << >>,
         ChildOf(t, a, bs[Len(bs)].opener), ~t[a].leaf,
         NEW b, b.opener = bs[Len(bs)].opener, b.child = {t[a].indent},
         b.map = bs[Len(bs)].map,
         NEW c, c.opener = a, c.child = {}, c.map = << >>
  PROVE  Complete(t, a + 1, Append([bs EXCEPT ![Len(bs)] = b], c))
<1> DEFINE S == {bs[d] : d \in DOMAIN bs}
           cs == Append([bs EXCEPT ![Len(bs)] = b], c)
<1>1. bs \in Seq(S)
  BY DEF Stacked
<1> HIDE DEF S
<1>2. PICK n \in Nat : n = Len(bs) /\ n > 0 /\ DOMAIN bs = 1..n
  BY <1>1
<1>3. PICK ds : ds = [bs EXCEPT ![n] = b]
  OBVIOUS
<1>4. ds \in Seq(S \cup {b}) /\ Len(ds) = n /\ \A d \in 1..n : ds[d] = IF d = n THEN b ELSE bs[d]
  BY <1>1, <1>2, <1>3
<1>5. /\ DOMAIN cs = 1..n + 1 /\ cs[n + 1] = c
      /\ \A d \in 1..n : cs[d] = IF d = n THEN b ELSE bs[d]
  BY <1>2, <1>3, <1>4
<1> HIDE DEF cs
<1>6. \A d \in 1..n : cs[d].opener = bs[d].opener
  BY <1>2, <1>5
<1>7. n \in DOMAIN bs /\ EntryAt(t, a)
  BY <1>2 DEF ChildOf, StandsIn
<1>8. ASSUME NEW d \in DOMAIN cs
      PROVE  /\ cs[d].child \subseteq {Level(t, cs[d].opener)}
             /\ HasAll(t, cs[d].map, cs[d].opener, a + 1, OpenIn(cs, d))
  <2>1. CASE d = n + 1
    <3>1. ASSUME NEW i, ChildOf(t, i, a), i < a + 1 PROVE FALSE
      <4>1. a < i /\ EntryAt(t, i)
        BY <3>1 DEF ChildOf, StandsIn
      <4>2. i \in Nat
        BY <4>1, PlaceIsNumber
      <4>3. QED BY <4>1, <4>2, <3>1
    <3>2. HasAll(t, << >>, a, a + 1, OpenIn(cs, d))
      BY <3>1 DEF HasAll, HasScalars, HasEntries, HasSections
    <3>3. QED BY <3>2, <2>1, <1>5
  <2>2. CASE d = n
    <3>1. PICK o, map : o = bs[n].opener /\ map = bs[n].map
      OBVIOUS
    <3>2. OpenIn(bs, n) = 0 /\ OpenIn(cs, n) = a
      BY <1>2, <1>5 DEF OpenIn
    <3>3. HasAll(t, map, o, a, 0)
      BY <3>1, <3>2, <1>7 DEF Complete
    <3>4. ASSUME NEW i, ChildOf(t, i, o), i < a + 1, i # a PROVE i < a /\ i # 0
      <4>1. i \in Nat /\ i > 0
        BY <3>4, PlaceIsNumber DEF ChildOf, StandsIn
      <4>2. QED BY <4>1, <3>4
    <3>5. HasAll(t, map, o, a + 1, a)
      <4>1. HasScalars(t, map, o, a + 1)
        BY <3>3, <3>4 DEF HasAll, HasScalars
      <4>2. HasEntries(t, map, o, a + 1, a)
        BY <3>3, <3>4 DEF HasAll, HasEntries
      <4>3. HasSections(t, map, o, a + 1, a)
        BY <3>3, <3>4 DEF HasAll, HasSections
      <4>4. QED BY <4>1, <4>2, <4>3 DEF HasAll
    <3>6. cs[n].child \subseteq {Level(t, cs[n].opener)}
      BY <1>2, <1>5, <1>7 DEF ChildOf
    <3>7. QED BY <3>1, <3>2, <3>5, <3>6, <2>2, <1>2, <1>5, <1>7
  <2>3. CASE d \in 1..n - 1
    <3>1. d \in DOMAIN bs /\ d \in 1..n /\ d # n /\ d + 1 \in 1..n /\ d + 1 \in DOMAIN cs
      BY <2>3, <1>2, <1>5
    <3>2. OpenIn(cs, d) = OpenIn(bs, d)
      BY <3>1, <1>2, <1>6 DEF OpenIn
    <3>3. ~ChildOf(t, a, bs[d].opener)
      BY <3>1, <1>2, <1>7, LevelsGrow DEF ChildOf
    <3>4. HasAll(t, bs[d].map, bs[d].opener, a + 1, OpenIn(bs, d))
      BY <3>1, <3>3, OthersLine DEF Complete
    <3>5. QED BY <3>1, <3>2, <3>4, <1>5 DEF Complete
  <2>4. QED BY <2>1, <2>2, <2>3, <1>2, <1>5
<1>9. ASSUME NEW d \in DOMAIN cs, d > 1 PROVE ChildOf(t, cs[d].opener, cs[d - 1].opener)
  <2>1. CASE d = n + 1
    BY <2>1, <1>2, <1>5, <1>6, <1>7
  <2>2. CASE d # n + 1
    <3>1. d \in 1..n /\ d - 1 \in 1..n
      BY <2>2, <1>5, <1>9
    <3>2. QED BY <3>1, <1>2, <1>6, <1>9 DEF Complete
  <2>3. QED BY <2>1, <2>2
<1>10. ASSUME a + 1 \in DOMAIN t, NEW j, OpenerAt(t, j), j < a + 1,
              AllDeeper(t, j, a + 1, t[j].indent)
       PROVE  OnStack(cs, j)
  <2>1. CASE j = a
    BY <2>1, <1>5 DEF OnStack
  <2>2. CASE j # a
    <3>1. PICK d \in DOMAIN bs : bs[d].opener = j
      BY <2>2, <1>10, AroundNext DEF OnStack
    <3>2. d \in DOMAIN cs /\ cs[d].opener = j
      BY <3>1, <1>2, <1>5, <1>6
    <3>3. QED BY <3>2 DEF OnStack
  <2>3. QED BY <2>1, <2>2
<1>11. Complete(t, a + 1, cs)
  BY <1>8, <1>9, <1>10 DEF Complete
<1>12. QED BY <1>11 DEF cs

(* A block is over, and goes into the map of the one around it. *)
LEMMA CompleteCloses ==
  ASSUME NEW t \in Seq(TextLine), RegularText(t), NEW a \in Nat, a > 0,
         NEW bs, Stacked(t, a, bs), Complete(t, a, bs),
         NEW n \in Nat, n > 1, n = Len(bs),
         a > Len(t) \/ (EntryAt(t, a) /\ t[a].indent <= bs[n].parent),
         NEW b, b.opener = bs[n - 1].opener, b.child = bs[n - 1].child,
         b.map = Put(bs[n - 1].map, t[bs[n].opener].key, Map(bs[n].map))
  PROVE  Complete(t, a, Append(SubSeq(bs, 1, n - 2), b))
<1> DEFINE S == {bs[d] : d \in DOMAIN bs}
           cs == Append(SubSeq(bs, 1, n - 2), b)
<1>1. bs \in Seq(S)
  BY DEF Stacked
<1> HIDE DEF S
<1>2. DOMAIN bs = 1..n /\ n \in DOMAIN bs /\ n - 1 \in DOMAIN bs
  BY <1>1
<1>3. PICK ds : ds = SubSeq(bs, 1, n - 2)
  OBVIOUS
<1>4. ds \in Seq(S) /\ Len(ds) = n - 2 /\ \A d \in 1..n - 2 : ds[d] = bs[d]
  BY <1>1, <1>2, <1>3
<1>5. /\ DOMAIN cs = 1..n - 1 /\ cs[n - 1] = b
      /\ \A d \in 1..n - 2 : cs[d] = bs[d]
  BY <1>3, <1>4
<1> HIDE DEF cs
<1>6. \A d \in 1..n - 1 : d \in DOMAIN bs /\ cs[d].opener = bs[d].opener
  BY <1>2, <1>5
<1>7. PICK l : l = bs[n].opener
  OBVIOUS
<1>8. l \in DOMAIN t /\ ChildOf(t, l, bs[n - 1].opener) /\ Frame(t, a, bs[n])
  BY <1>2, <1>7 DEF Stacked, Complete
<1>9. l # 0 /\ l < a /\ OpenerAt(t, l) /\ bs[n].parent = t[l].indent
  BY <1>7, <1>8 DEF Frame
<1>10. ASSUME NEW d \in DOMAIN cs
       PROVE  /\ cs[d].child \subseteq {Level(t, cs[d].opener)}
              /\ HasAll(t, cs[d].map, cs[d].opener, a, OpenIn(cs, d))
  <2>1. CASE d = n - 1
    <3>1. PICK o, map, inner : o = bs[n - 1].opener /\ map = bs[n - 1].map /\ inner = bs[n].map
      OBVIOUS
    <3>2. OpenIn(bs, n - 1) = l /\ OpenIn(bs, n) = 0 /\ OpenIn(cs, n - 1) = 0
      BY <1>2, <1>5, <1>7 DEF OpenIn
    <3>3. HasAll(t, map, o, a, l) /\ HasAll(t, inner, l, a, 0)
      BY <3>1, <3>2, <1>2, <1>7 DEF Complete
    <3>4. HasAll(t, inner, l, Len(t) + 1, 0)
      BY <3>3, <1>9, BlockOver
    <3>5. ChildOf(t, l, o) /\ ~t[l].leaf
      BY <3>1, <1>8, <1>9 DEF OpenerAt
    <3>6. o = 0 \/ o \in DOMAIN t
      BY <3>5 DEF ChildOf, StandsIn, OpenerAt, EntryAt
    <3>7. HasAll(t, Put(map, t[l].key, Map(inner)), o, a, 0)
      BY <3>3, <3>4, <3>5, <3>6, BlockRead
    <3>8. b.child \subseteq {Level(t, b.opener)}
      BY <1>2 DEF Complete
    <3>9. QED BY <3>1, <3>2, <3>7, <3>8, <2>1, <1>5, <1>7
  <2>2. CASE d # n - 1
    <3>1. d \in DOMAIN bs /\ d \in 1..n - 2 /\ d + 1 \in 1..n - 1
      BY <2>2, <1>2, <1>5
    <3>2. OpenIn(cs, d) = OpenIn(bs, d)
      BY <3>1, <1>5, <1>6 DEF OpenIn
    <3>3. QED BY <3>1, <3>2, <1>5 DEF Complete
  <2>3. QED BY <2>1, <2>2
<1>11. ASSUME NEW d \in DOMAIN cs, d > 1 PROVE ChildOf(t, cs[d].opener, cs[d - 1].opener)
  <2>1. d \in 1..n - 1 /\ d - 1 \in 1..n - 1
    BY <1>5, <1>11
  <2>2. QED BY <2>1, <1>6, <1>11 DEF Complete
<1>12. ASSUME a \in DOMAIN t, NEW j, OpenerAt(t, j), j < a, AllDeeper(t, j, a, t[j].indent)
       PROVE  OnStack(cs, j)
  <2>1. PICK d \in DOMAIN bs : bs[d].opener = j
    BY <1>12 DEF Complete, OnStack
  <2>2. EntryAt(t, a) /\ t[a].indent <= t[l].indent
    <3>1. a <= Len(t) /\ Len(t) \in Nat
      BY <1>12
    <3>2. QED BY <3>1, <1>9
  <2>3. t[a].indent \in Nat /\ t[j].indent \in Nat /\ j \in Nat
    BY <2>2, <1>12, PlaceIsNumber DEF OpenerAt
  <2>4. t[a].indent > t[j].indent
    <3>1. a \in j + 1..a
      BY <2>3, <1>12
    <3>2. QED BY <3>1, <2>2, <1>12 DEF AllDeeper
  <2>5. d # n
    BY <2>1, <2>2, <2>3, <2>4, <1>7, SMTT(60)
  <2>6. d \in DOMAIN cs /\ cs[d].opener = j
    <3>1. d \in 1..n - 1
      BY <2>5, <1>2
    <3>2. QED BY <3>1, <2>1, <1>5, <1>6
  <2>7. QED BY <2>6 DEF OnStack
<1>13. Complete(t, a, cs)
  BY <1>10, <1>11, <1>12 DEF Complete
<1>14. QED BY <1>13 DEF cs

(* In the map, the line is under its key in the block and its section. *)
HasIn(top, section, name, key, i) ==
  /\ section \in DOMAIN top /\ is_map(top[section])
  /\ name \in DOMAIN top[section].map /\ is_map(top[section].map[name])
  /\ key \in DOMAIN top[section].map[name].map
  /\ top[section].map[name].map[key] = Scalar(i)

(* At the end of a regular text, its lines are in the map of the file. *)
LEMMA LineIsThere ==
  ASSUME NEW t \in Seq(TextLine), RegularText(t), NEW a \in Nat, a > Len(t),
         NEW top, HasAll(t, top, 0, a, 0),
         NEW i, NEW j, NEW k, StandsIn(t, i, j), StandsIn(t, j, k), j # 0, k # 0, t[i].leaf
  PROVE  HasIn(top, t[k].key, t[j].key, t[i].key, i)
<1>1. /\ EntryAt(t, i) /\ OpenerAt(t, j) /\ j < i /\ AllDeeper(t, j, i, t[j].indent)
      /\ OpenerAt(t, k) /\ k < j /\ AllDeeper(t, k, j, t[k].indent)
  BY DEF StandsIn
<1>2. EntryAt(t, j) /\ EntryAt(t, k) /\ ~t[j].leaf /\ ~t[k].leaf
  BY <1>1 DEF OpenerAt
<1>3. i \in Nat /\ j \in Nat /\ k \in Nat
  BY <1>1, <1>2, PlaceIsNumber
<1>4. i <= Len(t) /\ j <= Len(t) /\ k <= Len(t) /\ Len(t) \in Nat
  BY <1>1, <1>2, PlaceIsNumber
<1>5. t[i].indent > t[j].indent /\ t[j].indent > t[k].indent
  <2>1. i \in j + 1..i /\ j \in k + 1..j
    BY <1>1, <1>3
  <2>2. QED BY <2>1, <1>1, <1>2 DEF AllDeeper
<1>6. \A l \in {i, j, k} : t[l].indent \in {0, Step, 2 * Step}
  BY <1>1, <1>2 DEF RegularText
<1>7. t[i].indent = 2 * Step /\ t[j].indent = Step /\ t[k].indent = 0
  BY StepAssumption, <1>5, <1>6, SMTT(60)
<1>8. ChildOf(t, k, 0) /\ ChildOf(t, j, k) /\ ChildOf(t, i, j)
  BY StepAssumption, <1>2, <1>7 DEF ChildOf, Level, StandsIn
<1>9. PICK sections, section : sections = top[t[k].key] /\ section = sections.map[t[j].key]
  OBVIOUS
<1>10. /\ t[k].key \in DOMAIN top /\ is_map(sections)
       /\ HasEntries(t, sections.map, k, Len(t) + 1, 0)
  <2>1. k < a
    BY <1>3, <1>4
  <2>2. QED BY <2>1, <1>2, <1>3, <1>8, <1>9 DEF HasAll, HasSections
<1>11. /\ t[j].key \in DOMAIN sections.map /\ is_map(section)
       /\ HasScalars(t, section.map, j, Len(t) + 1)
  <2>1. j < Len(t) + 1
    BY <1>3, <1>4
  <2>2. QED BY <2>1, <1>2, <1>8, <1>9, <1>10 DEF HasEntries
<1>12. t[i].key \in DOMAIN section.map /\ section.map[t[i].key] = Scalar(i)
  <2>1. i < Len(t) + 1
    BY <1>3, <1>4
  <2>2. QED BY <2>1, <1>8, <1>11 DEF HasScalars
<1>13. QED BY <1>9, <1>10, <1>11, <1>12 DEF HasIn

(* So the server of the block has the field. *)
LEMMA FieldIsParsed ==
  ASSUME NEW top, NEW n \in DOMAIN NameOrder, NEW i,
         NEW f \in {"host", "control_token", "api_url", "tls_cert_fingerprint"},
         HasIn(top, "servers", NameOrder[n], f, i)
  PROVE  \E s \in ServersOf(ShedConfig(top)) : s.name = NameOrder[n] /\ s[f] = i
<1>1. PICK block : block = top["servers"].map
  OBVIOUS
<1>2. PICK name, fields : name = NameOrder[n] /\ fields = block[name].map
  OBVIOUS
<1>3. PICK config : config = ShedConfig(top)
  OBVIOUS
<1>4. config.servers = [m \in {j \in DOMAIN NameOrder : /\ NameOrder[j] \in DOMAIN block
                                                       /\ is_map(block[NameOrder[j]])}
                          |-> Server(NameOrder[m], block[NameOrder[m]].map)]
  BY <1>1, <1>3 DEF ShedConfig, HasIn
<1>5. n \in DOMAIN config.servers /\ config.servers[n] = Server(name, fields)
  BY <1>1, <1>2, <1>4 DEF HasIn
<1>6. ~is_map(Scalar(i)) /\ Scalar(i).line = i
  BY DEF is_map, Scalar
<1>7. scalar(fields, f, Absent) = i
  BY <1>1, <1>2, <1>6 DEF scalar, HasIn
<1>8. Server(name, fields).name = name /\ Server(name, fields)[f] = i
  BY <1>7 DEF Server
<1>9. Server(name, fields) \in ServersOf(config)
  BY <1>5 DEF ServersOf
<1>10. QED BY <1>2, <1>3, <1>8, <1>9

(* Regular says the same of the lines of the state. *)
LEMMA RegularPlaces ==
  ASSUME text \in Seq(TextLine), Regular
  PROVE  RegularText(text)
<1>1. \A i : Entry(i) <=> EntryAt(text, i)
  BY PlacesOfText
<1>2. \A i : EntryAt(text, i) => i \in DOMAIN text
  BY DEF EntryAt
<1>3. \A i, j : Within(i, j) =>
        OpenerAt(text, j) /\ j < i /\ AllDeeper(text, j, i, text[j].indent)
  BY <1>1 DEF Within, OpenerAt, AllDeeper
<1>4. \A i : EntryAt(text, i) => text[i].indent \in {0, Step, 2 * Step}
  BY <1>1, <1>2 DEF Regular
<1>5. ASSUME NEW i, EntryAt(text, i), text[i].indent > 0
      PROVE  \E j \in DOMAIN text :
               /\ OpenerAt(text, j) /\ j < i /\ AllDeeper(text, j, i, text[j].indent)
               /\ text[i].indent = text[j].indent + Step
  BY <1>1, <1>2, <1>3, <1>5 DEF Regular
<1>6. ASSUME NEW i, NEW j, EntryAt(text, i), EntryAt(text, j), text[i].key = text[j].key, i # j
      PROVE  /\ text[i].indent = 2 * Step
             /\ \E m \in i + 1..j \cup j + 1..i : EntryAt(text, m) /\ text[m].indent = Step
  BY <1>1, <1>2, <1>6 DEF Regular
<1>7. QED BY <1>4, <1>5, <1>6 DEF RegularText

RegularInv ==
  /\ ReaderInv
  /\ RegularText(text) => Complete(text, at, blocks)
  /\ RegularIsRead

LEMMA RegularInit == ReaderInit => RegularInv
<1> SUFFICES ASSUME ReaderInit PROVE RegularInv
  OBVIOUS
<1>1. ReaderInv
  BY ReaderInitInv
<1>2. PICK b : b = Block(0, -1)
  OBVIOUS
<1>3. blocks = <<b>> /\ b.opener = 0 /\ b.child = {} /\ b.map = << >> /\ at = 1
  BY <1>2 DEF Block, ReaderInit
<1>4. DOMAIN blocks = {1} /\ blocks[1] = b
  BY <1>3
<1>5. text \in Seq(TextLine)
  BY TextAssumption DEF ReaderInit
<1>6. \A i : EntryAt(text, i) => ~(i < 1)
  BY <1>5, PlaceIsNumber
<1>7. \A o, open : HasAll(text, << >>, o, 1, open)
  BY <1>6 DEF HasAll, HasScalars, HasEntries, HasSections, ChildOf, StandsIn
<1>8. \A j : OpenerAt(text, j) => ~(j < 1)
  BY <1>6 DEF OpenerAt
<1>9. Complete(text, at, blocks)
  BY <1>3, <1>4, <1>7, <1>8 DEF Complete
<1>10. QED BY <1>1, <1>9 DEF RegularInv, RegularIsRead, ReaderInit

(* In a regular text every step keeps what has been read complete. *)
LEMMA CompleteStep ==
  ASSUME ReaderInv, RegularText(text), Complete(text, at, blocks), [ReaderNext]_readerVars
  PROVE  Complete(text, at, blocks)'
<1>1. text \in Seq(TextLine) /\ at \in Nat /\ at > 0 /\ Stacked(text, at, blocks)
  BY TextAssumption DEF ReaderInv
<1>2. PICK S : blocks \in Seq(S)
  BY <1>1 DEF Stacked
<1>3. PICK t, a, bs : t = text /\ a = at /\ bs = blocks
  OBVIOUS
<1>4. /\ t \in Seq(TextLine) /\ a \in Nat /\ a > 0 /\ Stacked(t, a, bs)
      /\ RegularText(t) /\ Complete(t, a, bs)
  BY <1>1, <1>3
<1>5. ASSUME bs # << >> PROVE Len(bs) \in DOMAIN bs
  BY <1>2, <1>3, <1>5
<1>6. ASSUME bs # << >>, Entry(at), ~BlockEnds
      PROVE  EntryAt(t, a) /\ ChildOf(t, a, bs[Len(bs)].opener)
  <2>1. EntryAt(t, a)
    BY <1>3, <1>6, PlacesOfText
  <2>2. t[a].indent \in Nat
    BY <2>1, <1>4, PlaceIsNumber
  <2>3. bs[Len(bs)].parent \in Int
    BY <1>4, <1>5, <1>6 DEF Stacked, Frame
  <2>4. ~(t[a].indent <= bs[Len(bs)].parent)
    BY <1>3, <1>6 DEF BlockEnds, Top
  <2>5. t[a].indent > bs[Len(bs)].parent
    BY <2>2, <2>3, <2>4
  <2>6. QED BY <2>1, <2>5, <1>4, <1>6, NoneSkipped
<1>7. ASSUME text' = text, NEW c, Complete(t, c, blocks'), at' = c
      PROVE  Complete(text, at, blocks)'
  BY <1>3, <1>7
<1>8. CASE Passes
  <2>1. ~EntryAt(t, a)
    BY <1>3, <1>8, PlacesOfText DEF Passes
  <2>2. Complete(t, a + 1, bs)
    BY <2>1, <1>4, CompletePasses
  <2>3. QED BY <2>2, <1>3, <1>7, <1>8 DEF Passes
<1>9. CASE Skips
  <2>1. bs # << >> /\ ChildOf(t, a, bs[Len(bs)].opener)
    BY <1>3, <1>6, <1>9 DEF Skips
  <2>2. bs[Len(bs)].child \subseteq {t[a].indent}
    BY <2>1, <1>4, <1>5 DEF ChildOf, Complete
  <2>3. QED BY <2>2, <1>3, <1>9 DEF Skips, Fits, Top
<1>10. CASE ReadsScalar
  <2>1. bs # << >> /\ ChildOf(t, a, bs[Len(bs)].opener) /\ t[a].leaf
    BY <1>3, <1>6, <1>10 DEF ReadsScalar
  <2>2. PICK b : b = bs[Len(bs)]
    OBVIOUS
  <2>3. DOMAIN b = {"opener", "parent", "child", "map"}
    BY <2>1, <2>2, <1>4, <1>5 DEF Stacked, Frame
  <2>4. PICK new : new = Put(b.map, t[a].key, Scalar(a))
    OBVIOUS
  <2>5. PICK c : c = [b EXCEPT !.child = {t[a].indent}, !.map = new]
    OBVIOUS
  <2>6. c.opener = b.opener /\ c.child = {t[a].indent} /\ c.map = new
    BY <2>3, <2>5
  <2>7. Complete(t, a + 1, [bs EXCEPT ![Len(bs)] = c])
    BY <2>1, <2>2, <2>4, <2>6, <1>4, CompleteReads
  <2>8. blocks' = [bs EXCEPT ![Len(bs)] = c]
    BY <2>2, <2>4, <2>5, <1>3, <1>10 DEF ReadsScalar, WithTop, Top
  <2>9. QED BY <2>7, <2>8, <1>3, <1>7, <1>10 DEF ReadsScalar
<1>11. CASE OpensBlock
  <2>1. bs # << >> /\ ChildOf(t, a, bs[Len(bs)].opener) /\ ~t[a].leaf
    BY <1>3, <1>6, <1>11 DEF OpensBlock
  <2>2. PICK b : b = bs[Len(bs)]
    OBVIOUS
  <2>3. DOMAIN b = {"opener", "parent", "child", "map"}
    BY <2>1, <2>2, <1>4, <1>5 DEF Stacked, Frame
  <2>4. PICK c : c = [b EXCEPT !.child = {t[a].indent}]
    OBVIOUS
  <2>5. c.opener = b.opener /\ c.child = {t[a].indent} /\ c.map = b.map
    BY <2>3, <2>4
  <2>6. PICK d : d = Block(a, t[a].indent)
    OBVIOUS
  <2>7. d.opener = a /\ d.child = {} /\ d.map = << >>
    BY <2>6 DEF Block
  <2>8. Complete(t, a + 1, Append([bs EXCEPT ![Len(bs)] = c], d))
    BY <2>1, <2>2, <2>5, <2>7, <1>4, CompleteOpens
  <2>9. blocks' = Append([bs EXCEPT ![Len(bs)] = c], d)
    BY <2>2, <2>4, <2>6, <1>3, <1>11 DEF OpensBlock, WithTop, Top
  <2>10. QED BY <2>8, <2>9, <1>3, <1>7, <1>11 DEF OpensBlock
<1>12. CASE ClosesBlock
  <2>1. PICK n \in Nat : n = Len(bs) /\ n > 1 /\ DOMAIN bs = 1..n
    BY <1>2, <1>3, <1>12 DEF ClosesBlock
  <2>2. n - 1 \in DOMAIN bs
    BY <2>1
  <2>3. PICK b, c : b = bs[n] /\ c = bs[n - 1]
    OBVIOUS
  <2>4. DOMAIN c = {"opener", "parent", "child", "map"}
    BY <2>2, <2>3, <1>4 DEF Stacked, Frame
  <2>5. a > Len(t) \/ (EntryAt(t, a) /\ t[a].indent <= b.parent)
    BY <2>1, <2>3, <1>3, <1>12, PlacesOfText DEF ClosesBlock, BlockEnds, Top
  <2>6. PICK new : new = Put(c.map, t[b.opener].key, Map(b.map))
    OBVIOUS
  <2>7. PICK e : e = [c EXCEPT !.map = new]
    OBVIOUS
  <2>8. e.opener = c.opener /\ e.child = c.child /\ e.map = new
    BY <2>4, <2>7
  <2>9. Complete(t, a, Append(SubSeq(bs, 1, n - 2), e))
    BY <2>1, <2>3, <2>5, <2>6, <2>8, <1>4, CompleteCloses
  <2>10. blocks' = Append(SubSeq(bs, 1, n - 2), e)
    BY <2>1, <2>3, <2>6, <2>7, <1>3, <1>12 DEF ClosesBlock, Top
  <2>11. QED BY <2>9, <2>10, <1>3, <1>7, <1>12 DEF ClosesBlock
<1>13. CASE parse
  <2>1. Len(bs) = 1 /\ bs # << >> /\ BlockEnds /\ blocks' = << >> /\ at' = a /\ text' = text
    BY <1>3, <1>13 DEF parse
  <2>2. a > Len(t)
    <3>1. 1 \in DOMAIN bs
      BY <2>1, <1>5
    <3>2. bs[1].parent = -1
      BY <3>1, <1>4 DEF Stacked, Frame
    <3>3. EntryAt(t, a) => t[a].indent \in Nat
      BY <1>4, PlaceIsNumber
    <3>4. a > Len(t) \/ (EntryAt(t, a) /\ t[a].indent <= bs[1].parent)
      BY <2>1, <1>3, PlacesOfText DEF BlockEnds, Top
    <3>5. ~(EntryAt(t, a) /\ t[a].indent <= bs[1].parent)
      BY <3>2, <3>3
    <3>6. QED BY <3>4, <3>5
  <2>3. a \notin DOMAIN t
    BY <2>2, <1>4
  <2>4. Complete(t, a, << >>)
    BY <2>3 DEF Complete
  <2>5. QED BY <2>1, <2>4, <1>7
<1>14. CASE UNCHANGED readerVars
  BY <1>3, <1>4, <1>7, <1>14 DEF readerVars
<1>15. QED
  BY <1>8, <1>9, <1>10, <1>11, <1>12, <1>13, <1>14 DEF ReaderNext

(* Nothing but the text and what was made of it is in the property. *)
LEMMA SameFields ==
  ASSUME text' = text, parsed' = parsed, RegularIsRead
  PROVE  RegularIsRead'
<1>1. Regular' <=> Regular
  BY DEF Regular, Within, Entry
<1>2. \A i, f, n : OfServer(i, f, n)' <=> OfServer(i, f, n)
  BY SameText
<1>3. QED BY <1>1, <1>2 DEF RegularIsRead, ServersOf

(* What parse makes of a regular text has its fields. *)
LEMMA FieldsParsed ==
  ASSUME text \in Seq(TextLine), NEW top, HasAll(text, top, 0, at, 0), at \in Nat,
         at > Len(text), Regular,
         NEW i \in DOMAIN text, NEW j \in DOMAIN NameOrder,
         NEW f \in {"host", "control_token", "api_url", "tls_cert_fingerprint"},
         OfServer(i, f, NameOrder[j]), text[i].leaf
  PROVE  \E s \in ServersOf(ShedConfig(top)) : s.name = NameOrder[j] /\ s[f] = i
<1>1. text[i].key = f
  BY DEF OfServer
<1>2. PICK l, k : /\ l \in DOMAIN text /\ k \in DOMAIN text /\ Within(i, l) /\ Within(l, k)
                  /\ text[k].key = "servers" /\ text[l].key = NameOrder[j]
  BY DEF OfServer
<1>3. l # 0 /\ k # 0
  BY <1>2
<1>4. \A m, n : Within(m, n) => StandsIn(text, m, n)
  BY PlacesOfText DEF Within, StandsIn, OpenerAt, AllDeeper
<1>5. StandsIn(text, i, l) /\ StandsIn(text, l, k)
  BY <1>2, <1>4
<1>6. RegularText(text)
  BY RegularPlaces
<1>7. HasIn(top, "servers", NameOrder[j], f, i)
  <2>1. PICK t, a : t = text /\ a = at
    OBVIOUS
  <2>2. /\ t \in Seq(TextLine) /\ RegularText(t) /\ a \in Nat /\ a > Len(t)
        /\ HasAll(t, top, 0, a, 0) /\ StandsIn(t, i, l) /\ StandsIn(t, l, k) /\ t[i].leaf
    BY <2>1, <1>5, <1>6
  <2>3. HasIn(top, t[k].key, t[l].key, t[i].key, i)
    BY <2>2, <1>3, LineIsThere
  <2>4. t[k].key = "servers" /\ t[l].key = NameOrder[j] /\ t[i].key = f
    BY <2>1, <1>1, <1>2
  <2>5. QED BY <2>3, <2>4
<1>8. j \in DOMAIN NameOrder /\ f \in {"host", "control_token", "api_url", "tls_cert_fingerprint"}
  OBVIOUS
<1>9. QED BY ONLY <1>7, <1>8, FieldIsParsed, SMTT(60)

LEMMA RegularStep == RegularInv /\ [ReaderNext]_readerVars => RegularInv'
<1> SUFFICES ASSUME RegularInv, [ReaderNext]_readerVars PROVE RegularInv'
  OBVIOUS
<1>1. ReaderInv /\ ReaderInv'
  BY ReaderStepInv DEF RegularInv
<1>2. text' = text
  BY DEF ReaderNext, Passes, Skips, ReadsScalar, OpensBlock, ClosesBlock, parse, readerVars
<1>3. ASSUME RegularText(text)' PROVE Complete(text, at, blocks)'
  <2>1. RegularText(text)
    BY <1>2, <1>3
  <2>2. QED BY <2>1, <1>1, CompleteStep DEF RegularInv
<1>4. RegularIsRead'
  <2>1. CASE ~parse
    <3>1. parsed' = parsed
      BY <2>1 DEF ReaderNext, Passes, Skips, ReadsScalar, OpensBlock, ClosesBlock, readerVars
    <3>2. QED BY <3>1, <1>2, SameFields DEF RegularInv
  <2>2. CASE parse
    <3>1. PICK b : b = Top
      OBVIOUS
    <3>2. Len(blocks) = 1 /\ BlockEnds /\ parsed' = {ShedConfig(b.map)}
      BY <2>2, <3>1 DEF parse
    <3>3. text \in Seq(TextLine) /\ at \in Nat /\ Stacked(text, at, blocks)
      BY <1>1, TextAssumption DEF ReaderInv
    <3>4. DOMAIN blocks = {1} /\ b = blocks[1]
      <4>1. PICK S : blocks \in Seq(S)
        BY <3>3 DEF Stacked
      <4>2. QED BY <4>1, <3>1, <3>2 DEF Top
    <3>5. b.opener = 0 /\ b.parent = -1
      BY <3>3, <3>4 DEF Stacked, Frame
    <3>6. at > Len(text)
      <4>1. EntryAt(text, at) => text[at].indent \in Nat
        BY <3>3, PlaceIsNumber
      <4>2. at > Len(text) \/ (EntryAt(text, at) /\ text[at].indent <= b.parent)
        BY <3>1, <3>2, PlacesOfText DEF BlockEnds
      <4>3. ~(EntryAt(text, at) /\ text[at].indent <= b.parent)
        BY <4>1, <3>5
      <4>4. QED BY <4>2, <4>3
    <3>7. PICK top : top = b.map
      OBVIOUS
    <3>8. ASSUME Regular PROVE HasAll(text, top, 0, at, 0)
      <4>1. RegularText(text)
        BY <3>3, <3>8, RegularPlaces
      <4>2. Complete(text, at, blocks) /\ OpenIn(blocks, 1) = 0
        BY <4>1, <3>4 DEF RegularInv, OpenIn
      <4>3. QED BY <4>2, <3>4, <3>5, <3>7 DEF Complete
    <3>9. PICK config : config = ShedConfig(top)
      OBVIOUS
    <3>10. ASSUME Regular, NEW i \in DOMAIN text, NEW j \in DOMAIN NameOrder,
                  NEW f \in {"host", "control_token", "api_url", "tls_cert_fingerprint"},
                  OfServer(i, f, NameOrder[j]), text[i].leaf
           PROVE  \E s \in ServersOf(config) : s.name = NameOrder[j] /\ s[f] = i
      BY <3>3, <3>6, <3>8, <3>9, <3>10, FieldsParsed
    <3>11. Regular' <=> Regular
      BY <1>2 DEF Regular, Within, Entry
    <3>12. parsed' = {config}
      BY <3>2, <3>7, <3>9
    <3>13. \A i, f, n : OfServer(i, f, n)' <=> OfServer(i, f, n)
      BY <1>2, SameText
    <3>14. QED BY <3>10, <3>11, <3>12, <3>13, <1>2 DEF RegularIsRead
  <2>3. QED BY <2>1, <2>2
<1>5. QED BY <1>1, <1>3, <1>4 DEF RegularInv

(* The converse: in a file that is laid out as the shed CLI does, of any   *)
(* length, no field is lost to a skipped line or to a wrong block.         *)
THEOREM ServersAreAsWritten == ReaderSpec => []ServersAsWritten
<1>1. RegularInv => ServersAsWritten
  BY DEF RegularInv, ReaderInv, ServersAsWritten
<1>2. QED
  BY <1>1, RegularInit, RegularStep, PTL DEF ReaderSpec
=============================================================================
