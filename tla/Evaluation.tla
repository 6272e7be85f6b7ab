----------------------------- MODULE Evaluation -----------------------------
(***************************************************************************)
(* The pure functions of the system, each against what a reader of its     *)
(* documentation expects: the approval policy and its times to live        *)
(* (PolicyEngine), the hosts a client talks to (Fleet), the launch of a    *)
(* remote-control session and the reading of its pane (Launching).  A      *)
(* behaviour picks one function and one input, and evaluates it.           *)
(***************************************************************************)
EXTENDS PolicyEngine

CONSTANTS
  Empty,          \* the empty string
  SafeChars,      \* see Launching
  PromptCap,
  Chars,          \* the characters of a prompt
  Width,          \* the bits of an i64
  PolicyInputs,   \* the inputs of each function
  TtlInputs,
  FleetInputs,
  Journeys,       \* the hops that a request and its redirects may take
  LaunchInputs,
  PaneInputs

F == INSTANCE Fleet
L == INSTANCE Launching

(* The types of the inputs. *)
ASSUME PolicyAssumption ==
  PolicyInputs \subseteq
    [rules: Seq(PolicyRule), req: ApprovalRequest, grants: SUBSET SessionGrantKey]

ASSUME TtlAssumption ==
  /\ TtlInputs \subseteq [n: Int, unit: STRING]
  /\ Width \in Nat \ {0} /\ 2^(Width - 1) \in Nat \ {0} /\ 2^Width \in Nat \ {0}

(* The servers of a configuration are a list made of a map, so no name     *)
(* occurs twice; no file has the empty path.                               *)
ASSUME FleetAssumption ==
  /\ Empty # "home"
  /\ \A x \in FleetInputs : \A i, j \in DOMAIN x.config.servers :
       x.config.servers[i].name = x.config.servers[j].name => i = j
  /\ \A hops \in Journeys : DOMAIN hops = 1..Len(hops) /\ Len(hops) \in Nat

ASSUME LaunchAssumption ==
  \A x \in LaunchInputs : /\ x.raw = NoValue \/ x.raw \in Seq(Chars)
                         /\ x.child.ends \in {"no-spawn", "overruns", "exits"}

VARIABLES about, input, answer

evalVars == <<about, input, answer>>

Fleet(x) ==
  LET backend == F!from_env_parts_with_minter(F!from_process(x.env), [p \in {x.path} |-> x.config],
                                              x.minter)
  IN  [backend |-> backend, client |-> F!client_for(backend, x.host),
       ssh |-> F!ssh_target_for(backend, x.host)]

Launch(x) ==
  L!launch(x.server, x.shed, x.kind, x.name, x.slug, x.workdir, x.raw, x.test_mode, x.child)

Value ==
  CASE about = "decide" -> decide(input.rules, input.req, input.grants)
    [] about = "ttl"    -> <<ttl_shorthand_seconds(input.n, input.unit, Width)>>
    [] about = "fleet"  -> Fleet(input)
    [] about = "launch" -> Launch(input)
    [] about = "pane"   -> L!classify_pane(input.kind, input.pane)

Asked ==
  \/ about = "decide" /\ input \in PolicyInputs
  \/ about = "ttl"    /\ input \in TtlInputs
  \/ about = "fleet"  /\ input \in FleetInputs
  \/ about = "launch" /\ input \in LaunchInputs
  \/ about = "pane"   /\ input \in PaneInputs

EvalInit == Asked /\ answer = NoValue

Evaluate ==
  /\ answer = NoValue
  /\ answer' = Value
  /\ UNCHANGED <<about, input>>

EvalSpec == EvalInit /\ [][Evaluate]_evalVars

Evaluated(a) == about = a /\ answer # NoValue
-----------------------------------------------------------------------------
(* decide(): "most specific wins", see MostSpecific. *)
MostSpecificFirstWins ==
  Evaluated("decide") => MostSpecific(input.rules, input.req, input.grants, answer)

(* ttl_shorthand_seconds: a time to live is never longer than the one      *)
(* asked for, and a non-positive or unreadable one is no time to live at   *)
(* all; an overflow of n * unit only ever shortens it.                     *)
TtlNeverLonger ==
  Evaluated("ttl") =>
    \/ answer = <<NoValue>>
    \/ /\ input.n > 0 /\ input.unit \in {"s", "m", "h", "d"}
       /\ answer[1] <= input.n * UnitSeconds(input.unit)

(* The policy engine: who answers a request, and for how long. *)
PolicyAsDocumented == MostSpecificFirstWins /\ TtlNeverLonger

RangeOf(f) == {f[i] : i \in DOMAIN f}

(* Everything fails closed, from the environment and the configuration to  *)
(* the hosts: a test run without a mock talks to nobody and never reads    *)
(* the user's own configuration, one with a mock only to it and without a  *)
(* token; the traffic of a pinned server goes only to the pinned           *)
(* certificate, redirects included; a client that mints never falls back   *)
(* to the static token; an explicit host is never another one.             *)
FleetFailsClosed ==
  Evaluated("fleet") =>
    LET clients == RangeOf(answer.backend.clients)
        env == input.env
    IN  /\ env.test_mode /\ (env.mock = NoValue \/ (env.config = Empty /\ input.path = "home")) =>
             clients = {} /\ RangeOf(answer.backend.ssh_targets) = {}
        /\ env.mock # NoValue =>
             \A c \in clients : c.base_url = env.mock /\ F!bearer(c, "minted") = NoValue
        /\ env.mock = NoValue =>
             \A c \in clients, s \in RangeOf(input.config.servers), hops \in Journeys :
               /\ c.name = s.name /\ s.pin # Empty
               /\ Len(hops) > 0 /\ hops[1].url = c.base_url
               => \A h \in F!Hops(c, hops) : h.url.scheme = "https" /\ h.cert = s.pin
        /\ input.minter /\ env.mock = NoValue => \A c \in clients : F!bearer(c, NoValue) = NoValue
        /\ input.host # NoValue =>
             \A x \in answer.client \cup answer.ssh : x.name = input.host
-----------------------------------------------------------------------------
(* How the guest reads the end of its argv, after the eight fixed words: a *)
(* workdir, then the flag that makes it read a prompt, each or neither.    *)
ReadsPrompt(argv) == Len(argv) \in {9, 11} /\ argv[Len(argv)] = <<"--prompt-stdin">>

(* A word is what was typed without the white space around it. *)
AsTyped(word, raw) ==
  \E i, j \in DOMAIN raw :
    /\ word = SubSeq(raw, i, j)
    /\ raw[i] \notin L!Whitespace /\ raw[j] \notin L!Whitespace
    /\ \A k \in DOMAIN raw : k < i \/ k > j => raw[k] \in L!Whitespace

(* A launch with a bad name, workdir or prompt is refused before anything  *)
(* runs and reported as the caller's fault; in test mode nothing runs at   *)
(* all; otherwise the guest gets the prompt as it was typed exactly when   *)
(* it is told to read one, and only a decoded session of a run that ended  *)
(* with success is a launch, however much a run that overran had printed.  *)
(* The row is one that a kill by host, shed and slug finds.                *)
LaunchAsAsked ==
  Evaluated("launch") =>
    LET child == input.child
        blank == input.raw = NoValue \/ \A i \in DOMAIN input.raw : input.raw[i] \in L!Whitespace
        name  == IF input.name = NoValue THEN input.shed \o <<"/">> \o input.slug ELSE input.name
    IN  /\ \A row \in answer.row :
             /\ answer.result = "ok"
             /\ L!composite_id(row.host, row.shed, row.slug) =
                  L!composite_id(input.server, input.shed,
                                 IF input.test_mode THEN input.slug ELSE child.dto.slug)
        /\ answer.call = {} =>
             \/ input.test_mode /\ answer.result = "ok"
             \/ /\ L!rc_err(answer.result) = "invalid-param" /\ answer.row = {}
                /\ \/ ~blank
                   \/ ~L!is_safe_rc_value(name)
                   \/ input.workdir # NoValue /\ ~L!is_safe_rc_value(input.workdir)
        /\ \A call \in answer.call :
             /\ ~input.test_mode
             /\ ReadsPrompt(call.argv) <=> ~blank
             /\ blank => call.stdin = {}
             /\ ~blank => call.stdin # {} /\ \A prompt \in call.stdin : AsTyped(prompt, input.raw)
             /\ answer.result = "ok" =>
                  child.ends = "exits" /\ child.code = 0 /\ child.dto # NoValue
             /\ L!rc_err(answer.result) = "invalid-param" => child.code = 2

(* A session shown as ready can be used: the link is that of its own kind, *)
(* and the pane asks for no trust, no login and is not reconnecting.       *)
ReadyMeansUsable ==
  Evaluated("pane") /\ input.kind # "shell" /\ answer.state = "ready" =>
    /\ answer.url = IF input.kind = "claude-broker" THEN "broker-url" ELSE "session-url"
    /\ answer.url \in input.pane /\ input.pane \cap {"trust", "auth"} = {}
    /\ input.kind = "claude-broker" => "reconnecting" \notin input.pane

(* The contract with the guest's shed-ext-rc. *)
GuestContract == LaunchAsAsked /\ ReadyMeansUsable
=============================================================================
