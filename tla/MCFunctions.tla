---------------------------- MODULE MCFunctions -----------------------------
(***************************************************************************)
(* Instances of Evaluation, ConfigReader and CommandLine for TLC: every    *)
(* small input of each function, every short text and every short name.    *)
(***************************************************************************)
EXTENDS Evaluation, ConfigReader, CommandLine, FiniteSets

CONSTANTS id1, srv1, srv2, shed1, shed2, MaxRules, MaxPrompt, MaxLines, MaxWord

SeqsUpTo(S, n) == UNION {[1..k -> S] : k \in 0..n}

AllNamespaces == {SSH, AWS, DOCKER}
-----------------------------------------------------------------------------
(* decide: every list of at most MaxRules of these rules. *)
Rule(scope, server, ns, shed, action, gate) ==
  [scope |-> scope, server |-> server, namespace |-> ns, shed |-> shed,
   action |-> action, gate |-> gate]

Rules ==
  {Rule("default", NoValue, NoValue, NoValue, "approve", "none"),
   Rule("default", NoValue, NoValue, NoValue, "deny", "none"),
   Rule("namespace", NoValue, SSH, NoValue, "prompt", "biometrics"),
   Rule("namespace", NoValue, AWS, NoValue, "approve", "none"),
   Rule("shed", srv1, NoValue, shed1, "deny", "none"),
   Rule("shed", srv2, NoValue, shed1, "approve", "none"),
   Rule("shed", NoValue, NoValue, shed1, "prompt", "none"),
   Rule("shed", srv1, NoValue, shed2, "approve", "none")}

Requests ==
  [id: {id1}, server: Servers, namespace: {SSH, AWS}, shed: Sheds, expires_at: {0}]

AskPolicy ==
  UNION {[rules: SeqsUpTo(Rules, MaxRules), req: {req},
          grants: SUBSET {KeyOf(req), [KeyOf(req) EXCEPT !.namespace = DOCKER]}] : req \in Requests}

(* ttl_shorthand_seconds, also where n * unit leaves the integers of Width *)
(* bits that stand for i64.                                                *)
AskTtl ==
  [n: {-24000, -13, -7, -1, 0, 1, 6, 7, 12, 13, 145, 146, 8738, 8739, 24000},
   unit: {"s", "m", "h", "d", "w"}]
-----------------------------------------------------------------------------
(* The hosts a client ends up talking to, from the environment on. *)
Url(scheme, to) == [scheme |-> scheme, to |-> to]
Mock == Url("http", "mock")
ApiUrls == {Empty, Url("https", "api"), Url("http", "api"), Url("ftp", "api"),
            Url("https", Empty)}

Entries(name, urls) ==
  [name: {name}, host: {"host"}, control_token: {"static"}, api_url: urls, pin: {Empty, "leaf"}]

Configs ==
  [servers: {<<a, b>> : a \in Entries("a", ApiUrls), b \in Entries("b", {Empty, Url("https", "api")})},
   default_server: {NoValue, "a"}]

AskFleet ==
  [config: Configs, path: {"home", "given"}, minter: BOOLEAN, host: {NoValue, "a", "c"},
   env: [test_mode: BOOLEAN, mock: {NoValue, Mock}, config: {Empty, "given"}]]

(* A request to one of the base URLs, then a redirect. *)
Hop(urls) == [url: urls, cert: {"leaf", "other"}, trusted: BOOLEAN]

AllJourneys ==
  {<<first, next>> : first \in Hop({Url("https", "api"), Url("http", "host")}),
                     next \in Hop({Url("http", "x"), Url("https", "x")})}
-----------------------------------------------------------------------------
(* The contract with shed-ext-rc. *)
Letters == {"x", L!Space, L!Control, L!Wide}
Kinds == {"claude-rc", "claude-broker", "shell"}
Dtos == {NoValue, [slug |-> <<"t">>, display_name |-> NoValue, state |-> "starting",
                   url |-> NoValue]}
Children ==
  [ends: {"no-spawn", "overruns"}, code: {0}, stderr: {""}, dto: Dtos]
    \cup [ends: {"exits"}, code: {NoValue, 0, 1, 2, 3, 127}, stderr: {"", "command not found"},
          dto: Dtos]

AskLaunch ==
  {x \in [server: {<<"srv">>}, shed: {<<"x">>}, slug: {<<"s">>}, kind: Kinds,
          name: {NoValue, <<"n">>, <<"n", L!Newline>>},
          workdir: {NoValue, << >>, <<"w">>, <<"--prompt-stdin">>, <<L!Control>>},
          raw: SeqsUpTo(Letters, MaxPrompt) \cup {NoValue}, test_mode: BOOLEAN, child: Children] :
     x.test_mode => x.child.ends = "no-spawn"}

AskPane ==
  [kind: Kinds, pane: SUBSET {"trust", "auth", "reconnecting", "broker-url", "session-url"}]
-----------------------------------------------------------------------------
(* The texts of at most MaxLines of these lines. *)
Line(kind, indent, key, leaf) == [kind |-> kind, indent |-> indent, key |-> key, leaf |-> leaf]

Lines ==
  {Line("entry", 0, "servers", FALSE), Line("entry", 0, "default_server", TRUE),
   Line("entry", 2, "a", FALSE), Line("entry", 2, "b", FALSE),
   Line("entry", 2, "control_token", TRUE), Line("entry", 4, "control_token", TRUE),
   Line("entry", 6, "control_token", TRUE), Line("entry", 4, "a", FALSE),
   Line("comment", 0, "", TRUE)}

AllTexts == SeqsUpTo(Lines, MaxLines)

Names == <<"a", "b", "control_token">>
-----------------------------------------------------------------------------
(* The names and sessions of at most MaxWord of these characters. *)
Safe == {"x", "ssh", "-t", "-o", "StrictHostKeyChecking=yes", "UserKnownHostsFile=", "@",
         "-p", "port", "tmux", "attach"}
Unsafe == {T!Apostrophe, T!Backslash, T!DoubleQuote, T!Space, "$"}
Placeholders == {"{cmd}", "{shed}"}
AllChars == Safe \cup Unsafe \cup Placeholders

Words == SeqsUpTo({"x"} \cup Unsafe \cup Placeholders, MaxWord)

AllAsks ==
  [shed: Words, host: {<<"x">>}, known_hosts: {<<"x">>}, session: {Nothing, <<T!Apostrophe>>}]
    \cup [shed: {<<"x">>}, host: {<<"x">>}, known_hosts: {<<"x">>}, session: Words]
-----------------------------------------------------------------------------
(* A behaviour evaluates a function, reads a text or writes a line. *)
NoInput == input = NoValue /\ answer = NoValue
NoText  == text = << >> /\ at = 1 /\ blocks = << >> /\ parsed = {}
NoLine  == /\ asked = Nothing /\ argv = <<<< >>>> /\ word = 1 /\ char = 0
           /\ line = << >> /\ shell = Unread

FunctionsInit ==
  \/ EvalInit /\ NoText /\ NoLine
  \/ about = "config" /\ ReaderInit /\ NoInput /\ NoLine
  \/ about = "line" /\ LineInit /\ NoInput /\ NoText

FunctionsNext ==
  \/ about \notin {"config", "line"} /\ Evaluate /\ UNCHANGED <<readerVars, lineVars>>
  \/ about = "config" /\ ReaderNext /\ UNCHANGED <<evalVars, lineVars>>
  \/ about = "line" /\ LineNext /\ UNCHANGED <<evalVars, readerVars>>

FunctionsSpec == FunctionsInit /\ [][FunctionsNext]_<<evalVars, readerVars, lineVars>>
=============================================================================
