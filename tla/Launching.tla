----------------------------- MODULE Launching ------------------------------
(***************************************************************************)
(* The commands the application builds to reach a shed, as pure functions: *)
(* the ssh line of a terminal and how a terminal is opened with it         *)
(* (core/shed-core/src/terminal.rs, resolve_pref in termctl.rs), and the   *)
(* contract with the guest's shed-ext-rc (core/shed-core/src/rc.rs):       *)
(* kickoff prompt, argv, ssh argv, exit codes and the reading of a pane.   *)
(*                                                                         *)
(* A word is a sequence of characters, the special ones by their names; a  *)
(* fixed piece of text that needs no quoting is one character.             *)
(***************************************************************************)
EXTENDS Integers, Sequences, FiniteSets, SequencesExt

CONSTANTS
  NoValue,     \* Option::None
  SafeChars,   \* characters that shell_quote leaves alone
  PromptCap    \* the limit on a prompt, in bytes

Apostrophe == "apostrophe"
Backslash == "backslash"
DoubleQuote == "quote"
Space == "space"
Newline == "newline"
Control == "control"
Wide == "wide"   \* a character of two bytes

(* str::replace, for a pattern of one character. *)
Replace(s, c, by) == FlattenSeq([i \in DOMAIN s |-> IF s[i] = c THEN by ELSE <<s[i]>>])

(* str::trim. *)
Whitespace == {Space, Newline}
Trim(s) ==
  LET kept == {i \in DOMAIN s : s[i] \notin Whitespace}
  IN  IF kept = {} THEN << >>
      ELSE SubSeq(s, CHOOSE i \in kept : \A j \in kept : i <= j,
                     CHOOSE i \in kept : \A j \in kept : j <= i)
-----------------------------------------------------------------------------
(* Mutant of needs_quotes: a word of no characters needs none. *)
needs_quotes_NoEmpty(s) == \E i \in DOMAIN s : s[i] \notin SafeChars

needs_quotes(s) == s = << >> \/ \E i \in DOMAIN s : s[i] \notin SafeChars

(* A character within single quotes: an apostrophe has to leave them. *)
within_quotes(c) ==
  IF c = Apostrophe THEN <<Apostrophe, Backslash, Apostrophe, Apostrophe>> ELSE <<c>>

shell_quote(s) ==
  IF ~needs_quotes(s) THEN s
  ELSE <<Apostrophe>> \o FlattenSeq([i \in DOMAIN s |-> within_quotes(s[i])]) \o <<Apostrophe>>

(* The words quoted and joined with spaces. *)
Quoted(argv) ==
  FlattenSeq([i \in DOMAIN argv |->
                (IF i = 1 THEN << >> ELSE <<Space>>) \o shell_quote(argv[i])])

ssh_host_key_opts(known_hosts) ==
  <<<<"-o">>, <<"StrictHostKeyChecking=yes">>, <<"-o">>,
    <<"UserKnownHostsFile=">> \o known_hosts>>

Given(s) == s # NoValue /\ s # << >>

ssh_command(shed, host, known_hosts, session) ==
  LET argv == <<<<"ssh">>, <<"-t">>>> \o ssh_host_key_opts(known_hosts)
                \o <<shed \o <<"@">> \o host, <<"-p">>, <<"port">>>>
                \o (IF Given(session) THEN <<<<"tmux">>, <<"attach">>, <<"-t">>, session>>
                    ELSE << >>)
  IN  [argv |-> argv, command |-> Quoted(argv)]

(* rc::ssh_argv: no terminal, and the remote command as one word. *)
ssh_argv(user, host, known_hosts, remote_argv) ==
  <<<<"ssh">>, <<"-o">>, <<"BatchMode=yes">>>> \o ssh_host_key_opts(known_hosts)
    \o <<<<"-o">>, <<"ConnectTimeout">>, <<"-p">>, <<"port">>, user \o <<"@">> \o host,
         <<"--">>, Quoted(remote_argv)>>

(* Mutant of default_terminal: the escaping of the quotes is escaped again. *)
default_terminal_QuoteFirst(cmd, platform) ==
  IF platform = "macos"
  THEN [executable |-> "osascript",
        script |-> Replace(Replace(cmd.command, DoubleQuote, <<Backslash, DoubleQuote>>),
                           Backslash, <<Backslash, Backslash>>)]
  ELSE [executable |-> "x-terminal-emulator", script |-> cmd.command]

(* default_terminal: Terminal through AppleScript, or the system's own. *)
default_terminal(cmd, platform) ==
  IF platform = "macos"
  THEN [executable |-> "osascript",
        script |-> Replace(Replace(cmd.command, Backslash, <<Backslash, Backslash>>),
                           DoubleQuote, <<Backslash, DoubleQuote>>)]
  ELSE [executable |-> "x-terminal-emulator", script |-> cmd.command]

(* resolve_launch: what is run, and the shell text it is given. *)
resolve_launch(preset, cmd, shed, template, scripts_dir, platform) ==
  IF preset = "custom"
  THEN LET t == IF template = NoValue THEN << >> ELSE Trim(template)
       IN  IF t = << >> THEN default_terminal(cmd, platform)
           ELSE [executable |-> "sh",
                 script |-> Replace(Replace(t, "{cmd}", cmd.command), "{shed}", shed)]
  ELSE IF scripts_dir THEN [executable |-> preset, script |-> cmd.command]
  ELSE default_terminal(cmd, platform)

(* TerminalCtl::resolve_pref: an explicit preset brings its own template,  *)
(* and an unknown one is an error.                                         *)
resolve_pref(preset, template, prefs) ==
  IF preset = NoValue THEN <<prefs.preset, prefs.template>>
  ELSE IF preset \in {"ghostty", "roost", "custom"} THEN <<preset, template>>
  ELSE << >>

(* Backend::terminal_preview: the ssh line of a shed on a configured host. *)
terminal_preview(target, shed, session) ==
  IF target = NoValue THEN NoValue
  ELSE ssh_command(shed, target.host, target.known_hosts, session)

(* TerminalCtl::open (and preview, which stops short of spawning): what is *)
(* run, or nothing when there is no such host or preset.                   *)
open(target, shed, session, preset, template, prefs, scripts_dir, platform) ==
  LET cmd  == terminal_preview(target, shed, session)
      pref == resolve_pref(preset, template, prefs)
  IN  IF cmd = NoValue \/ pref = << >> THEN NoValue
      ELSE resolve_launch(pref[1], cmd, shed, pref[2], scripts_dir, platform)

(* The callers of open spawn nothing in test mode. *)
terminal_open(test_mode, opened) == IF test_mode THEN NoValue ELSE opened
-----------------------------------------------------------------------------
(* RcKind. *)
accepts_typed_input(kind) == kind # "claude-broker"

is_safe_rc_value(s) == \A i \in DOMAIN s : s[i] \notin {Newline, Control}

(* str::len. *)
Bytes(s) == Len(s) + Cardinality({i \in DOMAIN s : s[i] = Wide})

(* normalize_rc_prompt: an error, no prompt ({}), or the trimmed one. *)
normalize_rc_prompt(raw, kind) ==
  LET trimmed == IF raw = NoValue THEN << >> ELSE Trim(raw)
  IN  CASE trimmed = << >> -> [ok |-> TRUE, prompt |-> {}]
        [] trimmed # << >> /\ ( \/ ~accepts_typed_input(kind)
                                \/ ~is_safe_rc_value(trimmed)
                                \/ Bytes(trimmed) > PromptCap )
             -> [ok |-> FALSE, prompt |-> {}]
        [] OTHER -> [ok |-> TRUE, prompt |-> {trimmed}]

(* create_argv: the options that depend on the request. *)
create_argv(kind, name, slug, workdir, has_prompt) ==
  <<<<"create">>, <<"--kind">>, <<kind>>, <<"--name">>, name, <<"--slug">>, slug,
    <<"--wait">>>>
    \o (IF Given(workdir) THEN <<<<"--workdir">>, workdir>> ELSE << >>)
    \o (IF has_prompt THEN <<<<"--prompt-stdin">>>> ELSE << >>)

create_invocation(kind, name, slug, workdir, prompt) ==
  LET effective == IF accepts_typed_input(kind) THEN prompt ELSE {}
  IN  [argv |-> create_argv(kind, name, slug, workdir, effective # {}),
       stdin |-> effective]

(* error_from_exit: the binary's own codes; anything else is ssh's or a    *)
(* shell's, told by what it wrote.                                         *)
error_from_exit(code, stderr) ==
  CASE code = 3   -> "SlugTaken"
    [] code = 4   -> "NotFound"
    [] code = 2   -> "BadRequest"
    [] code = 127 -> "MissingBinary"
    [] OTHER      -> IF stderr = "command not found" THEN "MissingBinary" ELSE "Failed"

(* TokioProcessRunner::run: no output if the command cannot be started; a  *)
(* command that overruns the watchdog is killed and exits with 124, one    *)
(* that a signal ended with -1.  What it printed so far is kept.           *)
run(child) ==
  IF child.ends = "no-spawn" THEN NoValue
  ELSE IF child.ends = "overruns"
  THEN [code |-> 124, stderr |-> "timed-out", dto |-> child.dto]
  ELSE [code |-> IF child.code = NoValue THEN -1 ELSE child.code,
        stderr |-> child.stderr, dto |-> child.dto]

(* RcSession: host and shed are the caller's, the rest is the guest's. *)
from_dto(dto, server_name, shed) ==
  [host |-> server_name, shed |-> shed, slug |-> dto.slug, state |-> dto.state, url |-> dto.url,
   display_name |-> IF dto.display_name = NoValue THEN shed \o <<"/">> \o dto.slug
                    ELSE dto.display_name]

composite_id(host, shed, slug) == host \o <<"/">> \o shed \o <<"/">> \o slug

(* The link a session of the test mode gets. *)
synthetic_url(kind) ==
  CASE kind = "claude-broker" -> "broker-url" [] kind = "claude-rc" -> "session-url"
    [] OTHER -> NoValue

(* launch: names and workdirs with control characters, and bad prompts,    *)
(* are refused first; the test mode runs nothing; a session that decodes   *)
(* becomes a row.  The answer is what is run, if anything, the result and  *)
(* the row, if any.                                                        *)
launch(server_name, shed, kind, display_name, slug, workdir, raw, test_mode, child) ==
  LET name == IF display_name = NoValue THEN shed \o <<"/">> \o slug ELSE display_name
      n    == normalize_rc_prompt(raw, kind)
      call == {create_invocation(kind, name, slug, workdir, n.prompt)}
      out  == run(child)
      safe == is_safe_rc_value(name) /\ (workdir = NoValue \/ is_safe_rc_value(workdir))
      Without(c, result) == [call |-> c, result |-> result, row |-> {}]
  IN  IF ~safe \/ ~n.ok THEN Without({}, "BadRequest")
      ELSE IF test_mode
      THEN [call |-> {}, result |-> "ok",
            row |-> {[host |-> server_name, shed |-> shed, slug |-> slug, state |-> "ready",
                      url |-> synthetic_url(kind), display_name |-> name]}]
      ELSE IF out = NoValue THEN Without(call, "Failed")
      ELSE IF out.code # 0 THEN Without(call, error_from_exit(out.code, out.stderr))
      ELSE IF out.dto = NoValue THEN Without(call, "Failed")
      ELSE [call |-> call, result |-> "ok", row |-> {from_dto(out.dto, server_name, shed)}]

(* rc_err of the IPC handlers. *)
rc_err(e) == IF e = "BadRequest" THEN "invalid-param" ELSE "action_failed"

(* extract_url and classify_pane over the marks found in a pane. *)
extract_url(kind, pane) ==
  CASE kind = "claude-broker" /\ "broker-url" \in pane  -> "broker-url"
    [] kind = "claude-rc"     /\ "session-url" \in pane -> "session-url"
    [] OTHER -> NoValue

classify_by_url(url) == [state |-> IF url # NoValue THEN "ready" ELSE "starting", url |-> url]

(* Mutant of classify_pane: the link is looked at first. *)
classify_pane_UrlFirst(kind, pane) ==
  IF kind = "shell"
  THEN [state |-> IF pane = {} THEN "starting" ELSE "ready", url |-> NoValue]
  ELSE classify_by_url(extract_url(kind, pane))

classify_pane(kind, pane) ==
  LET url == extract_url(kind, pane)
  IN  CASE kind # "shell" /\ "trust" \in pane -> [state |-> "needs-trust", url |-> url]
        [] kind # "shell" /\ "trust" \notin pane /\ "auth" \in pane
             -> [state |-> "needs-auth", url |-> url]
        [] kind = "claude-broker" /\ pane \cap {"trust", "auth"} = {}
             /\ "reconnecting" \in pane -> [state |-> "reconnecting", url |-> url]
        [] kind = "shell" -> [state |-> IF pane = {} THEN "starting" ELSE "ready",
                              url |-> NoValue]
        [] OTHER -> classify_by_url(url)
=============================================================================
