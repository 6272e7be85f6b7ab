---------------------------- MODULE CommandLine -----------------------------
(***************************************************************************)
(* The line of text that ssh_command and rc::ssh_argv make of the words of *)
(* a command (core/shed-core/src/terminal.rs), written piece by piece, and *)
(* a POSIX shell that reads it: the local one of a terminal, or the remote *)
(* one that ssh hands its last argument to.                                *)
(***************************************************************************)
EXTENDS Integers, Sequences, SequencesExt

CONSTANTS
  Nothing,     \* Option::None
  Plain,       \* the characters that shell_quote leaves alone
  Alphabet,    \* the characters of a word
  Special,     \* the characters that mean something to a shell, unquoted
  Asks         \* the names and sessions that a terminal is asked for

T == INSTANCE Launching WITH NoValue <- Nothing, SafeChars <- Plain, PromptCap <- 0

Word == Seq(Alphabet)

ASSUME SpecialAssumption ==
  /\ {T!Apostrophe, T!Backslash, T!DoubleQuote, T!Space} \subseteq Special
  /\ Plain \cap Special = {}
ASSUME FixedTextAssumption ==
  {"ssh", "-t", "-o", "StrictHostKeyChecking=yes", "UserKnownHostsFile=", "@", "-p", "port",
   "tmux", "attach"} \subseteq Alphabet
ASSUME AsksAssumption ==
  Asks \subseteq [shed: Word, host: Word, known_hosts: Word, session: Word \cup {Nothing}]

VARIABLES
  asked,   \* what the terminal is for
  argv,    \* the words to be quoted
  word,    \* the word that is next
  char,    \* the next character of it; 0 before the word is begun
  line,    \* what is written
  shell    \* what the shell has made of that

lineVars == <<asked, argv, word, char, line, shell>>
-----------------------------------------------------------------------------
(* The shell: complete words, the one it is in, and how it reads on.  What *)
(* it would expand nobody meant.                                           *)
Unread == [done |-> << >>, word |-> << >>, mode |-> "between"]

Adds(st, c, mode) == [st EXCEPT !.word = Append(@, c), !.mode = mode]

shell_reads(st, c) ==
  CASE st.mode = "expanded" -> st
    [] st.mode = "escaped" -> Adds(st, c, "plain")
    [] st.mode = "quoted" /\ c # T!Apostrophe -> Adds(st, c, "quoted")
    [] st.mode = "quoted" /\ c = T!Apostrophe -> [st EXCEPT !.mode = "plain"]
    [] st.mode \in {"between", "plain"} /\ c = T!Apostrophe -> [st EXCEPT !.mode = "quoted"]
    [] st.mode \in {"between", "plain"} /\ c = T!Backslash -> [st EXCEPT !.mode = "escaped"]
    [] st.mode = "between" /\ c = T!Space -> st
    [] st.mode = "plain" /\ c = T!Space ->
         [done |-> Append(st.done, st.word), word |-> << >>, mode |-> "between"]
    [] st.mode \in {"between", "plain"} /\ c \notin Special -> Adds(st, c, "plain")
    [] OTHER -> [st EXCEPT !.mode = "expanded"]

(* Nothing is pending, and these are the words. *)
ShellHas(st, words) ==
  \/ st.mode = "between" /\ words = st.done
  \/ st.mode = "plain" /\ words = Append(st.done, st.word)

(* A piece has at most four characters. *)
ReadsNth(st, piece, n) == IF n \in DOMAIN piece THEN shell_reads(st, piece[n]) ELSE st
ReadsPiece(st, piece) ==
  ReadsNth(ReadsNth(ReadsNth(ReadsNth(st, piece, 1), piece, 2), piece, 3), piece, 4)
-----------------------------------------------------------------------------
TerminalArgv(a) == T!ssh_command(a.shed, a.host, a.known_hosts, a.session).argv

(* The line of a terminal, or a remote command that takes the name. *)
LineInit ==
  /\ asked \in Asks
  /\ argv \in {TerminalArgv(asked), <<asked.shed, asked.host>>}
  /\ word = 1 /\ char = 0
  /\ line = << >> /\ shell = Unread

Writes(piece) ==
  /\ line' = line \o piece
  /\ shell' = ReadsPiece(shell, piece)
  /\ UNCHANGED <<asked, argv>>

Quotes(s) == IF T!needs_quotes(s) THEN <<T!Apostrophe>> ELSE << >>

BeginsWord ==
  /\ word <= Len(argv) /\ char = 0
  /\ Writes((IF word = 1 THEN << >> ELSE <<T!Space>>) \o Quotes(argv[word]))
  /\ char' = 1
  /\ UNCHANGED word

CopiesChar ==
  /\ word <= Len(argv) /\ char \in 1..Len(argv[word])
  /\ LET c == argv[word][char]
     IN  Writes(IF T!needs_quotes(argv[word]) THEN T!within_quotes(c) ELSE <<c>>)
  /\ char' = char + 1
  /\ UNCHANGED word

EndsWord ==
  /\ word <= Len(argv) /\ char = Len(argv[word]) + 1
  /\ Writes(Quotes(argv[word]))
  /\ word' = word + 1 /\ char' = 0

LineNext == BeginsWord \/ CopiesChar \/ EndsWord

LineSpec == LineInit /\ [][LineNext]_lineVars

Written == word > Len(argv)
-----------------------------------------------------------------------------
(* "The command line re-parses to the same argv": whatever is in a name or *)
(* a session, the shell splits the line into exactly the words it was made *)
(* of, with nothing expanded and no quote left open.                       *)
LineReparses == Written => ShellHas(shell, argv)

(* How AppleScript reads a string literal. *)
literal_reads(st, c) ==
  CASE st.mode = "escaped" -> [read |-> Append(st.read, c), mode |-> "plain"]
    [] st.mode = "plain" /\ c = T!Backslash -> [st EXCEPT !.mode = "escaped"]
    [] st.mode = "plain" /\ c \notin {T!Backslash, T!DoubleQuote} ->
         [st EXCEPT !.read = Append(@, c)]
    [] OTHER -> [st EXCEPT !.mode = "closed"]

Literal(s) == FoldLeft(literal_reads, [read |-> << >>, mode |-> "plain"], s).read

(* What a user may have typed as a template, one with the name as a title. *)
Templates == {Nothing, <<T!Space>>, <<"{cmd}">>, <<"{shed}", T!Space, "{cmd}">>}

(* The ways to open the terminal, with the template that each resolves to. *)
Openings ==
  {[opened |-> T!terminal_open(FALSE, T!open([host |-> asked.host, known_hosts |-> asked.known_hosts],
                 asked.shed, asked.session, preset, template, prefs, scripts, platform)),
    template |-> T!resolve_pref(preset, template, prefs)[2]] :
     preset \in {Nothing, "custom", "roost"}, template \in Templates,
     prefs \in [preset: {"custom", "ghostty"}, template: Templates],
     scripts \in BOOLEAN, platform \in {"macos", "linux"}}

HasName(s) == \E i \in DOMAIN s : s[i] = "{shed}"

(* However a terminal is opened, with a preset's script, a template of the *)
(* user's or AppleScript, the shell in it gets the words of the ssh        *)
(* command, after the title if the template has one; and the remote shell  *)
(* those of the remote command, which ssh is given as its last word.  A    *)
(* template is filled in two steps and {shed} as it is, so that the words  *)
(* are kept only if none of them has the text {shed} in it, and a title    *)
(* only if the name needs no quotes.                                       *)
QuotedReparses ==
  Written =>
    LET Same(script, words) == ShellHas(FoldLeft(shell_reads, Unread, script), words)
        words == TerminalArgv(asked)
        ssh == T!ssh_argv(asked.host, asked.host, asked.known_hosts, argv)
    IN  /\ \A o \in Openings :
             LET filled == o.opened.executable = "sh"
                 titled == filled /\ HasName(o.template)
             IN  \/ filled /\ \E i \in DOMAIN words : HasName(words[i])
                 \/ titled /\ T!needs_quotes(asked.shed)
                 \/ Same(IF o.opened.executable = "osascript" THEN Literal(o.opened.script)
                         ELSE o.opened.script,
                         (IF titled THEN <<asked.shed>> ELSE << >>) \o words)
        /\ line = ssh[Len(ssh)] /\ Same(line, argv)
=============================================================================
