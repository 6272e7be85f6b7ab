---------------------------- MODULE ConfigReader ----------------------------
(***************************************************************************)
(* The reader of ~/.shed/config.yaml (core/shed-core/src/config.rs): the   *)
(* recursive descent of yaml_lite over the lines of the file, a step per   *)
(* line, and ShedConfig::parse, which makes servers of what was read.      *)
(*                                                                         *)
(* A line is its kind, its indentation, its key, and whether it has a      *)
(* value; the value itself is told by the place of the line.  The calls of *)
(* build that are under way are the open blocks, innermost last.  The code *)
(* drops the lines without an entry before it builds; here they are passed *)
(* over where they stand.                                                  *)
(***************************************************************************)
EXTENDS Integers, Sequences

CONSTANTS
  Texts,        \* the files
  Absent,       \* a field that is not given: the empty string, or None
  NameOrder,    \* the names a server may have, in order
  Step          \* how much deeper than its opener a block of a tidy file is

TextLine == [kind: {"entry", "comment"}, indent: Nat, key: STRING, leaf: BOOLEAN]

ASSUME TextAssumption == Texts \subseteq Seq(TextLine)
ASSUME AbsentAssumption == Absent \notin Nat
ASSUME StepAssumption == Step \in Nat \ {0}

VARIABLES
  text,     \* the lines of the file
  at,       \* the next line
  blocks,   \* the calls of build under way
  parsed    \* {} or {ShedConfig}

readerVars == <<text, at, blocks, parsed>>

(* A block: the line that opened it (0 for the file), its indentation, and *)
(* the indentation of its own lines once the first of them is seen.        *)
Block(opener, parent) == [opener |-> opener, parent |-> parent, child |-> {}, map |-> << >>]

(* HashMap::insert: a later key replaces an earlier one. *)
Put(map, key, node) == [k \in DOMAIN map \cup {key} |-> IF k = key THEN node ELSE map[k]]

(* Node: a scalar is the place of its line. *)
Scalar(i) == [line |-> i]
Map(map) == [map |-> map]
is_map(node) == "map" \in DOMAIN node

ReaderInit ==
  /\ text \in Texts
  /\ at = 1
  /\ blocks = <<Block(0, -1)>>
  /\ parsed = {}
-----------------------------------------------------------------------------
Top == blocks[Len(blocks)]
WithTop(b) == [blocks EXCEPT ![Len(blocks)] = b]

Entry(i) == i \in DOMAIN text /\ text[i].kind = "entry"

(* Blank lines, comments and lines without a colon. *)
Passes ==
  /\ blocks # << >> /\ at \in DOMAIN text /\ ~Entry(at)
  /\ at' = at + 1
  /\ UNCHANGED <<text, blocks, parsed>>

(* Mutant of BlockEnds: a block goes on over lines as deep as its parent. *)
BlockEnds_TooFar == at > Len(text) \/ (Entry(at) /\ text[at].indent < Top.parent)

BlockEnds == at > Len(text) \/ (Entry(at) /\ text[at].indent <= Top.parent)

(* The first line of a block sets the indentation of its lines. *)
Fits == Top.child \subseteq {text[at].indent}

(* A line deeper than expected that no key opened, or too shallow. *)
Skips ==
  /\ blocks # << >> /\ Entry(at) /\ ~BlockEnds /\ ~Fits
  /\ at' = at + 1
  /\ UNCHANGED <<text, blocks, parsed>>

ReadsScalar ==
  /\ blocks # << >> /\ Entry(at) /\ ~BlockEnds /\ Fits /\ text[at].leaf
  /\ blocks' = WithTop([Top EXCEPT !.child = {text[at].indent},
                                   !.map = Put(@, text[at].key, Scalar(at))])
  /\ at' = at + 1
  /\ UNCHANGED <<text, parsed>>

OpensBlock ==
  /\ blocks # << >> /\ Entry(at) /\ ~BlockEnds /\ Fits /\ ~text[at].leaf
  /\ blocks' = Append(WithTop([Top EXCEPT !.child = {text[at].indent}]),
                      Block(at, text[at].indent))
  /\ at' = at + 1
  /\ UNCHANGED <<text, parsed>>

(* A call of build returns, and its caller inserts the block. *)
ClosesBlock ==
  /\ Len(blocks) > 1 /\ BlockEnds
  /\ LET outer == blocks[Len(blocks) - 1]
     IN  blocks' = Append(SubSeq(blocks, 1, Len(blocks) - 2),
                          [outer EXCEPT !.map = Put(@, text[Top.opener].key, Map(Top.map))])
  /\ UNCHANGED <<text, at, parsed>>
-----------------------------------------------------------------------------
(* Node::as_scalar with a default. *)
scalar(map, key, default) ==
  IF key \in DOMAIN map /\ ~is_map(map[key]) THEN map[key].line ELSE default

(* Ports are not told apart; a host that is not given is the server's name. *)
Server(name, fields) ==
  [name |-> name,
   host |-> scalar(fields, "host", Absent),
   control_token |-> scalar(fields, "control_token", Absent),
   api_url |-> scalar(fields, "api_url", Absent),
   tls_cert_fingerprint |-> scalar(fields, "tls_cert_fingerprint", Absent)]

(* ShedConfig::parse, with the servers sorted by name: each has the place  *)
(* of its name in the order.                                               *)
ShedConfig(top) ==
  LET block == IF "servers" \in DOMAIN top /\ is_map(top["servers"])
               THEN top["servers"].map ELSE << >>
  IN  [servers |-> [i \in {j \in DOMAIN NameOrder : /\ NameOrder[j] \in DOMAIN block
                                                    /\ is_map(block[NameOrder[j]])}
                      |-> Server(NameOrder[i], block[NameOrder[i]].map)],
       default_server |-> scalar(top, "default_server", Absent)]

(* The outermost call returns: every indentation is deeper than its -1. *)
parse ==
  /\ Len(blocks) = 1 /\ BlockEnds
  /\ parsed' = {ShedConfig(Top.map)}
  /\ blocks' = << >>
  /\ UNCHANGED <<text, at>>

ReaderNext == Passes \/ Skips \/ ReadsScalar \/ OpensBlock \/ ClosesBlock \/ parse

ReaderSpec == ReaderInit /\ [][ReaderNext]_readerVars
-----------------------------------------------------------------------------
(* Line i stands in the block that line j opens. *)
Within(i, j) ==
  /\ Entry(i) /\ Entry(j) /\ j < i /\ ~text[j].leaf
  /\ \A m \in j + 1..i : Entry(m) => text[m].indent > text[j].indent

(* Line i gives the field of the server: it is in the server's block of    *)
(* the list of servers, under that key.                                    *)
OfServer(i, field, name) ==
  /\ Entry(i) /\ text[i].key = field
  /\ \E j, k \in DOMAIN text :
       Within(i, j) /\ Within(j, k) /\ text[k].key = "servers" /\ text[j].key = name

ServersOf(config) == {config.servers[i] : i \in DOMAIN config.servers}

(* A field of a server (its token and its pin among them) is read from the *)
(* block of that server and from no other, however the lines are indented. *)
FieldsStayInTheirServer ==
  \A config \in parsed : \A s \in ServersOf(config) :
    \A f \in {"host", "control_token", "api_url", "tls_cert_fingerprint"} :
      s[f] # Absent => OfServer(s[f], f, s.name)

(* A text as the shed CLI writes it: servers and their fields, every line  *)
(* one Step below the line that opens its block, and no key twice.         *)
Regular ==
  /\ \A i \in DOMAIN text : Entry(i) => text[i].indent \in {0, Step, 2 * Step}
  /\ \A i \in DOMAIN text : Entry(i) /\ text[i].indent > 0 =>
       \E j \in DOMAIN text : Within(i, j) /\ text[i].indent = text[j].indent + Step
  /\ \A i, j \in DOMAIN text : Entry(i) /\ Entry(j) /\ text[i].key = text[j].key /\ i # j =>
       /\ text[i].indent = 2 * Step
       /\ \E m \in i + 1..j \cup j + 1..i : Entry(m) /\ text[m].indent = Step

(* In a regular text every field of every server is read. *)
RegularIsRead ==
  \A config \in parsed : Regular =>
    \A i \in DOMAIN text, j \in DOMAIN NameOrder,
       f \in {"host", "control_token", "api_url", "tls_cert_fingerprint"} :
      OfServer(i, f, NameOrder[j]) /\ text[i].leaf =>
        \E s \in ServersOf(config) : s.name = NameOrder[j] /\ s[f] = i

(* yaml_lite and ShedConfig::parse: what the configuration says of its     *)
(* servers the file says, and of a regular file the converse too.          *)
ServersAsWritten == FieldsStayInTheirServer /\ RegularIsRead
=============================================================================
