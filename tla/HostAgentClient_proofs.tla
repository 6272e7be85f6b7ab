----------------------- MODULE HostAgentClient_proofs -----------------------
(***************************************************************************)
(* Proofs about HostAgentClient: the inductive invariant behind what the   *)
(* callers and the coordinator rely on, for any number of calls,           *)
(* connections, frames and queued events.  start() is called at most once, *)
(* as the application does: a second start() over an aborted loop that is  *)
(* between two awaits leaves two loops to one writer.                      *)
(***************************************************************************)
EXTENDS HostAgentClient, TLAPS

(* A line that asks for a token names the call. *)
LinesNamed ==
  \A c \in DOMAIN conns : \A n \in DOMAIN conns[c].outbox :
    conns[c].outbox[n].kind = "token_get" => conns[c].outbox[n].of \in Calls

(* What an event tells of a connection: that it lives, or its end. *)
Alive(e) == e.kind \in {"Connected", "Frame"}
EndOf(q) == [kind |-> "Disconnected", conn |-> q]

(* Who holds the connection: the loop that reads it or tears it down. *)
Held(i) == loops[i].pc \in {"reading", "closing"}

(* Where the one loop stands, and what it then has to do with the writer. *)
LoopFits(i) ==
  /\ loops[i].pc \in {"established", "reading", "closing"} => loops[i].conn \in DOMAIN conns
  /\ loops[i].pc \in {"connecting", "sleeping", "established"} => writer = None
  /\ Held(i) => writer = (IF running THEN loops[i].conn ELSE None)
  /\ loops[i].pc \in Awaiting => running
  /\ running => ~loops[i].aborted /\ loops[i].pc # "done"
  /\ ~running => loops[i].aborted

OneLoop ==
  /\ Len(loops) <= 1
  /\ loops = << >> => ~running /\ writer = None /\ conns = << >>
  /\ \A i \in DOMAIN loops : LoopFits(i)

(* A caller waits with its sender registered, on the writer's connection. *)
Waiting ==
  \A k \in Calls : calls[k].st = "waiting" =>
    k \in pending /\ calls[k].conn = writer /\ writer # None

(* Events are about connections that were made; before the loop starts     *)
(* there is none to show.                                                  *)
EventsKnown ==
  /\ \A n \in DOMAIN events : /\ events[n].conn <= Len(conns)
                              /\ Alive(events[n]) => events[n].conn # None
  /\ indicator => loops # << >>

(* The end of connection q comes after the n-th event. *)
EndsAfter(q, n) == \E l \in DOMAIN events : l > n /\ events[l] = EndOf(q)

(* The connections with a prompt, or an event, or served by the            *)
(* coordinator: each is the one the loop holds, or its end is queued.  It  *)
(* is so as long as the loop may still connect, or a writer is installed.  *)
Accounted(q, n) ==
  \/ \E i \in DOMAIN loops : Held(i) /\ loops[i].conn = q
  \/ EndsAfter(q, n)

Open == writer # None \/ \E i \in DOMAIN loops : loops[i].pc # "done"

EndsQueued ==
  Open => /\ \A n \in DOMAIN events : Alive(events[n]) => Accounted(events[n].conn, n)
          /\ \A q \in prompts : Accounted(q, 0)
          /\ serving # None => Accounted(serving, 0)
          /\ indicator => \E q \in DOMAIN conns : Accounted(q, 0)

(* The queue goes from one connection to another only over an end. *)
Succession ==
  \A n \in DOMAIN events : Alive(events[n]) =>
    /\ \A m \in 1..(n - 1) :
         Alive(events[m]) /\ events[m].conn # events[n].conn =>
           \E l \in (m + 1)..(n - 1) : events[l].kind = "Disconnected"
    /\ serving \notin {None, events[n].conn} =>
         \E l \in 1..(n - 1) : events[l].kind = "Disconnected"

IInv ==
  /\ TypeOK /\ LinesNamed /\ OneLoop /\ Waiting
  /\ EventsKnown /\ EndsQueued /\ Succession
-----------------------------------------------------------------------------
(* Replacing one connection of the sequence, or adding one. *)
LEMMA ConnReplaced ==
  ASSUME conns \in Seq(Conn), NEW c \in DOMAIN conns, NEW x \in Conn,
         conns' = [conns EXCEPT ![c] = x]
  PROVE  /\ conns' \in Seq(Conn) /\ Len(conns') = Len(conns)
         /\ DOMAIN conns' = DOMAIN conns /\ conns'[c] = x
         /\ \A d \in DOMAIN conns : d # c => conns'[d] = conns[d]
  OBVIOUS

(* A step that replaces the connection c by one whose outbox still names   *)
(* its calls keeps the connections well formed.                            *)
LEMMA ConnKept ==
  ASSUME IInv, NEW c \in DOMAIN conns, NEW x \in Conn,
         conns' = [conns EXCEPT ![c] = x],
         \A n \in DOMAIN x.outbox : x.outbox[n].kind = "token_get" => x.outbox[n].of \in Calls
  PROVE  conns' \in Seq(Conn) /\ Len(conns') = Len(conns) /\ LinesNamed'
<1>1. conns \in Seq(Conn)
  BY DEF IInv, TypeOK
<1>2. /\ conns' \in Seq(Conn) /\ Len(conns') = Len(conns)
      /\ DOMAIN conns' = DOMAIN conns /\ conns'[c] = x
      /\ \A d \in DOMAIN conns : d # c => conns'[d] = conns[d]
  BY <1>1, ConnReplaced
<1>3. QED BY <1>2 DEF IInv, LinesNamed

(* A line is put into the outbox of a connection. *)
LEMMA PushKeeps ==
  ASSUME IInv, NEW c \in DOMAIN conns, NEW line \in Line,
         line.kind = "token_get" => line.of \in Calls,
         NEW k \in Conn, k.outbox = conns[c].outbox,
         conns' = [conns EXCEPT ![c] = [k EXCEPT !.outbox = Append(k.outbox, line)]]
  PROVE  conns' \in Seq(Conn) /\ Len(conns') = Len(conns) /\ LinesNamed'
<1> DEFINE x == [k EXCEPT !.outbox = Append(k.outbox, line)]
<1>1. k.outbox \in Seq(Line) /\ Append(k.outbox, line) \in Seq(Line)
  BY DEF Conn
<1>2. x \in Conn /\ x.outbox = Append(k.outbox, line)
  BY <1>1 DEF Conn
<1>3. \A n \in DOMAIN k.outbox : k.outbox[n].kind = "token_get" => k.outbox[n].of \in Calls
  BY DEF IInv, LinesNamed
<1>4. \A n \in DOMAIN x.outbox : x.outbox[n].kind = "token_get" => x.outbox[n].of \in Calls
  BY <1>1, <1>2, <1>3
<1> HIDE DEF x
<1>5. QED
  <2>1. conns' = [conns EXCEPT ![c] = x]
    BY DEF x
  <2>2. QED BY <1>2, <1>4, <2>1, ConnKept

(* The connections stay well formed, whoever writes, reads or sends; only  *)
(* a new connection adds to them.                                          *)
LEMMA StepConns ==
  ASSUME IInv, [Next]_vars
  PROVE  /\ conns' \in Seq(Conn) /\ LinesNamed'
         /\ \/ Len(conns') = Len(conns)
            \/ \E i \in DOMAIN loops, peer \in Peers : Connects(i, peer)
<1>1. /\ conns \in Seq(Conn) /\ LinesNamed /\ OneLoop /\ writer \in 0..Len(conns)
      /\ prompts \subseteq 1..Len(conns)
  BY DEF IInv, TypeOK
<1>2. CASE conns' = conns
  BY <1>1, <1>2 DEF LinesNamed
<1>3. ASSUME NEW i \in DOMAIN loops, Installs(i) PROVE conns' \in Seq(Conn) /\ LinesNamed' /\ Len(conns') = Len(conns)
  <2> DEFINE c == loops[i].conn
  <2>1. c \in DOMAIN conns
    BY <1>1, <1>3 DEF OneLoop, LoopFits, Installs
  <2>2. conns[c] \in Conn
    BY <1>1, <2>1
  <2>3. LineOf("hello", None) \in Line /\ LineOf("hello", None).kind # "token_get"
    BY DEF LineOf, Line, None
  <2>4. conns' = [conns EXCEPT ![c] = [conns[c] EXCEPT !.outbox = Append(conns[c].outbox, LineOf("hello", None))]]
    BY <1>3 DEF Installs, Push
  <2> HIDE DEF c
  <2>5. QED BY <2>1, <2>2, <2>3, <2>4, PushKeeps
<1>4. ASSUME NEW i \in DOMAIN loops, read_frames(i) PROVE conns' \in Seq(Conn) /\ LinesNamed' /\ Len(conns') = Len(conns)
  <2> DEFINE c == loops[i].conn
             k == [conns[c] EXCEPT !.inbox = Tail(conns[c].inbox)]
             p == LineOf("pong", None)
  <2>1. c \in DOMAIN conns
    BY <1>1, <1>4 DEF OneLoop, LoopFits, read_frames
  <2>2. conns[c] \in Conn /\ Tail(conns[c].inbox) \in Seq(Frame)
    <3>1. conns[c] \in Conn /\ conns[c].inbox # << >>
      BY <1>1, <2>1, <1>4 DEF read_frames
    <3>2. conns[c].inbox \in Seq(Frame)
      BY <3>1 DEF Conn
    <3>3. QED BY <3>1, <3>2
  <2>3. k \in Conn /\ k.outbox = conns[c].outbox
    BY <2>2 DEF Conn
  <2>4. p \in Line /\ p.kind # "token_get"
    BY DEF LineOf, Line, None
  <2>5. \/ conns' = [conns EXCEPT ![c] = k]
        \/ conns' = [conns EXCEPT ![c] = [k EXCEPT !.outbox = Append(k.outbox, p)]]
    <3>1. \/ conns' = [conns EXCEPT ![c].inbox = Tail(@)]
          \/ conns' = [[conns EXCEPT ![c].inbox = Tail(@)] EXCEPT ![c].outbox = Append(@, p)]
      BY <1>4 DEF read_frames
    <3>2. QED BY <3>1, <2>1, <1>1
  <2>6. \A n \in DOMAIN k.outbox : k.outbox[n].kind = "token_get" => k.outbox[n].of \in Calls
    BY <1>1, <2>1, <2>3 DEF LinesNamed
  <2> HIDE DEF c, k, p
  <2>7. CASE conns' = [conns EXCEPT ![c] = k]
    BY <2>1, <2>3, <2>6, <2>7, ConnKept
  <2>8. CASE conns' = [conns EXCEPT ![c] = [k EXCEPT !.outbox = Append(k.outbox, p)]]
    BY <2>1, <2>3, <2>4, <2>8, PushKeeps
  <2>9. QED BY <2>5, <2>7, <2>8
<1>5. ASSUME NEW c \in DOMAIN conns, NEW b \in BOOLEAN,
             \/ conns' = [conns EXCEPT ![c].wtask = b]
             \/ conns' = [conns EXCEPT ![c].up = b]
      PROVE conns' \in Seq(Conn) /\ LinesNamed' /\ Len(conns') = Len(conns)
  <2> DEFINE y == [conns[c] EXCEPT !.wtask = b]
             z == [conns[c] EXCEPT !.up = b]
  <2>1. conns[c] \in Conn
    BY <1>1
  <2>2. /\ y \in Conn /\ y.outbox = conns[c].outbox /\ z \in Conn /\ z.outbox = conns[c].outbox
    BY <2>1 DEF Conn
  <2>3. conns' = [conns EXCEPT ![c] = y] \/ conns' = [conns EXCEPT ![c] = z]
    BY <1>5
  <2>4. \A n \in DOMAIN conns[c].outbox : conns[c].outbox[n].kind = "token_get" => conns[c].outbox[n].of \in Calls
    BY <1>1 DEF LinesNamed
  <2> HIDE DEF y, z
  <2>5. QED BY <2>2, <2>3, <2>4, ConnKept
<1>6. ASSUME NEW c \in DOMAIN conns, Writes(c) PROVE conns' \in Seq(Conn) /\ LinesNamed' /\ Len(conns') = Len(conns)
  <2> DEFINE k == conns[c]
             line == Head(k.outbox)
             x == [k EXCEPT !.outbox = Tail(k.outbox),
                            !.asked = IF line.kind = "token_get" THEN k.asked \cup {line.of} ELSE k.asked]
  <2>1. k \in Conn /\ k.outbox # << >> /\ k.outbox \in Seq(Line)
    <3>1. k \in Conn /\ k.outbox # << >>
      BY <1>1, <1>6 DEF Writes
    <3>2. QED BY <3>1 DEF Conn
  <2>2. conns' = [conns EXCEPT ![c] = x]
    BY <1>6 DEF Writes
  <2>3. \A n \in DOMAIN k.outbox : k.outbox[n].kind = "token_get" => k.outbox[n].of \in Calls
    BY <1>1 DEF LinesNamed
  <2>4. line.kind = "token_get" => line.of \in Calls
    BY <2>1, <2>3
  <2>5. Tail(k.outbox) \in Seq(Line) /\ k.asked \in SUBSET Calls
    BY <2>1 DEF Conn
  <2>6. x \in Conn /\ x.outbox = Tail(k.outbox)
    BY <2>1, <2>4, <2>5 DEF Conn
  <2>7. \A n \in DOMAIN Tail(k.outbox) :
          Tail(k.outbox)[n].kind = "token_get" => Tail(k.outbox)[n].of \in Calls
    BY <2>1, <2>3
  <2> HIDE DEF k, line, x
  <2>8. QED BY <2>2, <2>6, <2>7, ConnKept
<1>7. ASSUME NEW c \in DOMAIN conns, NEW f \in AgentFrames(c), AgentSends(c, f)
      PROVE conns' \in Seq(Conn) /\ LinesNamed' /\ Len(conns') = Len(conns)
  <2> DEFINE k == conns[c]
             x == [k EXCEPT !.inbox = Append(k.inbox, f)]
  <2>1. k \in Conn /\ k.inbox \in Seq(Frame) /\ k.asked \subseteq Calls
    <3>1. k \in Conn
      BY <1>1
    <3>2. QED BY <3>1 DEF Conn
  <2>2. f \in Frame /\ Append(k.inbox, f) \in Seq(Frame)
    <3>1. f \in Frame
      BY <2>1, <1>7 DEF AgentFrames, Frame
    <3>2. QED BY <2>1, <3>1
  <2>3. conns' = [conns EXCEPT ![c] = x]
    BY <1>7 DEF AgentSends
  <2>4. x \in Conn /\ x.outbox = k.outbox
    BY <2>1, <2>2 DEF Conn
  <2>5. \A n \in DOMAIN k.outbox : k.outbox[n].kind = "token_get" => k.outbox[n].of \in Calls
    BY <1>1 DEF LinesNamed
  <2> HIDE DEF k, x
  <2>6. QED BY <2>3, <2>4, <2>5, ConnKept
<1>8. ASSUME Writable, NEW line \in Line, line.kind = "token_get" => line.of \in Calls,
             conns' = Push(writer, line)
      PROVE conns' \in Seq(Conn) /\ LinesNamed' /\ Len(conns') = Len(conns)
  <2>1. writer \in DOMAIN conns
    BY <1>1, <1>8 DEF Writable, None
  <2>2. conns[writer] \in Conn
    BY <1>1, <2>1
  <2>3. conns' = [conns EXCEPT ![writer] = [conns[writer] EXCEPT !.outbox = Append(conns[writer].outbox, line)]]
    BY <1>8 DEF Push
  <2>4. QED BY <1>8, <2>1, <2>2, <2>3, PushKeeps
<1>9. ASSUME NEW i \in DOMAIN loops, NEW peer \in Peers, Connects(i, peer)
      PROVE conns' \in Seq(Conn) /\ LinesNamed'
  <2> DEFINE x == [up |-> TRUE, wtask |-> TRUE, inbox |-> << >>, outbox |-> << >>, asked |-> {}]
  <2>1. x \in Conn /\ x.outbox = << >>
    BY DEF Conn
  <2>2. conns' = Append(conns, x)
    BY <1>9 DEF Connects
  <2> HIDE DEF x
  <2>3. conns' \in Seq(Conn)
    BY <1>1, <2>1, <2>2
  <2>4. ASSUME NEW d \in DOMAIN conns' PROVE conns'[d] = x \/ (d \in DOMAIN conns /\ conns'[d] = conns[d])
    BY <1>1, <2>2
  <2>5. DOMAIN x.outbox = {}
    BY <2>1
  <2>6. QED BY <1>1, <2>3, <2>4, <2>5 DEF LinesNamed
<1>10. ASSUME NEW k \in Calls, request_token(k)
       PROVE  conns' \in Seq(Conn) /\ LinesNamed' /\ Len(conns') = Len(conns)
  <2>1. LineOf("token_get", k) \in Line /\ LineOf("token_get", k).of \in Calls
    BY DEF LineOf, Line
  <2>2. QED BY <1>1, <1>8, <1>10, <2>1 DEF request_token, LinesNamed
<1>11. ASSUME NEW q \in prompts, respond(q)
       PROVE  conns' \in Seq(Conn) /\ LinesNamed' /\ Len(conns') = Len(conns)
  <2>1. LineOf("response", q) \in Line /\ LineOf("response", q).kind # "token_get"
    BY <1>1 DEF LineOf, Line
  <2>2. QED BY <1>1, <1>2, <1>8, <1>11, <2>1 DEF respond
<1>12. ASSUME NEW i \in DOMAIN loops, Clears(i)
       PROVE  conns' \in Seq(Conn) /\ LinesNamed' /\ Len(conns') = Len(conns)
  <2>1. loops[i].conn \in DOMAIN conns
    BY <1>1, <1>12 DEF OneLoop, LoopFits, Clears
  <2>2. QED BY <1>5, <1>12, <2>1 DEF Clears
<1>13. QED
  <2>1. CASE \E i \in DOMAIN loops : LoopStep(i)
    <3>1. PICK i \in DOMAIN loops : LoopStep(i)
      BY <2>1
    <3>2. CASE Leaves(i) \/ ConnectFails(i) \/ Ends(i) \/ Wakes(i) \/ \E peer \in Peers : PeerUntrusted(i, peer)
      BY <1>2, <3>2 DEF Leaves, ConnectFails, Ends, Wakes, PeerUntrusted
    <3>3. QED BY <1>3, <1>4, <1>9, <1>12, <3>1, <3>2 DEF LoopStep
  <2>2. CASE start \/ stop \/ handle_host_event
             \/ \E k \in Calls : TimerFires(k) \/ GivesUp(k) \/ CallerCancelled(k)
    BY <1>2, <2>2 DEF start, stop, handle_host_event, TimerFires, GivesUp, CallerCancelled
  <2>3. CASE \E c \in DOMAIN conns : WriteFails(c) \/ AgentDrops(c)
    BY <1>5, <2>3 DEF WriteFails, AgentDrops
  <2>4. CASE UNCHANGED vars
    BY <1>2, <2>4 DEF vars
  <2>5. QED BY <1>6, <1>7, <1>10, <1>11, <2>1, <2>2, <2>3, <2>4 DEF Next
-----------------------------------------------------------------------------
(* With at most one loop, a loop is the only one. *)
LEMMA TheLoop ==
  ASSUME loops \in Seq(Loop), Len(loops) <= 1, NEW i \in DOMAIN loops
  PROVE  Len(loops) = 1 /\ DOMAIN loops = {i}
<1>1. DOMAIN loops = 1..Len(loops) /\ Len(loops) \in Nat
  OBVIOUS
<1>2. i = 1 /\ Len(loops) = 1
  BY <1>1
<1>3. 1..1 = {1}
  OBVIOUS
<1>4. QED BY <1>1, <1>2, <1>3

(* A step of the loop moves that loop only. *)
LEMMA LoopMoves ==
  ASSUME loops \in Seq(Loop), Len(loops) <= 1, NEW i \in DOMAIN loops, NEW x \in Loop,
         loops' = [loops EXCEPT ![i] = x]
  PROVE  /\ loops' \in Seq(Loop) /\ Len(loops') = 1
         /\ DOMAIN loops = {i} /\ DOMAIN loops' = {i} /\ loops'[i] = x
<1>1. Len(loops) = 1 /\ DOMAIN loops = {i}
  BY TheLoop
<1>2. loops' \in Seq(Loop) /\ DOMAIN loops' = DOMAIN loops /\ Len(loops') = Len(loops)
  OBVIOUS
<1>3. QED BY <1>1, <1>2

(* An event of one of these kinds, about c, is put into the queue. *)
Queued(kinds, c) ==
  \E kind \in kinds : events' = Append(events, [kind |-> kind, conn |-> c])

(* What each step of the loop does to the loop, the writer, the number of  *)
(* connections and the queue: it sleeps after a failed attempt, connects,  *)
(* installs the writer, reads, sees the end, tears down, wakes up.         *)
Moves(i) ==
  LET l == loops[i]
      m == loops'[i]
      stays == writer' = writer /\ m.conn = l.conn
  IN  \/ /\ l.pc = "connecting" /\ m.pc = "sleeping" /\ stays
         /\ events' = events \/ Queued({"Untrusted"}, None)
      \/ /\ l.pc = "connecting" /\ m.pc = "established" /\ m.conn = Len(conns')
         /\ Len(conns') = Len(conns) + 1 /\ writer' = writer /\ events' = events
      \/ /\ l.pc = "established" /\ m.pc = (IF l.aborted THEN "done" ELSE "reading")
         /\ m.conn = l.conn /\ writer' = l.conn /\ events' = events
      \/ /\ l.pc = "reading" /\ m.pc = "reading" /\ stays
         /\ events' = events \/ Queued({"Connected", "Frame"}, l.conn)
      \/ l.pc = "reading" /\ m.pc = "closing" /\ stays /\ events' = events
      \/ /\ l.pc = "closing" /\ m.pc = (IF running THEN "sleeping" ELSE "done")
         /\ m.conn = l.conn /\ writer' = None /\ Queued({"Disconnected"}, l.conn)
      \/ l.pc = "sleeping" /\ m.pc = "connecting" /\ stays /\ events' = events

(* A step of the loop is one of these, and is taken by the one loop. *)
LEMMA LoopMoved ==
  ASSUME IInv, NEW i \in DOMAIN loops, LoopStep(i)
  PROVE  /\ loops' \in Seq(Loop) /\ Len(loops') = 1
         /\ DOMAIN loops = {i} /\ DOMAIN loops' = {i}
         /\ loops'[i].aborted = loops[i].aborted
         /\ Moves(i)
         /\ Len(conns') = Len(conns) \/ (loops[i].pc = "connecting" /\ loops'[i].pc = "established")
         /\ running' = running /\ UNCHANGED coordinator
<1> DEFINE l == loops[i]
<1>1. /\ loops \in Seq(Loop) /\ Len(loops) <= 1 /\ LoopFits(i) /\ conns \in Seq(Conn)
      /\ running \in BOOLEAN
  BY DEF IInv, TypeOK, OneLoop
<1>2. l \in Loop
  BY <1>1
<1>3. l.pc \in {"connecting", "established", "reading", "closing", "sleeping", "done"}
      /\ l.conn \in Nat /\ l.aborted \in BOOLEAN
  BY <1>2 DEF Loop
<1>4. ASSUME NEW pc \in {"connecting", "established", "reading", "closing", "sleeping", "done"},
             NEW n \in Nat, loops' = [loops EXCEPT ![i] = [l EXCEPT !.pc = pc, !.conn = n]]
      PROVE  /\ loops' \in Seq(Loop) /\ Len(loops') = 1
             /\ DOMAIN loops = {i} /\ DOMAIN loops' = {i}
             /\ loops'[i].aborted = l.aborted
             /\ loops'[i].pc = pc /\ loops'[i].conn = n
  <2> DEFINE x == [l EXCEPT !.pc = pc, !.conn = n]
  <2>1. x \in Loop /\ x.pc = pc /\ x.conn = n /\ x.aborted = l.aborted
    BY <1>2, <1>3 DEF Loop
  <2>2. loops' = [loops EXCEPT ![i] = x]
    BY <1>4
  <2> HIDE DEF x, l
  <2>3. QED BY <1>1, <2>1, <2>2, LoopMoves
<1>5. ASSUME NEW pc \in {"connecting", "established", "reading", "closing", "sleeping", "done"},
             loops' = [loops EXCEPT ![i].pc = pc]
      PROVE  /\ loops' \in Seq(Loop) /\ Len(loops') = 1
             /\ DOMAIN loops = {i} /\ DOMAIN loops' = {i}
             /\ loops'[i].aborted = l.aborted
             /\ loops'[i].pc = pc /\ loops'[i].conn = l.conn
  <2>1. [l EXCEPT !.pc = pc] = [l EXCEPT !.pc = pc, !.conn = l.conn]
    BY <1>2 DEF Loop
  <2>2. loops' = [loops EXCEPT ![i] = [l EXCEPT !.pc = pc, !.conn = l.conn]]
    BY <1>5, <2>1
  <2> HIDE DEF l
  <2>3. QED BY <1>3, <1>4, <2>2
<1>6. /\ l.pc \in {"connecting", "reading", "sleeping"} => running /\ ~l.aborted
      /\ running => ~l.aborted
      /\ ~running => l.aborted
  BY <1>1 DEF LoopFits, Awaiting
<1>7. CASE Leaves(i)
  BY <1>6, <1>7 DEF Leaves
<1>8. CASE ConnectFails(i) \/ \E peer \in Peers : PeerUntrusted(i, peer)
  <2>1. /\ l.pc = "connecting" /\ loops' = [loops EXCEPT ![i].pc = "sleeping"]
        /\ conns' = conns /\ running' = running /\ writer' = writer /\ UNCHANGED coordinator
        /\ events' = events \/ Queued({"Untrusted"}, None)
    BY <1>6, <1>8 DEF ConnectFails, PeerUntrusted, Reach, Emit, Queued
  <2> HIDE DEF l
  <2>2. /\ loops' \in Seq(Loop) /\ Len(loops') = 1
        /\ DOMAIN loops = {i} /\ DOMAIN loops' = {i} /\ loops'[i].aborted = l.aborted
        /\ loops'[i].pc = "sleeping" /\ loops'[i].conn = l.conn
    BY <1>5, <2>1
  <2>3. QED BY <2>1, <2>2 DEF Moves, l
<1>9. CASE \E peer \in Peers : Connects(i, peer)
  <2>1. /\ l.pc = "connecting"
        /\ loops' = [loops EXCEPT ![i].pc = "established", ![i].conn = Len(conns) + 1]
        /\ running' = running /\ writer' = writer /\ events' = events /\ UNCHANGED coordinator
        /\ Len(conns') = Len(conns) + 1
    BY <1>1, <1>9 DEF Connects
  <2>2. loops' = [loops EXCEPT ![i] = [l EXCEPT !.pc = "established", !.conn = Len(conns) + 1]]
    BY <2>1
  <2>3. Len(conns) + 1 \in Nat
    BY <1>1
  <2> HIDE DEF l
  <2>4. /\ loops' \in Seq(Loop) /\ Len(loops') = 1
        /\ DOMAIN loops = {i} /\ DOMAIN loops' = {i} /\ loops'[i].aborted = l.aborted
        /\ loops'[i].pc = "established" /\ loops'[i].conn = Len(conns) + 1
    BY <1>4, <2>2, <2>3
  <2>5. QED BY <2>1, <2>4 DEF Moves, l
<1>10. CASE Installs(i)
  <2>1. /\ l.pc = "established"
        /\ loops' = [loops EXCEPT ![i].pc = IF l.aborted THEN "done" ELSE "reading"]
        /\ running' = running /\ writer' = l.conn /\ events' = events /\ UNCHANGED coordinator
    BY <1>10 DEF Installs, Reach
  <2>2. Len(conns') = Len(conns)
    BY <1>1, <1>10 DEF Installs, Push
  <2> HIDE DEF l
  <2>3. /\ loops' \in Seq(Loop) /\ Len(loops') = 1
        /\ DOMAIN loops = {i} /\ DOMAIN loops' = {i} /\ loops'[i].aborted = l.aborted
        /\ loops'[i].pc = (IF l.aborted THEN "done" ELSE "reading") /\ loops'[i].conn = l.conn
    BY <1>3, <1>5, <2>1
  <2>4. QED BY <2>1, <2>2, <2>3 DEF Moves, l
<1>11. CASE read_frames(i)
  <2>1. /\ l.pc = "reading" /\ loops' = loops
        /\ running' = running /\ writer' = writer /\ UNCHANGED coordinator
        /\ events' = events \/ Queued({"Connected", "Frame"}, l.conn)
    BY <1>11 DEF read_frames, Emit, Queued
  <2>2. Len(conns') = Len(conns)
    BY <1>1, <1>11 DEF read_frames
  <2>3. Len(loops') = 1 /\ DOMAIN loops = {i} /\ DOMAIN loops' = {i}
    BY <1>1, <2>1, TheLoop
  <2>4. Moves(i)
    BY <2>1 DEF Moves
  <2>5. QED BY <1>1, <2>1, <2>2, <2>3, <2>4
<1>12. CASE Ends(i)
  <2>1. /\ l.pc = "reading" /\ loops' = [loops EXCEPT ![i].pc = "closing"]
        /\ conns' = conns /\ running' = running /\ writer' = writer /\ events' = events
        /\ UNCHANGED coordinator
    BY <1>12 DEF Ends
  <2> HIDE DEF l
  <2>2. /\ loops' \in Seq(Loop) /\ Len(loops') = 1
        /\ DOMAIN loops = {i} /\ DOMAIN loops' = {i} /\ loops'[i].aborted = l.aborted
        /\ loops'[i].pc = "closing" /\ loops'[i].conn = l.conn
    BY <1>5, <2>1
  <2>3. QED BY <2>1, <2>2 DEF Moves, l
<1>13. CASE Clears(i)
  <2>1. /\ l.pc = "closing"
        /\ loops' = [loops EXCEPT ![i].pc = IF running THEN "sleeping" ELSE "done"]
        /\ running' = running /\ writer' = None /\ UNCHANGED coordinator
        /\ Queued({"Disconnected"}, l.conn)
    BY <1>3, <1>6, <1>13 DEF Clears, Reach, Emit, Queued
  <2>2. Len(conns') = Len(conns)
    BY <1>1, <1>13 DEF Clears
  <2> HIDE DEF l
  <2>3. /\ loops' \in Seq(Loop) /\ Len(loops') = 1
        /\ DOMAIN loops = {i} /\ DOMAIN loops' = {i} /\ loops'[i].aborted = l.aborted
        /\ loops'[i].pc = (IF running THEN "sleeping" ELSE "done") /\ loops'[i].conn = l.conn
    BY <1>1, <1>5, <2>1
  <2>4. QED BY <2>1, <2>2, <2>3 DEF Moves, l
<1>14. CASE Wakes(i)
  <2>1. /\ l.pc = "sleeping" /\ loops' = [loops EXCEPT ![i].pc = "connecting"]
        /\ conns' = conns /\ running' = running /\ writer' = writer /\ events' = events
        /\ UNCHANGED coordinator
    BY <1>6, <1>14 DEF Wakes, Reach
  <2> HIDE DEF l
  <2>2. /\ loops' \in Seq(Loop) /\ Len(loops') = 1
        /\ DOMAIN loops = {i} /\ DOMAIN loops' = {i} /\ loops'[i].aborted = l.aborted
        /\ loops'[i].pc = "connecting" /\ loops'[i].conn = l.conn
    BY <1>5, <2>1
  <2>3. QED BY <2>1, <2>2 DEF Moves, l
<1>15. QED BY <1>7, <1>8, <1>9, <1>10, <1>11, <1>12, <1>13, <1>14 DEF LoopStep

(* The first start(): one loop, that connects. *)
LEMMA Started ==
  ASSUME MaxStarts <= 1, IInv, start
  PROVE  /\ loops = << >> /\ loops' \in Seq(Loop) /\ Len(loops') = 1 /\ DOMAIN loops' = {1}
         /\ loops'[1] = [pc |-> "connecting", conn |-> None, aborted |-> FALSE]
<1> DEFINE l == [pc |-> "connecting", conn |-> None, aborted |-> FALSE]
<1>1. loops \in Seq(Loop) /\ Len(loops) = 0
  <2>1. loops \in Seq(Loop) /\ Len(loops) \in Nat
    BY DEF IInv, TypeOK
  <2>2. Len(loops) < 1
    BY <2>1, BoundsAssumption DEF start
  <2>3. QED BY <2>1, <2>2
<1>2. loops = << >>
  BY <1>1
<1>3. [i \in DOMAIN loops |-> Abort(loops[i])] = << >>
  BY <1>2
<1>4. l \in Loop
  BY DEF Loop, None
<1>5. loops' = Append(<< >>, l)
  BY <1>3 DEF start
<1> HIDE DEF l
<1>6. loops' \in Seq(Loop) /\ Len(loops') = 1 /\ loops'[1] = l
  BY <1>4, <1>5
<1>7. DOMAIN loops' = 1..1 /\ 1..1 = {1}
  BY <1>6
<1>8. QED BY <1>2, <1>6, <1>7 DEF l

(* stop(): the loop is aborted, at once if it is at an await. *)
LEMMA Stopped ==
  ASSUME IInv, stop
  PROVE  /\ loops' \in Seq(Loop) /\ Len(loops') = Len(loops) /\ DOMAIN loops' = DOMAIN loops
         /\ \A i \in DOMAIN loops :
              /\ loops'[i].aborted /\ loops'[i].conn = loops[i].conn
              /\ loops'[i].pc = IF loops[i].pc \in Awaiting THEN "done" ELSE loops[i].pc
<1>1. loops \in Seq(Loop)
  BY DEF IInv, TypeOK
<1>2. loops' = [i \in 1..Len(loops) |-> Abort(loops[i])] /\ DOMAIN loops = 1..Len(loops)
  BY <1>1 DEF stop
<1>3. ASSUME NEW i \in 1..Len(loops)
      PROVE  /\ Abort(loops[i]) \in Loop
             /\ Abort(loops[i]).aborted = TRUE /\ Abort(loops[i]).conn = loops[i].conn
             /\ Abort(loops[i]).pc = IF loops[i].pc \in Awaiting THEN "done" ELSE loops[i].pc
  <2>1. loops[i] \in Loop
    BY <1>1
  <2>2. QED BY <2>1 DEF Abort, Loop
<1>4. Len(loops) \in Nat
  BY <1>1
<1>5. loops' \in Seq(Loop) /\ Len(loops') = Len(loops)
  <2>1. loops' \in [1..Len(loops) -> Loop]
    BY <1>2, <1>3
  <2>2. QED BY <1>4, <2>1
<1>6. QED BY <1>2, <1>3, <1>5

(* Every other step leaves the loop and the writer alone. *)
LEMMA StepCases ==
  ASSUME IInv, [Next]_vars
  PROVE  \/ start \/ stop
         \/ \E i \in DOMAIN loops : LoopStep(i)
         \/ /\ UNCHANGED <<running, loops, writer>> /\ Len(conns') = Len(conns)
            /\ \/ handle_host_event
               \/ /\ UNCHANGED <<events, serving, indicator>> /\ prompts' \subseteq prompts
<1>1. ASSUME NEW i \in DOMAIN loops, NEW peer \in Peers, Connects(i, peer)
      PROVE  LoopStep(i)
  BY <1>1 DEF LoopStep
<1>2. Len(conns') = Len(conns) \/ \E i \in DOMAIN loops : LoopStep(i)
  BY <1>1, StepConns
<1>3. CASE UNCHANGED vars
  BY <1>2, <1>3 DEF vars, coordinator
<1>4. CASE \E c \in DOMAIN conns : \/ Writes(c) \/ WriteFails(c) \/ AgentDrops(c)
                                   \/ \E f \in AgentFrames(c) : AgentSends(c, f)
  BY <1>2, <1>4 DEF Writes, WriteFails, AgentDrops, AgentSends, coordinator
<1>5. CASE \E k \in Calls : request_token(k) \/ TimerFires(k) \/ GivesUp(k) \/ CallerCancelled(k)
  BY <1>2, <1>5 DEF request_token, TimerFires, GivesUp, CallerCancelled, coordinator
<1>6. CASE \E q \in prompts : respond(q)
  BY <1>2, <1>6 DEF respond
<1>7. CASE handle_host_event
  BY <1>2, <1>7 DEF handle_host_event
<1>8. QED BY <1>3, <1>4, <1>5, <1>6, <1>7 DEF Next

(* The loop and the writer keep together. *)
LEMMA StepLoop ==
  ASSUME MaxStarts <= 1, IInv, [Next]_vars
  PROVE  /\ running' \in BOOLEAN /\ loops' \in Seq(Loop) /\ writer' \in 0..Len(conns')
         /\ OneLoop'
<1>1. /\ running \in BOOLEAN /\ loops \in Seq(Loop) /\ writer \in 0..Len(conns)
      /\ conns \in Seq(Conn) /\ OneLoop /\ Len(conns) \in Nat
      /\ DOMAIN conns = 1..Len(conns)
  BY DEF IInv, TypeOK
<1>2. /\ conns' \in Seq(Conn) /\ Len(conns') \in Nat /\ DOMAIN conns' = 1..Len(conns')
  BY StepConns
<1>3. CASE start
  <2>1. /\ loops = << >> /\ loops' \in Seq(Loop) /\ Len(loops') = 1 /\ DOMAIN loops' = {1}
        /\ loops'[1] = [pc |-> "connecting", conn |-> None, aborted |-> FALSE]
    BY <1>3, Started
  <2>2. loops'[1].pc = "connecting" /\ loops'[1].aborted = FALSE
    BY <2>1
  <2>3. running' = TRUE /\ writer' = None /\ loops' # << >>
    BY <1>3, <2>1 DEF start
  <2>4. QED BY <1>2, <2>1, <2>2, <2>3 DEF OneLoop, LoopFits, Held, Awaiting, None
<1>4. CASE stop
  <2>1. /\ loops' \in Seq(Loop) /\ Len(loops') = Len(loops) /\ DOMAIN loops' = DOMAIN loops
        /\ \A i \in DOMAIN loops :
              /\ loops'[i].aborted /\ loops'[i].conn = loops[i].conn
              /\ loops'[i].pc = IF loops[i].pc \in Awaiting THEN "done" ELSE loops[i].pc
    BY <1>4, Stopped
  <2>2. running' = FALSE /\ writer' = None /\ conns' = conns /\ running
    BY <1>4 DEF stop
  <2>3. loops # << >> /\ loops' # << >>
    BY <1>1, <2>1, <2>2 DEF OneLoop
  <2>4. ASSUME NEW i \in DOMAIN loops PROVE LoopFits(i)'
    BY <1>1, <2>1, <2>2 DEF OneLoop, LoopFits, Held, Awaiting
  <2>5. Len(loops') <= 1
    BY <1>1, <2>1 DEF OneLoop
  <2>6. writer' \in 0..Len(conns')
    BY <1>2, <2>2 DEF None
  <2>7. QED BY <2>1, <2>2, <2>3, <2>4, <2>5, <2>6 DEF OneLoop
<1>5. ASSUME NEW i \in DOMAIN loops, LoopStep(i)
      PROVE  /\ running' \in BOOLEAN /\ loops' \in Seq(Loop) /\ writer' \in 0..Len(conns')
             /\ OneLoop'
  <2>1. /\ loops' \in Seq(Loop) /\ Len(loops') = 1 /\ DOMAIN loops' = {i}
        /\ loops'[i].aborted = loops[i].aborted /\ Moves(i)
        /\ Len(conns') = Len(conns) \/ (loops[i].pc = "connecting" /\ loops'[i].pc = "established")
        /\ running' = running
    BY <1>5, LoopMoved
  <2>2. LoopFits(i)
    BY <1>1 DEF OneLoop
  <2>3. loops' # << >>
    <3>1. Len(loops') = 1
      BY <2>1
    <3>2. QED BY <3>1
  <2>4. LoopFits(i)'
    <3> DEFINE l == loops[i]
               m == loops'[i]
    <3>1. /\ l.pc = "connecting" => running /\ writer = None
          /\ l.pc = "sleeping" => running /\ writer = None
          /\ l.pc = "established" => l.conn \in DOMAIN conns
          /\ l.pc = "reading" => running /\ writer = l.conn /\ l.conn \in DOMAIN conns
          /\ l.pc = "closing" => l.conn \in DOMAIN conns
          /\ running => ~l.aborted
          /\ ~running => l.aborted
      BY <2>2 DEF LoopFits, Held, Awaiting
    <3>2. /\ m.aborted = l.aborted
          /\ \/ l.pc = "connecting" /\ m.pc = "sleeping" /\ writer' = writer
             \/ l.pc = "connecting" /\ m.pc = "established" /\ m.conn = Len(conns')
                /\ Len(conns') = Len(conns) + 1 /\ writer' = writer
             \/ l.pc = "established" /\ m.pc = (IF l.aborted THEN "done" ELSE "reading")
                /\ m.conn = l.conn /\ writer' = l.conn /\ Len(conns') = Len(conns)
             \/ l.pc = "reading" /\ m.pc \in {"reading", "closing"}
                /\ m.conn = l.conn /\ writer' = writer /\ Len(conns') = Len(conns)
             \/ l.pc = "closing" /\ m.pc = (IF running THEN "sleeping" ELSE "done")
                /\ writer' = None
             \/ l.pc = "sleeping" /\ m.pc = "connecting" /\ writer' = writer
      BY <2>1 DEF Moves
    <3> HIDE DEF l, m
    <3>3. Len(conns) + 1 \in 1..(Len(conns) + 1)
      BY <1>1
    <3>4. Len(conns') = Len(conns) => DOMAIN conns' = DOMAIN conns
      BY <1>1, <1>2
    <3>5. Len(conns') = Len(conns) + 1 => Len(conns') \in DOMAIN conns'
      BY <1>1, <1>2, <3>3
    <3>6. m.pc \in {"established", "reading", "closing"} => m.conn \in DOMAIN conns'
      BY <3>1, <3>2, <3>4, <3>5
    <3>7. /\ m.pc \in {"connecting", "sleeping", "established"} => writer' = None
          /\ m.pc \in {"reading", "closing"} => writer' = (IF running THEN m.conn ELSE None)
          /\ m.pc \in {"connecting", "reading", "sleeping"} => running
          /\ running => ~m.aborted /\ m.pc # "done"
          /\ ~running => m.aborted
      BY <3>1, <3>2
    <3>8. running' = running
      BY <2>1
    <3>9. QED BY <3>7, <3>8, <3>6 DEF LoopFits, Held, Awaiting, m
  <2>5. writer' \in 0..Len(conns')
    <3>1. \/ writer' = writer \/ writer' = None
          \/ writer' = loops[i].conn /\ loops[i].pc = "established"
      BY <2>1 DEF Moves
    <3>2. loops[i].pc = "established" => loops[i].conn \in DOMAIN conns
      BY <2>2 DEF LoopFits
    <3>3. Len(conns') >= Len(conns)
      BY <1>1, <2>1 DEF Moves
    <3>4. QED BY <1>1, <1>2, <3>1, <3>2, <3>3 DEF None
  <2>6. QED BY <1>1, <2>1, <2>3, <2>4, <2>5 DEF OneLoop
<1>6. CASE UNCHANGED <<running, loops, writer>> /\ Len(conns') = Len(conns)
  <2>1. conns = << >> => conns' = << >>
    BY <1>2, <1>6
  <2>2. DOMAIN conns' = DOMAIN conns
    BY <1>1, <1>2, <1>6
  <2>3. QED BY <1>1, <1>6, <2>1, <2>2 DEF OneLoop, LoopFits, Held
<1>7. QED BY <1>3, <1>4, <1>5, <1>6, StepCases
-----------------------------------------------------------------------------
(* Dropping the senders leaves nobody waiting. *)
LEMMA DroppedFacts ==
  ASSUME IInv
  PROVE  /\ Dropped \in [Calls -> Call]
         /\ \A k \in Calls : Dropped[k].st # "waiting"
<1>1. calls \in [Calls -> Call] /\ Waiting
  BY DEF IInv, TypeOK
<1>2. ASSUME NEW k \in Calls PROVE Dropped[k] \in Call /\ Dropped[k].st # "waiting"
  <2>1. calls[k] \in Call
    BY <1>1
  <2>2. QED BY <1>1, <2>1 DEF Dropped, Waiting, Call
<1>3. QED BY <1>2 DEF Dropped

(* A caller that waits keeps its sender, and its connection the writer. *)
LEMMA StepCalls ==
  ASSUME MaxStarts <= 1, IInv, [Next]_vars
  PROVE  /\ pending' \subseteq Calls /\ calls' \in [Calls -> Call]
         /\ \A k \in pending' : calls'[k].st \in {"waiting", "expiring", "cancelled"}
         /\ Waiting'
<1>1. /\ pending \subseteq Calls /\ calls \in [Calls -> Call] /\ Waiting /\ OneLoop
      /\ \A k \in pending : calls[k].st \in {"waiting", "expiring", "cancelled"}
      /\ writer \in Nat
  <2>1. writer \in 0..Len(conns) /\ conns \in Seq(Conn)
    BY DEF IInv, TypeOK
  <2>2. QED BY <2>1 DEF IInv, TypeOK
<1>2. CASE pending' = {} /\ calls' = Dropped
  BY <1>2, DroppedFacts DEF Waiting
<1>3. ASSUME NEW k \in Calls, NEW c \in Call,
             calls' = [calls EXCEPT ![k] = c], writer' = writer,
             \/ pending' = pending \ {k} /\ c.st # "waiting"
             \/ k \in pending' /\ pending' \subseteq pending \cup {k}
                /\ pending \subseteq pending'
                /\ c.st \in {"waiting", "expiring", "cancelled"}
                /\ (c.st = "waiting" => c.conn = writer /\ writer # None)
             \/ pending' = pending /\ k \notin pending /\ c.st # "waiting"
      PROVE  /\ pending' \subseteq Calls /\ calls' \in [Calls -> Call]
             /\ \A j \in pending' : calls'[j].st \in {"waiting", "expiring", "cancelled"}
             /\ Waiting'
  <2>1. /\ calls' \in [Calls -> Call] /\ calls'[k] = c
        /\ \A j \in Calls : j # k => calls'[j] = calls[j]
    BY <1>1, <1>3
  <2>2. pending' \subseteq Calls
    BY <1>1, <1>3
  <2>3. ASSUME NEW j \in pending' PROVE calls'[j].st \in {"waiting", "expiring", "cancelled"}
    BY <1>1, <1>3, <2>1, <2>2
  <2>4. ASSUME NEW j \in Calls, calls'[j].st = "waiting"
        PROVE  j \in pending' /\ calls'[j].conn = writer' /\ writer' # None
    BY <1>1, <1>3, <2>1, <2>4 DEF Waiting
  <2>5. QED BY <2>1, <2>2, <2>3, <2>4 DEF Waiting
<1>4. ASSUME NEW i \in DOMAIN loops, LoopStep(i)
      PROVE  /\ pending' \subseteq Calls /\ calls' \in [Calls -> Call]
             /\ \A k \in pending' : calls'[k].st \in {"waiting", "expiring", "cancelled"}
             /\ Waiting'
  <2>1. CASE UNCHANGED <<pending, calls, writer>>
    BY <1>1, <2>1 DEF Waiting
  <2>2. CASE Installs(i)
    <3>1. writer = None /\ UNCHANGED <<pending, calls>>
      BY <1>1, <2>2 DEF Installs, OneLoop, LoopFits
    <3>2. QED BY <1>1, <3>1 DEF Waiting
  <2>3. CASE Clears(i)
    BY <1>2, <2>3 DEF Clears
  <2>4. CASE read_frames(i)
    <3>1. PICK k : UNCHANGED <<pending, calls, writer>> \/ (resolve_pending(k) /\ writer' = writer)
      BY <2>4 DEF read_frames
    <3>2. CASE resolve_pending(k) /\ writer' = writer /\ k \in Calls
      <4> DEFINE c == IF k \in pending /\ calls[k].st = "waiting"
                      THEN [calls[k] EXCEPT !.st = "replied"] ELSE calls[k]
      <4>1. calls[k] \in Call
        BY <1>1, <3>2
      <4>2. c \in Call /\ c.st # "waiting"
        BY <1>1, <3>2, <4>1 DEF Call, Waiting
      <4>3. calls' = [calls EXCEPT ![k] = c] /\ pending' = pending \ {k}
        BY <3>2 DEF resolve_pending
      <4> HIDE DEF c
      <4>4. QED BY <1>3, <3>2, <4>2, <4>3
    <3>3. CASE resolve_pending(k) /\ writer' = writer /\ k \notin Calls
      BY <1>1, <2>1, <3>3 DEF resolve_pending
    <3>4. QED BY <2>1, <3>1, <3>2, <3>3
  <2>5. QED BY <1>4, <2>1, <2>2, <2>3, <2>4
        DEF LoopStep, Leaves, ConnectFails, PeerUntrusted, Connects, Ends, Wakes
<1>5. ASSUME NEW k \in Calls, request_token(k)
      PROVE  /\ pending' \subseteq Calls /\ calls' \in [Calls -> Call]
             /\ \A j \in pending' : calls'[j].st \in {"waiting", "expiring", "cancelled"}
             /\ Waiting'
  <2>1. calls[k] \in Call /\ calls[k].st = "idle" /\ k \notin pending
    BY <1>1, <1>5 DEF request_token
  <2>2. CASE ~Writable
    <3> DEFINE c == [calls[k] EXCEPT !.st = "notconnected"]
    <3>1. c \in Call /\ c.st # "waiting"
      BY <2>1 DEF Call
    <3>2. calls' = [calls EXCEPT ![k] = c] /\ writer' = writer /\ pending' = pending
      BY <1>5, <2>2 DEF request_token
    <3> HIDE DEF c
    <3>3. QED BY <1>3, <2>1, <3>1, <3>2
  <2>3. CASE Writable
    <3> DEFINE c == [st |-> "waiting", conn |-> writer]
    <3>1. c \in Call /\ c.st = "waiting" /\ c.conn = writer /\ writer # None
      BY <1>1, <2>3 DEF Call, Writable
    <3>2. calls' = [calls EXCEPT ![k] = c] /\ writer' = writer /\ pending' = pending \cup {k}
      BY <1>5, <2>3 DEF request_token
    <3> HIDE DEF c
    <3>3. QED BY <1>3, <3>1, <3>2
  <2>4. QED BY <2>2, <2>3
<1>6. ASSUME NEW k \in Calls, TimerFires(k) \/ GivesUp(k) \/ CallerCancelled(k)
      PROVE  /\ pending' \subseteq Calls /\ calls' \in [Calls -> Call]
             /\ \A j \in pending' : calls'[j].st \in {"waiting", "expiring", "cancelled"}
             /\ Waiting'
  <2>1. PICK st \in {"expiring", "timedout", "cancelled"} :
          /\ calls' = [calls EXCEPT ![k].st = st] /\ writer' = writer
          /\ pending' = IF st = "timedout" THEN pending \ {k} ELSE pending
    BY <1>6 DEF TimerFires, GivesUp, CallerCancelled
  <2> DEFINE c == [calls[k] EXCEPT !.st = st]
  <2>2. calls[k] \in Call
    BY <1>1
  <2>3. c \in Call /\ c.st = st
    BY <2>2 DEF Call
  <2>4. calls' = [calls EXCEPT ![k] = c]
    BY <2>1
  <2> HIDE DEF c
  <2>5. QED BY <1>3, <2>1, <2>3, <2>4
<1>7. CASE UNCHANGED <<pending, calls, writer>>
  BY <1>1, <1>7 DEF Waiting
<1>8. QED
  <2>1. CASE start \/ stop
    BY <1>2, <2>1 DEF start, stop
  <2>2. CASE \/ UNCHANGED vars \/ handle_host_event \/ \E q \in prompts : respond(q)
             \/ \E c \in DOMAIN conns : \/ Writes(c) \/ WriteFails(c) \/ AgentDrops(c)
                                        \/ \E f \in AgentFrames(c) : AgentSends(c, f)
    BY <1>7, <2>2 DEF vars, handle_host_event, respond, Writes, WriteFails, AgentDrops, AgentSends
  <2>3. QED BY <1>4, <1>5, <1>6, <2>1, <2>2 DEF Next
-----------------------------------------------------------------------------
(* The types of what the coordinator and its queue hold. *)
QueueTyped ==
  /\ events \in Seq(Event) /\ serving \in 0..Len(conns) /\ indicator \in BOOLEAN
  /\ prompts \subseteq 1..Len(conns)

(* What an event put into the queue does to it. *)
LEMMA QueuedFacts ==
  ASSUME events \in Seq(Event), NEW kinds, NEW c \in Nat, Queued(kinds, c),
         kinds \subseteq {"Connected", "Disconnected", "Untrusted", "Frame"}
  PROVE  /\ events' \in Seq(Event) /\ Len(events) \in Nat /\ Len(events') = Len(events) + 1
         /\ DOMAIN events = 1..Len(events) /\ DOMAIN events' = 1..(Len(events) + 1)
         /\ \A n \in DOMAIN events : events'[n] = events[n]
         /\ events'[Len(events) + 1].kind \in kinds /\ events'[Len(events) + 1].conn = c
         /\ \A kind : kinds = {kind} =>
               events'[Len(events) + 1] = [kind |-> kind, conn |-> c]
<1>1. PICK kind \in kinds : events' = Append(events, [kind |-> kind, conn |-> c])
  BY DEF Queued
<1> DEFINE e == [kind |-> kind, conn |-> c]
<1>2. e \in Event /\ e.kind = kind /\ e.conn = c
  BY <1>1 DEF Event
<1>3. \A k : kinds = {k} => e = [kind |-> k, conn |-> c]
  BY <1>1
<1>4. events' = Append(events, e)
  BY <1>1
<1> HIDE DEF e
<1>5. /\ events' \in Seq(Event) /\ Len(events) \in Nat /\ Len(events') = Len(events) + 1
      /\ DOMAIN events = 1..Len(events) /\ DOMAIN events' = 1..(Len(events) + 1)
      /\ \A n \in DOMAIN events : events'[n] = events[n]
      /\ events'[Len(events) + 1] = e
  BY <1>2, <1>4
<1>6. QED BY <1>1, <1>2, <1>3, <1>5

(* What handling the first event does to the queue. *)
LEMMA TailFacts ==
  ASSUME events \in Seq(Event), events # << >>, events' = Tail(events)
  PROVE  /\ events' \in Seq(Event) /\ Head(events) = events[1] /\ 1 \in DOMAIN events
         /\ \A n \in DOMAIN events' : n + 1 \in DOMAIN events /\ events'[n] = events[n + 1]
         /\ \A n \in DOMAIN events : n > 1 => n - 1 \in DOMAIN events' /\ events'[n - 1] = events[n]
         /\ DOMAIN events \subseteq Nat /\ DOMAIN events' \subseteq Nat \ {0}
<1>1. Len(events) \in Nat \ {0} /\ DOMAIN events = 1..Len(events)
  OBVIOUS
<1>2. /\ events' \in Seq(Event) /\ Len(events') = Len(events) - 1
      /\ \A n \in 1..(Len(events) - 1) : events'[n] = events[n + 1]
  BY <1>1
<1>3. DOMAIN events' = 1..(Len(events) - 1)
  BY <1>1, <1>2
<1>4. QED BY <1>1, <1>2, <1>3

(* A connection accounted for stays so while the loop goes on: it is held  *)
(* until its end is queued.                                                *)
LEMMA AccountedStays ==
  ASSUME IInv, NEW i \in DOMAIN loops, LoopStep(i),
         NEW q, NEW n \in 0..Len(events), Accounted(q, n)
  PROVE  Accounted(q, n)'
<1>1. /\ events \in Seq(Event) /\ Len(events) \in Nat /\ DOMAIN events = 1..Len(events)
  BY DEF IInv, TypeOK
<1>2. /\ DOMAIN loops = {i} /\ DOMAIN loops' = {i} /\ Moves(i)
  BY LoopMoved
<1>3. loops[i].conn \in Nat
  <2>1. loops[i] \in Loop
    BY DEF IInv, TypeOK
  <2>2. QED BY <2>1 DEF Loop
<1>4. events' = events \/ \E kinds \in SUBSET {"Connected", "Disconnected", "Untrusted", "Frame"} :
        Queued(kinds, None) \/ Queued(kinds, loops[i].conn)
  <2>1. \/ events' = events \/ Queued({"Untrusted"}, None)
        \/ Queued({"Connected", "Frame"}, loops[i].conn) \/ Queued({"Disconnected"}, loops[i].conn)
    BY <1>2 DEF Moves
  <2>2. QED BY <2>1
<1>5. \A l \in DOMAIN events : l \in DOMAIN events' /\ events'[l] = events[l]
  <2>1. CASE events' = events
    BY <2>1
  <2>2. ASSUME NEW kinds \in SUBSET {"Connected", "Disconnected", "Untrusted", "Frame"},
               Queued(kinds, None) \/ Queued(kinds, loops[i].conn)
        PROVE  \A l \in DOMAIN events : l \in DOMAIN events' /\ events'[l] = events[l]
    <3>1. PICK c \in Nat : Queued(kinds, c)
      BY <1>3, <2>2 DEF None
    <3>2. /\ DOMAIN events' = 1..(Len(events) + 1)
          /\ \A l \in DOMAIN events : events'[l] = events[l]
      BY <1>1, <3>1, QueuedFacts
    <3>3. QED BY <1>1, <3>2
  <2>3. QED BY <1>4, <2>1, <2>2
<1>6. CASE EndsAfter(q, n)
  BY <1>5, <1>6 DEF EndsAfter, Accounted
<1>7. CASE Held(i) /\ loops[i].conn = q
  <2>1. CASE loops[i].pc = "reading"
    <3>1. loops'[i].pc \in {"reading", "closing"} /\ loops'[i].conn = q
      BY <1>2, <1>7, <2>1 DEF Moves
    <3>2. QED BY <1>2, <3>1 DEF Accounted, Held
  <2>2. CASE loops[i].pc = "closing"
    <3>1. Queued({"Disconnected"}, q)
      BY <1>2, <1>7, <2>2 DEF Moves
    <3>2. q \in Nat /\ {"Disconnected"} \subseteq {"Connected", "Disconnected", "Untrusted", "Frame"}
      BY <1>3, <1>7
    <3>3. /\ Len(events) + 1 \in DOMAIN events' /\ Len(events) + 1 > n
          /\ events'[Len(events) + 1] = EndOf(q)
      BY <1>1, <3>1, <3>2, QueuedFacts DEF EndOf
    <3>4. EndsAfter(q, n)'
      BY <3>3 DEF EndsAfter
    <3>5. QED BY <3>4 DEF Accounted
  <2>3. QED BY <1>7, <2>1, <2>2 DEF Held
<1>8. QED BY <1>2, <1>6, <1>7 DEF Accounted

(* The loop queues events of the connection it holds, and the end of one   *)
(* before it can hold the next.                                            *)
LEMMA LoopQueues ==
  ASSUME IInv, NEW i \in DOMAIN loops, LoopStep(i)
  PROVE  QueueTyped' /\ EventsKnown' /\ EndsQueued' /\ Succession'
<1>1. /\ events \in Seq(Event) /\ Len(events) \in Nat /\ DOMAIN events = 1..Len(events)
      /\ conns \in Seq(Conn) /\ Len(conns) \in Nat /\ DOMAIN conns = 1..Len(conns)
      /\ serving \in 0..Len(conns) /\ indicator \in BOOLEAN /\ prompts \subseteq 1..Len(conns)
  BY DEF IInv, TypeOK
<1>2. /\ DOMAIN loops = {i} /\ DOMAIN loops' = {i} /\ Moves(i)
      /\ serving' = serving /\ indicator' = indicator /\ prompts' = prompts
      /\ Len(loops') = 1
  BY LoopMoved DEF coordinator
<1>3. /\ conns' \in Seq(Conn) /\ Len(conns') \in Nat /\ DOMAIN conns' = 1..Len(conns')
      /\ Len(conns') >= Len(conns)
  <2>1. [Next]_vars
    BY DEF Next
  <2>2. conns' \in Seq(Conn)
    BY <2>1, StepConns
  <2>3. Len(conns') = Len(conns) \/ Len(conns') = Len(conns) + 1
    BY LoopMoved DEF Moves
  <2>4. QED BY <1>1, <2>2, <2>3
<1>4. Open
  BY <1>2 DEF Open, Moves
<1>5. /\ \A n \in DOMAIN events : Alive(events[n]) => Accounted(events[n].conn, n)
      /\ \A q \in prompts : Accounted(q, 0)
      /\ serving # None => Accounted(serving, 0)
      /\ indicator => \E q \in DOMAIN conns : Accounted(q, 0)
  BY <1>4 DEF IInv, EndsQueued
<1>6. \A q, n : n \in 0..Len(events) /\ Accounted(q, n) => Accounted(q, n)'
  BY AccountedStays
<1>7. \A q : Accounted(q, 0) => Accounted(q, 0)'
  BY <1>1, <1>6
<1>8. /\ \A q \in prompts' : Accounted(q, 0)'
      /\ serving' # None => Accounted(serving, 0)'
      /\ indicator' => \E q \in DOMAIN conns' : Accounted(q, 0)'
  <2>1. DOMAIN conns \subseteq DOMAIN conns'
    BY <1>1, <1>3
  <2>2. \A q \in prompts' : Accounted(q, 0)'
    BY <1>2, <1>5, <1>7
  <2>3. ASSUME serving' # None PROVE Accounted(serving, 0)'
    <3>1. PICK q : q = serving /\ q = serving' /\ q # None
      BY <1>2, <2>3
    <3>2. Accounted(q, 0)
      BY <1>5, <3>1
    <3>3. Accounted(q, 0)'
      BY <1>7, <3>2
    <3>4. QED BY <3>1, <3>3 DEF Accounted, EndsAfter
  <2>4. indicator' => \E q \in DOMAIN conns' : Accounted(q, 0)'
    BY <1>2, <1>5, <1>7, <2>1
  <2>5. QED BY <2>2, <2>3, <2>4
<1>9. \A n \in DOMAIN events : \A q : Alive(events[n]) /\ q = events[n].conn => Accounted(q, n)'
  <2>1. DOMAIN events \subseteq 0..Len(events)
    BY <1>1
  <2>2. QED BY <1>5, <1>6, <2>1
<1>10. \/ events' = events
       \/ Queued({"Untrusted"}, None)
       \/ Queued({"Connected", "Frame"}, loops[i].conn)
          /\ loops[i].pc = "reading" /\ loops'[i].pc = "reading" /\ loops'[i].conn = loops[i].conn
       \/ Queued({"Disconnected"}, loops[i].conn) /\ loops[i].pc = "closing"
  BY <1>2 DEF Moves
<1>11. Held(i) => loops[i].conn \in DOMAIN conns
  BY DEF IInv, OneLoop, LoopFits, Held
<1>12. serving' \in 0..Len(conns') /\ indicator' \in BOOLEAN /\ prompts' \subseteq 1..Len(conns')
       /\ loops' # << >>
  <2>1. loops' # << >>
    <3>1. Len(loops') = 1
      BY <1>2
    <3>2. QED BY <3>1
  <2>2. QED BY <1>1, <1>2, <1>3, <2>1
<1>13. CASE events' = events
  <2>1. QueueTyped'
    BY <1>1, <1>12, <1>13 DEF QueueTyped
  <2>2. EventsKnown'
    <3>1. ASSUME NEW n \in DOMAIN events
          PROVE  events[n].conn <= Len(conns') /\ (Alive(events[n]) => events[n].conn # None)
      <4>1. events[n] \in Event
        BY <1>1
      <4>2. events[n].conn \in Nat
        BY <4>1 DEF Event
      <4>3. events[n].conn <= Len(conns) /\ (Alive(events[n]) => events[n].conn # None)
        BY DEF IInv, EventsKnown
      <4>4. QED BY <1>1, <1>3, <4>2, <4>3
    <3>2. QED BY <1>12, <1>13, <3>1 DEF EventsKnown, Alive
  <2>3. EndsQueued'
    <3>1. ASSUME NEW n \in DOMAIN events', Alive(events'[n])
          PROVE  Accounted(events[n].conn, n)'
      <4>1. PICK q : q = events[n].conn /\ q = events'[n].conn
        BY <1>13
      <4>2. Accounted(q, n)'
        BY <1>9, <1>13, <3>1, <4>1
      <4>3. QED BY <4>1, <4>2 DEF Accounted, EndsAfter
    <3>2. QED BY <1>8, <3>1 DEF EndsQueued, Alive
  <2>4. Succession'
    BY <1>2, <1>13 DEF IInv, Succession, Alive
  <2>5. QED BY <2>1, <2>2, <2>3, <2>4
<1>14. ASSUME NEW kinds \in SUBSET {"Connected", "Disconnected", "Untrusted", "Frame"},
              NEW c \in 0..Len(conns), Queued(kinds, c),
              \/ kinds \in {{"Untrusted"}, {"Disconnected"}}
              \/ /\ c = loops[i].conn /\ loops[i].pc = "reading"
                 /\ loops'[i].pc = "reading" /\ loops'[i].conn = c /\ c # None
       PROVE  QueueTyped' /\ EventsKnown' /\ EndsQueued' /\ Succession'
  <2> DEFINE N == Len(events) + 1
             e == events'[N]
  <2>1. c \in Nat
    BY <1>1
  <2>2. /\ events' \in Seq(Event) /\ DOMAIN events' = 1..N
        /\ \A n \in DOMAIN events : events'[n] = events[n]
        /\ e.kind \in kinds /\ e.conn = c
    BY <1>1, <1>14, <2>1, QueuedFacts
  <2>3. N \in Nat /\ \A n \in DOMAIN events' : n = N \/ n \in DOMAIN events
    BY <1>1, <2>2
  <2> HIDE DEF N, e
  <2>4. Alive(e) => /\ c = loops[i].conn /\ loops[i].pc = "reading"
                    /\ loops'[i].pc = "reading" /\ loops'[i].conn = c /\ c # None
    BY <1>14, <2>2 DEF Alive
  <2>5. QueueTyped'
    BY <1>12, <2>2 DEF QueueTyped
  <2>6. EventsKnown'
    <3>1. ASSUME NEW n \in DOMAIN events
          PROVE  events[n].conn <= Len(conns') /\ (Alive(events[n]) => events[n].conn # None)
      <4>1. events[n] \in Event
        BY <1>1
      <4>2. events[n].conn \in Nat
        BY <4>1 DEF Event
      <4>3. events[n].conn <= Len(conns) /\ (Alive(events[n]) => events[n].conn # None)
        BY DEF IInv, EventsKnown
      <4>4. QED BY <1>1, <1>3, <4>2, <4>3
    <3>2. e.conn <= Len(conns') /\ (Alive(e) => e.conn # None)
      <4>1. c <= Len(conns')
        BY <1>1, <1>3
      <4>2. QED BY <2>2, <2>4, <4>1
    <3>3. ASSUME NEW n \in DOMAIN events'
          PROVE  events'[n].conn <= Len(conns') /\ (Alive(events'[n]) => events'[n].conn # None)
      BY <2>2, <2>3, <3>1, <3>2 DEF e
    <3>4. QED BY <1>12, <3>3 DEF EventsKnown, Alive
  <2>7. EndsQueued'
    <3>1. ASSUME NEW n \in DOMAIN events', Alive(events'[n])
          PROVE  Accounted(events[n].conn, n)'
      <4>1. PICK q : q = events'[n].conn
        OBVIOUS
      <4>2. CASE n = N
        <5>1. q = c /\ Alive(e)
          BY <2>2, <3>1, <4>1, <4>2 DEF e
        <5>2. i \in DOMAIN loops' /\ loops'[i].pc = "reading" /\ loops'[i].conn = q
          BY <1>2, <2>4, <5>1
        <5>3. QED BY <4>1, <5>2 DEF Accounted, Held
      <4>3. CASE n \in DOMAIN events
        <5>1. Accounted(q, n)'
          BY <1>9, <2>2, <3>1, <4>1, <4>3
        <5>2. QED BY <4>1, <5>1 DEF Accounted, EndsAfter
      <4>4. QED BY <2>3, <4>2, <4>3
    <3>2. QED BY <1>8, <3>1 DEF EndsQueued, Alive
  <2>8. Succession'
    <3>1. ASSUME NEW n \in DOMAIN events, Alive(events[n])
          PROVE  /\ \A m \in 1..(n - 1) :
                      Alive(events'[m]) /\ events'[m].conn # events'[n].conn =>
                        \E l \in (m + 1)..(n - 1) : events'[l].kind = "Disconnected"
                 /\ serving' \notin {None, events'[n].conn} =>
                      \E l \in 1..(n - 1) : events'[l].kind = "Disconnected"
      <4>1. /\ \A m \in 1..(n - 1) :
                 Alive(events[m]) /\ events[m].conn # events[n].conn =>
                   \E l \in (m + 1)..(n - 1) : events[l].kind = "Disconnected"
            /\ serving \notin {None, events[n].conn} =>
                 \E l \in 1..(n - 1) : events[l].kind = "Disconnected"
        BY <3>1 DEF IInv, Succession
      <4>2. \A m \in 1..(n - 1) : m \in DOMAIN events /\ \A l \in (m + 1)..(n - 1) : l \in DOMAIN events
        BY <1>1
      <4>3. QED BY <1>2, <2>2, <4>1, <4>2, SMTT(60)
    <3>2. ASSUME Alive(e)
          PROVE  /\ \A m \in 1..(N - 1) :
                      Alive(events'[m]) /\ events'[m].conn # e.conn =>
                        \E l \in (m + 1)..(N - 1) : events'[l].kind = "Disconnected"
                 /\ serving' \notin {None, e.conn} =>
                      \E l \in 1..(N - 1) : events'[l].kind = "Disconnected"
      <4>1. ASSUME NEW q, NEW m \in 0..Len(events), Accounted(q, m), q # c
            PROVE  \E l \in (m + 1)..(N - 1) : events'[l].kind = "Disconnected"
        <5>1. EndsAfter(q, m)
          BY <1>2, <2>4, <3>2, <4>1 DEF Accounted
        <5>2. PICK l \in DOMAIN events : l > m /\ events[l] = EndOf(q)
          BY <5>1 DEF EndsAfter
        <5>3. l \in (m + 1)..(N - 1)
          BY <1>1, <5>2 DEF N
        <5>4. events'[l].kind = "Disconnected"
          BY <2>2, <5>2 DEF EndOf
        <5>5. QED BY <5>3, <5>4
      <4>2. 1..(N - 1) = DOMAIN events /\ 0 \in 0..Len(events) /\ DOMAIN events \subseteq 0..Len(events)
            /\ 0 + 1 = 1
        BY <1>1 DEF N
      <4>3. e.conn = c
        BY <2>2
      <4>4. ASSUME NEW m \in 1..(N - 1), Alive(events'[m]), events'[m].conn # e.conn
            PROVE  \E l \in (m + 1)..(N - 1) : events'[l].kind = "Disconnected"
        <5>1. m \in DOMAIN events /\ events'[m] = events[m]
          BY <2>2, <4>2
        <5>2. Accounted(events[m].conn, m)
          BY <1>5, <4>4, <5>1
        <5>3. QED BY <4>1, <4>2, <4>3, <4>4, <5>1, <5>2
      <4>5. ASSUME serving' \notin {None, e.conn}
            PROVE  \E l \in 1..(N - 1) : events'[l].kind = "Disconnected"
        <5>1. Accounted(serving, 0) /\ serving # c
          BY <1>2, <1>5, <4>3, <4>5
        <5>2. QED BY <4>1, <4>2, <5>1
      <4>6. QED BY <4>4, <4>5
    <3>3. ASSUME NEW n \in DOMAIN events', Alive(events'[n])
          PROVE  /\ \A m \in 1..(n - 1) :
                      Alive(events'[m]) /\ events'[m].conn # events'[n].conn =>
                        \E l \in (m + 1)..(n - 1) : events'[l].kind = "Disconnected"
                 /\ serving' \notin {None, events'[n].conn} =>
                      \E l \in 1..(n - 1) : events'[l].kind = "Disconnected"
      <4>1. CASE n = N
        BY <3>2, <3>3, <4>1 DEF e
      <4>2. CASE n \in DOMAIN events
        BY <2>2, <3>1, <3>3, <4>2
      <4>3. QED BY <2>3, <4>1, <4>2
    <3>4. QED BY <3>3 DEF Succession, Alive
  <2>9. QED BY <2>5, <2>6, <2>7, <2>8
<1>15. /\ {"Untrusted"} \in SUBSET {"Connected", "Disconnected", "Untrusted", "Frame"}
       /\ {"Disconnected"} \in SUBSET {"Connected", "Disconnected", "Untrusted", "Frame"}
       /\ {"Connected", "Frame"} \in SUBSET {"Connected", "Disconnected", "Untrusted", "Frame"}
       /\ None \in 0..Len(conns) /\ \A c \in DOMAIN conns : c \in 0..Len(conns) /\ c # None
  BY <1>1 DEF None
<1>16. loops[i].pc \in {"reading", "closing"} => loops[i].conn \in DOMAIN conns
  BY <1>11 DEF Held
<1>17. QED BY <1>10, <1>13, <1>14, <1>15, <1>16

(* The coordinator handles the first event: what is accounted for stays    *)
(* so, and its end is not skipped.                                         *)
LEMMA EventHandled ==
  ASSUME IInv, handle_host_event, UNCHANGED <<running, loops, writer>>,
         conns' = conns
  PROVE  QueueTyped' /\ EventsKnown' /\ EndsQueued' /\ Succession'
<1> DEFINE e == events[1]
<1>1. /\ events \in Seq(Event) /\ Len(conns) \in Nat
      /\ serving \in 0..Len(conns) /\ indicator \in BOOLEAN /\ prompts \subseteq 1..Len(conns)
  BY DEF IInv, TypeOK
<1>2. /\ events' \in Seq(Event) /\ Head(events) = e /\ 1 \in DOMAIN events
      /\ \A n \in DOMAIN events' : n + 1 \in DOMAIN events /\ events'[n] = events[n + 1]
      /\ \A n \in DOMAIN events : n > 1 => n - 1 \in DOMAIN events' /\ events'[n - 1] = events[n]
      /\ DOMAIN events \subseteq Nat /\ DOMAIN events' \subseteq Nat \ {0}
  BY <1>1, TailFacts DEF handle_host_event
<1>3. e \in Event
  BY <1>1, <1>2
<1>4. e.conn \in 0..Len(conns) /\ (Alive(e) => e.conn \in 1..Len(conns))
  <2>1. e.conn \in Nat
    BY <1>3 DEF Event
  <2>2. e.conn <= Len(conns) /\ (Alive(e) => e.conn # None)
    BY <1>2 DEF IInv, EventsKnown
  <2>3. QED BY <1>1, <2>1, <2>2 DEF None
<1>5. \/ e.kind = "Connected" /\ serving' = e.conn /\ indicator' = TRUE /\ prompts' = prompts
      \/ e.kind = "Disconnected" /\ serving' = None /\ indicator' = FALSE /\ prompts' = {}
      \/ e.kind = "Untrusted" /\ indicator' = FALSE /\ serving' = serving /\ prompts' = prompts
      \/ e.kind = "Frame" /\ serving' = e.conn /\ prompts' = prompts \cup {e.conn}
         /\ indicator' = indicator
  BY <1>2 DEF handle_host_event
<1> HIDE DEF e
<1>6. Alive(e) <=> e.kind \in {"Connected", "Frame"}
  BY DEF Alive
<1>7. QueueTyped'
  <2>1. None \in 0..Len(conns)
    BY <1>1 DEF None
  <2>2. serving' \in 0..Len(conns) /\ indicator' \in BOOLEAN
    BY <1>1, <1>4, <1>5, <2>1
  <2>3. prompts' \subseteq 1..Len(conns)
    BY <1>1, <1>4, <1>5, <1>6
  <2>4. QED BY <1>2, <2>2, <2>3 DEF QueueTyped
<1>8. EventsKnown'
  <2>1. indicator' => loops' # << >>
    <3>1. CASE loops = << >>
      <4>1. Len(conns) = 0 /\ ~indicator
        BY <3>1 DEF IInv, OneLoop, EventsKnown
      <4>2. ~Alive(e)
        BY <1>4, <4>1
      <4>3. QED BY <1>5, <1>6, <4>1, <4>2
    <3>2. QED BY <3>1
  <2>2. QED BY <1>2, <2>1 DEF IInv, EventsKnown, Alive
<1>9. ASSUME NEW q, NEW n \in Nat, Accounted(q, n + 1) PROVE Accounted(q, n)'
  <2>1. CASE EndsAfter(q, n + 1)
    <3>1. PICK l \in DOMAIN events : l > n + 1 /\ events[l] = EndOf(q)
      BY <2>1 DEF EndsAfter
    <3>2. l - 1 \in DOMAIN events' /\ events'[l - 1] = EndOf(q) /\ l - 1 > n
      BY <1>2, <3>1
    <3>3. QED BY <3>2 DEF EndsAfter, Accounted
  <2>2. QED BY <1>9, <2>1 DEF Accounted, Held
<1>10. ASSUME NEW q, Accounted(q, 0), e.kind # "Disconnected" PROVE Accounted(q, 0)'
  <2>1. CASE EndsAfter(q, 0)
    <3>1. PICK l \in DOMAIN events : l > 0 /\ events[l] = EndOf(q)
      BY <2>1 DEF EndsAfter
    <3>2. events[l].kind = "Disconnected"
      BY <3>1 DEF EndOf
    <3>3. l > 1
      BY <1>2, <1>10, <3>1, <3>2 DEF e
    <3>4. l - 1 \in DOMAIN events' /\ events'[l - 1] = EndOf(q) /\ l - 1 > 0
      BY <1>2, <3>1, <3>3
    <3>5. QED BY <3>4 DEF EndsAfter, Accounted
  <2>2. QED BY <1>10, <2>1 DEF Accounted, Held
<1>11. EndsQueued'
  <2> SUFFICES ASSUME Open'
               PROVE  /\ \A n \in DOMAIN events' : Alive(events'[n]) => Accounted(events[n].conn, n)'
                      /\ \A q \in prompts' : Accounted(q, 0)'
                      /\ serving' # None => Accounted(serving, 0)'
                      /\ indicator' => \E q \in DOMAIN conns' : Accounted(q, 0)'
    BY DEF EndsQueued, Alive
  <2>1. /\ \A n \in DOMAIN events : Alive(events[n]) => Accounted(events[n].conn, n)
        /\ \A q \in prompts : Accounted(q, 0)
        /\ serving # None => Accounted(serving, 0)
        /\ indicator => \E q \in DOMAIN conns : Accounted(q, 0)
    BY DEF IInv, EndsQueued, Open
  <2>2. ASSUME NEW q, Alive(e), q = e.conn PROVE Accounted(q, 0)'
    <3>1. Accounted(q, 0 + 1)
      BY <1>2, <2>1, <2>2 DEF e
    <3>2. QED BY <1>9, <3>1
  <2>3. ASSUME NEW n \in DOMAIN events', Alive(events'[n]) PROVE Accounted(events[n].conn, n)'
    <3>1. PICK q : q = events'[n].conn
      OBVIOUS
    <3>2. n \in Nat /\ n + 1 \in DOMAIN events /\ Alive(events[n + 1]) /\ q = events[n + 1].conn
      BY <1>2, <2>3, <3>1
    <3>3. Accounted(q, n + 1)
      BY <2>1, <3>2
    <3>4. Accounted(q, n)'
      BY <1>9, <3>2, <3>3
    <3>5. QED BY <3>1, <3>4 DEF Accounted, EndsAfter
  <2>4. ASSUME NEW q \in prompts' PROVE Accounted(q, 0)'
    BY <1>5, <1>6, <1>10, <2>1, <2>2
  <2>5. ASSUME serving' # None PROVE Accounted(serving, 0)'
    <3>1. PICK q : q = serving'
      OBVIOUS
    <3>2. Accounted(q, 0)'
      BY <1>5, <1>6, <1>10, <2>1, <2>2, <2>5, <3>1
    <3>3. QED BY <3>1, <3>2 DEF Accounted, EndsAfter
  <2>6. ASSUME indicator' PROVE \E q \in DOMAIN conns' : Accounted(q, 0)'
    <3>1. CASE Alive(e) /\ e.kind = "Connected"
      <4>1. e.conn \in DOMAIN conns'
        <5>1. DOMAIN conns = 1..Len(conns)
          BY DEF IInv, TypeOK
        <5>2. QED BY <1>4, <3>1, <5>1
      <4>2. QED BY <2>2, <3>1, <4>1
    <3>2. CASE e.kind = "Frame" /\ indicator
      BY <1>10, <2>1, <3>2
    <3>3. QED BY <1>5, <1>6, <2>6, <3>1, <3>2
  <2>7. QED BY <2>3, <2>4, <2>5, <2>6
<1>12. Succession'
  <2> SUFFICES ASSUME NEW n \in DOMAIN events', Alive(events'[n])
               PROVE  /\ \A m \in 1..(n - 1) :
                           Alive(events'[m]) /\ events'[m].conn # events'[n].conn =>
                             \E l \in (m + 1)..(n - 1) : events'[l].kind = "Disconnected"
                      /\ serving' \notin {None, events'[n].conn} =>
                           \E l \in 1..(n - 1) : events'[l].kind = "Disconnected"
    BY DEF Succession, Alive
  <2>1. /\ n \in Nat /\ n + 1 \in DOMAIN events /\ events'[n] = events[n + 1]
        /\ \A m \in 1..n : m \in DOMAIN events
        /\ \A m \in 1..(n - 1) : m \in DOMAIN events' /\ m + 1 \in 1..n
    <3>1. /\ DOMAIN events = 1..Len(events) /\ DOMAIN events' = 1..Len(events')
          /\ Len(events) \in Nat /\ Len(events') \in Nat
      BY <1>1, <1>2
    <3>2. QED BY <1>2, <3>1
  <2>2. /\ \A m \in 1..n :
             Alive(events[m]) /\ events[m].conn # events[n + 1].conn =>
               \E l \in (m + 1)..n : events[l].kind = "Disconnected"
        /\ serving \notin {None, events[n + 1].conn} =>
             \E l \in 1..n : events[l].kind = "Disconnected"
    <3>1. (n + 1) - 1 = n
      BY <2>1
    <3>2. Alive(events[n + 1])
      BY <2>1
    <3>3. QED BY <2>1, <3>1, <3>2 DEF IInv, Succession
  <2>3. ASSUME NEW m \in 1..n, \E l \in (m + 1)..n : events[l].kind = "Disconnected"
        PROVE  \E l \in m..(n - 1) : events'[l].kind = "Disconnected"
    <3>1. PICK l \in (m + 1)..n : events[l].kind = "Disconnected"
      BY <2>3
    <3>2. l - 1 \in m..(n - 1) /\ l > 1 /\ l \in DOMAIN events
      BY <2>1
    <3>3. QED BY <1>2, <3>1, <3>2
  <2>4. ASSUME NEW m \in 1..(n - 1), Alive(events'[m]), events'[m].conn # events'[n].conn
        PROVE  \E l \in (m + 1)..(n - 1) : events'[l].kind = "Disconnected"
    <3>1. m + 1 \in 1..n /\ events'[m] = events[m + 1]
      BY <1>2, <2>1
    <3>2. \E l \in ((m + 1) + 1)..n : events[l].kind = "Disconnected"
      BY <2>1, <2>2, <2>4, <3>1
    <3>3. QED BY <2>3, <3>1, <3>2
  <2>5. ASSUME serving' \notin {None, events'[n].conn}
        PROVE  \E l \in 1..(n - 1) : events'[l].kind = "Disconnected"
    <3>1. n >= 1 /\ 1 \in 1..n
      BY <1>2
    <3>2. CASE Alive(e) /\ serving' = e.conn
      <4>1. \E l \in (1 + 1)..n : events[l].kind = "Disconnected"
        BY <2>1, <2>2, <2>5, <3>1, <3>2 DEF e
      <4>2. QED BY <2>3, <3>1, <4>1
    <3>3. CASE e.kind = "Untrusted" /\ serving' = serving
      <4>1. PICK l \in 1..n : events[l].kind = "Disconnected"
        BY <2>1, <2>2, <2>5, <3>3
      <4>2. l # 1
        BY <3>3, <4>1 DEF e
      <4>3. l \in (1 + 1)..n
        BY <2>1, <4>2
      <4>4. QED BY <2>3, <3>1, <4>1, <4>3
    <3>4. QED BY <1>5, <1>6, <2>5, <3>2, <3>3
  <2>6. QED BY <2>4, <2>5
<1>13. QED BY <1>7, <1>8, <1>11, <1>12

(* What the coordinator sees stays in order. *)
LEMMA StepEvents ==
  ASSUME MaxStarts <= 1, IInv, [Next]_vars
  PROVE  QueueTyped' /\ EventsKnown' /\ EndsQueued' /\ Succession'
<1>1. QueueTyped /\ EventsKnown /\ EndsQueued /\ Succession
  BY DEF IInv, TypeOK, QueueTyped
<1>2. conns \in Seq(Conn) /\ DOMAIN conns = 1..Len(conns)
  BY DEF IInv, TypeOK
<1>3. CASE start
  <2>1. loops = << >> /\ Len(loops') = 1
    BY <1>3, Started
  <2>2. conns = << >> /\ ~indicator
    BY <2>1 DEF IInv, OneLoop, EventsKnown
  <2>3. UNCHANGED <<conns, events, serving, indicator, prompts>>
    BY <1>3 DEF start, coordinator
  <2>4. Len(conns) = 0
    BY <2>2
  <2>5. serving = None /\ prompts = {}
    BY <1>1, <2>4 DEF QueueTyped, None
  <2>6. \A n \in DOMAIN events : ~Alive(events[n])
    <3>1. ASSUME NEW n \in DOMAIN events PROVE ~Alive(events[n])
      <4>1. events[n] \in Event
        BY <1>1 DEF QueueTyped
      <4>2. events[n].conn \in Nat /\ events[n].conn <= 0
        BY <1>1, <2>4, <4>1 DEF EventsKnown, Event
      <4>3. QED BY <1>1, <4>2 DEF EventsKnown, None
    <3>2. QED BY <3>1
  <2>7. QueueTyped' /\ Succession'
    BY <1>1, <2>3 DEF QueueTyped, Succession, Alive
  <2>8. EventsKnown'
    BY <1>1, <2>2, <2>3 DEF EventsKnown, Alive
  <2>9. EndsQueued'
    BY <2>2, <2>3, <2>5, <2>6 DEF EndsQueued, Alive
  <2>10. QED BY <2>7, <2>8, <2>9
<1>4. CASE stop
  <2>1. /\ Len(loops') = Len(loops) /\ DOMAIN loops' = DOMAIN loops
        /\ \A i \in DOMAIN loops :
              /\ loops'[i].conn = loops[i].conn
              /\ loops'[i].pc = IF loops[i].pc \in Awaiting THEN "done" ELSE loops[i].pc
    BY <1>4, Stopped
  <2>2. UNCHANGED <<conns, events, serving, indicator, prompts>> /\ writer' = None
    BY <1>4 DEF stop, coordinator
  <2>3. QueueTyped' /\ Succession'
    BY <1>1, <2>2 DEF QueueTyped, Succession, Alive
  <2>4. EventsKnown'
    <3>1. loops # << >> => loops' # << >>
      BY <2>1 DEF IInv, TypeOK
    <3>2. QED BY <1>1, <2>2, <3>1 DEF EventsKnown, Alive
  <2>5. EndsQueued'
    <3> SUFFICES ASSUME Open' PROVE EndsQueued'
      BY DEF EndsQueued
    <3>1. PICK i \in DOMAIN loops : loops[i].pc # "done" /\ loops[i].pc \notin Awaiting
      BY <2>1, <2>2 DEF Open
    <3>2. DOMAIN loops = {i}
      BY TheLoop DEF IInv, TypeOK, OneLoop
    <3>3. Open
      BY <3>1 DEF Open
    <3>4. \A q, n : Accounted(q, n) => Accounted(q, n)'
      BY <2>1, <2>2, <3>1, <3>2 DEF Accounted, Held, EndsAfter, Awaiting
    <3>5. /\ \A n \in DOMAIN events : Alive(events[n]) => Accounted(events[n].conn, n)
          /\ \A q \in prompts : Accounted(q, 0)
          /\ serving # None => Accounted(serving, 0)
          /\ indicator => \E q \in DOMAIN conns : Accounted(q, 0)
      BY <1>1, <3>3 DEF EndsQueued
    <3>6. /\ \A q \in prompts' : Accounted(q, 0)'
          /\ indicator' => \E q \in DOMAIN conns' : Accounted(q, 0)'
      BY <2>2, <3>4, <3>5
    <3>7. ASSUME NEW n \in DOMAIN events', Alive(events'[n]) PROVE Accounted(events[n].conn, n)'
      <4>1. PICK q : q = events[n].conn /\ q = events'[n].conn
        BY <2>2
      <4>2. Accounted(q, n)'
        BY <2>2, <3>4, <3>5, <3>7, <4>1
      <4>3. QED BY <4>1, <4>2 DEF Accounted, EndsAfter
    <3>8. ASSUME serving' # None PROVE Accounted(serving, 0)'
      <4>1. PICK q : q = serving /\ q = serving'
        BY <2>2
      <4>2. Accounted(q, 0)'
        BY <3>4, <3>5, <3>8, <4>1
      <4>3. QED BY <4>1, <4>2 DEF Accounted, EndsAfter
    <3>9. QED BY <3>6, <3>7, <3>8 DEF EndsQueued, Alive
  <2>6. QED BY <2>3, <2>4, <2>5
<1>5. CASE \E i \in DOMAIN loops : LoopStep(i)
  BY <1>5, LoopQueues
<1>6. CASE /\ UNCHANGED <<running, loops, writer>> /\ handle_host_event
  <2>1. conns' = conns
    BY <1>6 DEF handle_host_event
  <2>2. QED BY <1>6, <2>1, EventHandled
<1>7. CASE /\ UNCHANGED <<running, loops, writer>> /\ Len(conns') = Len(conns)
           /\ UNCHANGED <<events, serving, indicator>> /\ prompts' \subseteq prompts
  <2>1. DOMAIN conns' = DOMAIN conns
    BY <1>2, <1>7, StepConns
  <2>2. QueueTyped' /\ Succession'
    BY <1>1, <1>7 DEF QueueTyped, Succession, Alive
  <2>3. EventsKnown'
    BY <1>1, <1>7 DEF EventsKnown, Alive
  <2>4. EndsQueued'
    BY <1>1, <1>7, <2>1 DEF EndsQueued, Alive, Accounted, EndsAfter, Held, Open
  <2>5. QED BY <2>2, <2>3, <2>4
<1>8. QED BY <1>3, <1>4, <1>5, <1>6, <1>7, StepCases
-----------------------------------------------------------------------------
(* The inductive invariant of the client, for any number of calls,         *)
(* connections, frames and events, with at most one start().               *)
THEOREM Invariance == ASSUME MaxStarts <= 1 PROVE Spec => []IInv
<1>1. Init => IInv
  <2> SUFFICES ASSUME Init PROVE IInv
    OBVIOUS
  <2>1. /\ loops \in Seq(Loop) /\ conns \in Seq(Conn) /\ events \in Seq(Event)
        /\ Len(loops) = 0 /\ Len(conns) = 0
        /\ DOMAIN loops = {} /\ DOMAIN conns = {} /\ DOMAIN events = {}
    BY DEF Init
  <2>2. calls \in [Calls -> Call] /\ \A k \in Calls : calls[k].st = "idle"
    BY DEF Init, Call, None
  <2>3. TypeOK
    <3>1. running \in BOOLEAN /\ indicator \in BOOLEAN /\ pending = {} /\ prompts = {}
      BY DEF Init
    <3>2. writer \in 0..Len(conns) /\ serving \in 0..Len(conns) /\ sent \in Nat
      BY <2>1 DEF Init, None
    <3>3. QED BY <2>1, <2>2, <3>1, <3>2 DEF TypeOK
  <2>4. QED BY <2>1, <2>2, <2>3 DEF Init, IInv, LinesNamed, OneLoop, Waiting, EventsKnown,
              EndsQueued, Succession, Open
<1>2. IInv /\ [Next]_vars => IInv'
  <2> SUFFICES ASSUME IInv, [Next]_vars PROVE IInv'
    OBVIOUS
  <2>1. sent' \in Nat
    <3>1. sent \in Nat
      BY DEF IInv, TypeOK
    <3>2. sent' = sent \/ sent' = sent + 1
      BY DEF Next, vars, start, stop, LoopStep, Leaves, ConnectFails, Installs, PeerUntrusted,
             Connects, read_frames, Ends, Clears, Wakes, Writes, WriteFails, AgentSends,
             AgentDrops, request_token, TimerFires, GivesUp, CallerCancelled,
             handle_host_event, respond
    <3>3. QED BY <3>1, <3>2
  <2>2. TypeOK'
    BY <2>1, StepConns, StepLoop, StepCalls, StepEvents DEF TypeOK, QueueTyped
  <2>3. QED BY <2>2, StepConns, StepLoop, StepCalls, StepEvents DEF IInv
<1>3. QED BY <1>1, <1>2, PTL DEF Spec

(* F10, structurally: a caller waits on the connection written to now,     *)
(* and somebody reads that connection.                                     *)
THEOREM CallersLive == ASSUME MaxStarts <= 1 PROVE Spec => []CallersOnLiveConnection
<1>1. IInv => CallersOnLiveConnection
  <2> SUFFICES ASSUME IInv PROVE CallersOnLiveConnection
    OBVIOUS
  <2>1. ASSUME running, writer # None
        PROVE  \E i \in DOMAIN loops : loops[i].conn = writer /\ loops[i].pc \in {"reading", "closing"}
    <3>1. loops \in Seq(Loop) /\ loops # << >>
      BY <2>1 DEF IInv, TypeOK, OneLoop
    <3>2. 1 \in DOMAIN loops
      BY <3>1
    <3>3. LoopFits(1) /\ loops[1] \in Loop
      BY <3>1, <3>2 DEF IInv, OneLoop
    <3>4. loops[1].pc \in {"connecting", "established", "reading", "closing", "sleeping", "done"}
      BY <3>3 DEF Loop
    <3>5. QED BY <2>1, <3>2, <3>3, <3>4 DEF LoopFits, Held
  <2>2. QED BY <2>1 DEF IInv, Waiting, CallersOnLiveConnection
<1>2. QED BY <1>1, Invariance, PTL

(* The connection is not shown as up once all is handled and it is gone. *)
THEOREM IndicatorIsHonest == ASSUME MaxStarts <= 1 PROVE Spec => []IndicatorHonest
<1>1. IInv => IndicatorHonest
  <2> SUFFICES ASSUME IInv, running, indicator, events = << >>
               PROVE  \E i \in DOMAIN loops : loops[i].pc \in {"reading", "closing"}
    BY DEF IndicatorHonest
  <2>1. loops \in Seq(Loop) /\ loops # << >>
    BY DEF IInv, TypeOK, OneLoop
  <2>2. 1 \in DOMAIN loops
    BY <2>1
  <2>3. loops[1].pc # "done"
    BY <2>2 DEF IInv, OneLoop, LoopFits
  <2>4. Open
    BY <2>2, <2>3 DEF Open
  <2>5. PICK q : Accounted(q, 0)
    BY <2>4 DEF IInv, EndsQueued
  <2>6. DOMAIN events = {}
    OBVIOUS
  <2>7. QED BY <2>5, <2>6 DEF Accounted, EndsAfter, Held
<1>2. QED BY <1>1, Invariance, PTL

(* The coordinator serves one connection after the other. *)
THEOREM OneAtATime == ASSUME MaxStarts <= 1 PROVE Spec => OneConnectionAtATime
<1>1. IInv /\ [Next]_vars => [\A c \in DOMAIN conns : serving' = c => serving \in {None, c}]_vars
  <2> SUFFICES ASSUME IInv, [Next]_vars, NEW c \in DOMAIN conns, serving' = c,
                      serving \notin {None, c}
               PROVE  FALSE
    OBVIOUS
  <2>1. handle_host_event
    <3>1. ASSUME NEW i \in DOMAIN loops, LoopStep(i) PROVE serving' = serving
      BY <3>1, LoopMoved DEF coordinator
    <3>2. QED BY <3>1, StepCases DEF start, stop, coordinator
  <2>2. events \in Seq(Event) /\ events # << >>
    BY <2>1 DEF handle_host_event, IInv, TypeOK
  <2>3. Head(events) = events[1] /\ 1 \in DOMAIN events
    BY <2>2
  <2>4. Alive(events[1]) /\ events[1].conn = c
    <3>1. c # None
      BY DEF IInv, TypeOK, None
    <3>2. QED BY <2>1, <2>3, <3>1 DEF handle_host_event, Alive
  <2>5. \E l \in 1..(1 - 1) : events[l].kind = "Disconnected"
    BY <2>3, <2>4 DEF IInv, Succession
  <2>6. QED BY <2>5
<1>2. QED BY <1>1, Invariance, PTL DEF Spec, OneConnectionAtATime

(* No other step than respond puts a response into an outbox. *)
LEMMA OnlyRespondAnswers ==
  ASSUME IInv, [Next]_vars, NEW c \in DOMAIN conns, NEW q \in prompts,
         conns'[c].outbox = Append(conns[c].outbox, LineOf("response", q))
  PROVE  respond(q) /\ writer = c
<1> DEFINE out == conns[c].outbox
           r == LineOf("response", q)
<1>1. /\ conns \in Seq(Conn) /\ OneLoop /\ writer \in 0..Len(conns)
      /\ prompts \subseteq 1..Len(conns)
  BY DEF IInv, TypeOK
<1>2. out \in Seq(Line)
  <2>1. conns[c] \in Conn
    BY <1>1
  <2>2. QED BY <2>1 DEF Conn
<1>3. r.kind = "response" /\ r.of = q
  BY DEF LineOf
<1>4. conns'[c].outbox = Append(out, r)
  OBVIOUS
<1> HIDE DEF out, r
<1>5. Append(out, r) # out /\ Append(out, r) # Tail(out)
  <2>1. Len(Append(out, r)) = Len(out) + 1 /\ Len(out) \in Nat
    BY <1>2
  <2>2. out = << >> => Append(out, r) # Tail(out)
    BY <1>2, <2>1
  <2>3. out # << >> => Len(Tail(out)) = Len(out) - 1
    BY <1>2
  <2>4. QED BY <2>1, <2>2, <2>3
<1>6. ASSUME NEW s PROVE Append(out, r) = Append(out, s) => r = s
  <2>1. /\ Append(out, r)[Len(out) + 1] = r /\ Append(out, s)[Len(out) + 1] = s
    BY <1>2
  <2>2. QED BY <2>1
<1>7. conns'[c].outbox # conns[c].outbox
  BY <1>4, <1>5 DEF out
<1>8. ASSUME NEW d \in DOMAIN conns, NEW kind, NEW of, conns' = Push(d, LineOf(kind, of))
      PROVE  kind = "response" /\ of = q /\ d = c
  <2>1. d = c
    BY <1>1, <1>7, <1>8 DEF Push
  <2>2. conns'[c].outbox = Append(out, LineOf(kind, of))
    <3>1. conns[c] \in Conn /\ conns' = [conns EXCEPT ![c].outbox = Append(out, LineOf(kind, of))]
      BY <1>1, <1>8, <2>1 DEF Push, out
    <3>2. QED BY <1>1, <3>1 DEF Conn
  <2>3. r = LineOf(kind, of)
    BY <1>4, <1>6, <2>2
  <2>4. QED BY <1>3, <2>1, <2>3 DEF LineOf
<1>9. ASSUME NEW x \in prompts, respond(x) PROVE respond(q) /\ writer = c
  <2>1. Writable /\ conns' = Push(writer, LineOf("response", x))
    BY <1>7, <1>9 DEF respond
  <2>2. writer \in DOMAIN conns
    BY <1>1, <2>1 DEF Writable, None
  <2>3. x = q /\ writer = c
    BY <1>8, <2>1, <2>2
  <2>4. QED BY <1>9, <2>3
<1>10. ASSUME NEW i \in DOMAIN loops, LoopStep(i) PROVE FALSE
  <2>1. loops[i].pc \in {"established", "reading", "closing"} => loops[i].conn \in DOMAIN conns
    BY <1>1 DEF OneLoop, LoopFits
  <2>2. CASE Installs(i)
    <3>1. loops[i].conn \in DOMAIN conns /\ conns' = Push(loops[i].conn, LineOf("hello", None))
      BY <2>1, <2>2 DEF Installs
    <3>2. "hello" = "response"
      BY <1>8, <3>1
    <3>3. QED BY <3>2
  <2>3. CASE read_frames(i)
    <3> DEFINE d == loops[i].conn
    <3>1. d \in DOMAIN conns
      BY <2>1, <2>3, SMTT(60) DEF read_frames
    <3>2. \/ conns' = [conns EXCEPT ![d].inbox = Tail(@)]
          \/ conns' = [[conns EXCEPT ![d].inbox = Tail(@)] EXCEPT ![d].outbox = Append(@, LineOf("pong", None))]
      BY <2>3 DEF read_frames
    <3> HIDE DEF d
    <3>3. conns[d] \in Conn
      BY <1>1, <3>1
    <3>4. CASE conns' = [conns EXCEPT ![d].inbox = Tail(@)]
      <4>1. conns'[c].outbox = conns[c].outbox
        BY <1>1, <3>1, <3>3, <3>4 DEF Conn
      <4>2. QED BY <1>7, <4>1
    <3>5. CASE conns' = [[conns EXCEPT ![d].inbox = Tail(@)] EXCEPT ![d].outbox = Append(@, LineOf("pong", None))]
      <4>1. d = c
        BY <1>1, <1>7, <3>5
      <4>2. conns'[c].outbox = Append(out, LineOf("pong", None))
        BY <1>1, <3>1, <3>3, <3>5, <4>1 DEF Conn, out
      <4>3. r = LineOf("pong", None)
        BY <1>4, <1>6, <4>2
      <4>4. QED BY <1>3, <4>3 DEF LineOf
    <3>6. QED BY <3>2, <3>4, <3>5
  <2>4. CASE \E peer \in Peers : Connects(i, peer)
    <3>1. conns'[c] = conns[c]
      BY <1>1, <2>4 DEF Connects
    <3>2. QED BY <1>7, <3>1
  <2>5. CASE Clears(i)
    <3> DEFINE d == loops[i].conn
    <3>1. conns' = [conns EXCEPT ![d].wtask = FALSE]
      BY <2>5 DEF Clears
    <3>2. conns[c] \in Conn
      BY <1>1
    <3> HIDE DEF d
    <3>3. conns'[c].outbox = conns[c].outbox
      BY <1>1, <3>1, <3>2 DEF Conn
    <3>4. QED BY <1>7, <3>3
  <2>6. QED BY <1>7, <1>10, <2>2, <2>3, <2>4, <2>5
        DEF LoopStep, Leaves, ConnectFails, PeerUntrusted, Ends, Wakes
<1>11. ASSUME NEW d \in DOMAIN conns,
              \/ Writes(d) \/ WriteFails(d) \/ AgentDrops(d)
              \/ \E f \in AgentFrames(d) : AgentSends(d, f)
       PROVE  FALSE
  <2>1. conns[c] \in Conn /\ conns[d] \in Conn
    BY <1>1
  <2>2. CASE Writes(d)
    <3>1. conns'[c].outbox = conns[c].outbox \/ conns'[c].outbox = Tail(conns[c].outbox)
      BY <1>1, <2>1, <2>2 DEF Writes, Conn
    <3>2. QED BY <1>4, <1>5, <3>1 DEF out
  <2>3. CASE WriteFails(d) \/ AgentDrops(d)
    <3>1. conns'[c].outbox = conns[c].outbox
      BY <1>1, <2>1, <2>3, ZenonT(60) DEF WriteFails, AgentDrops, Conn
    <3>2. QED BY <1>7, <3>1
  <2>4. CASE \E f \in AgentFrames(d) : AgentSends(d, f)
    <3>1. PICK f : conns' = [conns EXCEPT ![d].inbox = Append(@, f)]
      BY <2>4 DEF AgentSends
    <3>2. conns'[c].outbox = conns[c].outbox
      BY <1>1, <2>1, <3>1 DEF Conn
    <3>3. QED BY <1>7, <3>2
  <2>5. QED BY <1>11, <2>2, <2>3, <2>4
<1>12. ASSUME NEW k \in Calls, request_token(k) PROVE FALSE
  <2>1. Writable /\ conns' = Push(writer, LineOf("token_get", k))
    BY <1>7, <1>12 DEF request_token
  <2>2. writer \in DOMAIN conns
    BY <1>1, <2>1 DEF Writable, None
  <2>3. "token_get" = "response"
    BY <1>8, <2>1, <2>2
  <2>4. QED BY <2>3
<1>13. conns' # conns
  BY <1>7
<1>14. QED BY <1>9, <1>10, <1>11, <1>12, <1>13
       DEF Next, vars, start, stop, TimerFires, GivesUp, CallerCancelled, handle_host_event

(* Fail closed on the wire: an answer goes to another connection than the  *)
(* one that asked only while that one's end waits for the coordinator.     *)
THEOREM AnswersReachTheAsker == ASSUME MaxStarts <= 1 PROVE Spec => AnswersGoToTheAsker
<1>1. IInv /\ [Next]_vars =>
        [\A c \in DOMAIN conns, q \in prompts :
           /\ conns'[c].outbox = Append(conns[c].outbox, LineOf("response", q))
           /\ c # q
           => \E n \in DOMAIN events : events[n] = [kind |-> "Disconnected", conn |-> q]]_vars
  <2> SUFFICES ASSUME IInv, [Next]_vars, NEW c \in DOMAIN conns, NEW q \in prompts, c # q,
                      conns'[c].outbox = Append(conns[c].outbox, LineOf("response", q))
               PROVE  \E n \in DOMAIN events : events[n] = [kind |-> "Disconnected", conn |-> q]
    OBVIOUS
  <2>1. writer = c
    BY OnlyRespondAnswers
  <2>2. writer # None
    BY <2>1 DEF IInv, TypeOK, None
  <2>3. Accounted(q, 0)
    BY <2>2 DEF IInv, EndsQueued, Open
  <2>4. ASSUME NEW i \in DOMAIN loops, Held(i), loops[i].conn = q PROVE FALSE
    BY <2>1, <2>2, <2>4 DEF IInv, OneLoop, LoopFits
  <2>5. QED BY <2>3, <2>4 DEF Accounted, EndsAfter, EndOf
<1>2. QED BY <1>1, Invariance, PTL DEF Spec, AnswersGoToTheAsker
=============================================================================
