-------------------------- MODULE HostAgentClient ---------------------------
(***************************************************************************)
(* The host agent's client (core/shed-app/src/host_agent.rs): one task     *)
(* that connects, reads frames and reconnects (run_loop), a writer task    *)
(* per connection, callers that wait for a control token, and the events   *)
(* the coordinator consumes in order.                                      *)
(*                                                                         *)
(* Connections are numbered.  The loop is asynchronous: between two awaits *)
(* it cannot be cancelled, so an aborted loop still runs to its next await *)
(* while other threads take the state lock.  Durations are left out; an    *)
(* await ends at any later time.  The agent is external: it may answer,    *)
(* answer twice, stay silent or drop a connection.                         *)
(***************************************************************************)
EXTENDS Naturals, Sequences

CONSTANTS
  Calls,       \* request_token calls
  MaxConns,    \* bound: connections made
  MaxSends,    \* bound: frames the agent sends
  MaxEvents,   \* bound: events that wait for the coordinator
  MaxStarts,   \* bound: start() calls; the application makes one
  CanStop      \* is stop() called? Only tests do

ASSUME BoundsAssumption ==
  /\ MaxConns \in Nat /\ MaxSends \in Nat /\ MaxEvents \in Nat /\ MaxStarts \in Nat
  /\ CanStop \in BOOLEAN

None == 0   \* no connection; connections are 1, 2, ...

VARIABLES
  running,   \* the flag run_loop looks at
  loops,     \* one run_loop task per start()
  writer,    \* the connection respond and request_token write to
  pending,   \* calls with a registered sender
  calls,     \* call -> how it stands and the connection it was sent on
  conns,     \* the connections made so far
  events,    \* events queued for the coordinator
  sent,      \* frames the agent has sent
  serving,   \* the coordinator: connection it has handled events of
  indicator, \* the coordinator: is the delegation shown as up?
  prompts    \* the coordinator: connections whose requests it may answer

vars == <<running, loops, writer, pending, calls, conns, events, sent,
          serving, indicator, prompts>>
coordinator == <<serving, indicator, prompts>>

Frame == [kind: {"ack", "ping", "request", "token", "junk", "oversize"},
          call: Calls \cup {None}]
Line  == [kind: {"hello", "pong", "token_get", "response"}, of: Calls \cup Nat]
Event == [kind: {"Connected", "Disconnected", "Untrusted", "Frame"}, conn: Nat]
Conn  == [up: BOOLEAN, wtask: BOOLEAN, inbox: Seq(Frame), outbox: Seq(Line),
          asked: SUBSET Calls]
Loop  == [pc: {"connecting", "established", "reading", "closing", "sleeping", "done"},
          conn: Nat, aborted: BOOLEAN]
Call  == [st: {"idle", "waiting", "expiring", "replied", "dropped", "timedout",
               "notconnected", "cancelled"},
          conn: Nat]

Init ==
  /\ running = FALSE
  /\ loops = << >>
  /\ writer = None
  /\ pending = {}
  /\ calls = [k \in Calls |-> [st |-> "idle", conn |-> None]]
  /\ conns = << >>
  /\ events = << >>
  /\ sent = 0
  /\ serving = None
  /\ indicator = FALSE
  /\ prompts = {}

Emit(kind, c) ==
  /\ Len(events) < MaxEvents
  /\ events' = Append(events, [kind |-> kind, conn |-> c])

Push(c, line) == [conns EXCEPT ![c].outbox = Append(@, line)]
LineOf(kind, of) == [kind |-> kind, of |-> of]

(* Is there a writer channel that still has its writer task? *)
Writable == IF writer = None THEN FALSE ELSE conns[writer].wtask

(* Dropping the senders resumes every waiting caller with an error. *)
Dropped ==
  [k \in Calls |-> IF k \in pending /\ calls[k].st = "waiting"
                   THEN [calls[k] EXCEPT !.st = "dropped"] ELSE calls[k]]
-----------------------------------------------------------------------------
(* abort() ends a task that is at an await and marks one that is not. *)
Awaiting == {"connecting", "reading", "sleeping"}

Abort(l) ==
  [l EXCEPT !.aborted = TRUE, !.pc = IF l.pc \in Awaiting THEN "done" ELSE l.pc]

Reach(i, pc) ==
  loops' = [loops EXCEPT ![i].pc = IF loops[i].aborted THEN "done" ELSE pc]

start ==
  /\ Len(loops) < MaxStarts
  /\ loops' = Append([i \in DOMAIN loops |-> Abort(loops[i])],
                     [pc |-> "connecting", conn |-> None, aborted |-> FALSE])
  /\ running' = TRUE
  /\ writer' = None
  /\ pending' = {}
  /\ calls' = Dropped
  /\ UNCHANGED <<conns, events, sent, coordinator>>

stop ==
  /\ CanStop
  /\ running
  /\ running' = FALSE
  /\ loops' = [i \in DOMAIN loops |-> Abort(loops[i])]
  /\ writer' = None
  /\ pending' = {}
  /\ calls' = Dropped
  /\ UNCHANGED <<conns, events, sent, coordinator>>
-----------------------------------------------------------------------------
(* run_loop. *)
Leaves(i) ==
  /\ loops[i].pc = "connecting" /\ ~running
  /\ loops' = [loops EXCEPT ![i].pc = "done"]
  /\ UNCHANGED <<running, writer, pending, calls, conns, events, sent, coordinator>>

(* The path is no socket, or nobody listens. *)
ConnectFails(i) ==
  /\ loops[i].pc = "connecting" /\ running
  /\ Reach(i, "sleeping")
  /\ UNCHANGED <<running, writer, pending, calls, conns, events, sent, coordinator>>

(* Who runs the process at the other end; a lookup that fails is not us. *)
Peers == {"us", "another", "unknown"}
peer_trusted(peer) == peer = "us"

(* The peer runs as someone else: nothing is ever written to it. *)
PeerUntrusted(i, peer) ==
  /\ loops[i].pc = "connecting" /\ running
  /\ ~peer_trusted(peer)
  /\ Reach(i, "sleeping")
  /\ Emit("Untrusted", None)
  /\ UNCHANGED <<running, writer, pending, calls, conns, sent, coordinator>>

Connects(i, peer) ==
  /\ loops[i].pc = "connecting" /\ running
  /\ peer_trusted(peer)
  /\ Len(conns) < MaxConns
  /\ conns' = Append(conns, [up |-> TRUE, wtask |-> TRUE, inbox |-> << >>,
                             outbox |-> << >>, asked |-> {}])
  /\ loops' = [loops EXCEPT ![i].pc = "established", ![i].conn = Len(conns) + 1]
  /\ UNCHANGED <<running, writer, pending, calls, events, sent, coordinator>>

Installs(i) ==
  /\ loops[i].pc = "established"
  /\ writer' = loops[i].conn
  /\ conns' = Push(loops[i].conn, LineOf("hello", None))
  /\ Reach(i, "reading")
  /\ UNCHANGED <<running, pending, calls, events, sent, coordinator>>

(* resolve_pending: whoever removes the sender resumes the caller. *)
resolve_pending(k) ==
  /\ pending' = pending \ {k}
  /\ calls' = [calls EXCEPT ![k] = IF k \in pending /\ calls[k].st = "waiting"
                                   THEN [calls[k] EXCEPT !.st = "replied"] ELSE calls[k]]

read_frames(i) ==
  LET c == loops[i].conn
      f == Head(conns[c].inbox)
      rest == [conns EXCEPT ![c].inbox = Tail(@)]
  IN  /\ loops[i].pc = "reading"
      /\ conns[c].inbox # << >>
      /\ f.kind # "oversize"
      /\ \/ f.kind = "ping" /\ UNCHANGED <<pending, calls, events>>
            /\ conns' = [rest EXCEPT ![c].outbox = Append(@, LineOf("pong", None))]
         \/ f.kind = "ack" /\ Emit("Connected", c) /\ conns' = rest
            /\ UNCHANGED <<pending, calls>>
         \/ f.kind = "token" /\ resolve_pending(f.call) /\ conns' = rest
            /\ UNCHANGED events
         \/ f.kind = "request" /\ Emit("Frame", c) /\ conns' = rest
            /\ UNCHANGED <<pending, calls>>
         \/ f.kind = "junk" /\ conns' = rest /\ UNCHANGED <<pending, calls, events>>
      /\ UNCHANGED <<running, loops, writer, sent, coordinator>>

(* The reader is at its end, or the writer task died. *)
Ends(i) ==
  LET k == conns[loops[i].conn]
  IN  /\ loops[i].pc = "reading"
      /\ \/ k.inbox = << >> /\ ~k.up
         \/ k.inbox # << >> /\ Head(k.inbox).kind = "oversize"
         \/ ~k.wtask
      /\ loops' = [loops EXCEPT ![i].pc = "closing"]
      /\ UNCHANGED <<running, writer, pending, calls, conns, events, sent, coordinator>>

(* Mutants of Clears: the callers of the lost connection are left waiting, *)
(* or the coordinator is not told.                                         *)
Clears_KeepsCallers(i) ==
  /\ loops[i].pc = "closing"
  /\ writer' = None
  /\ conns' = [conns EXCEPT ![loops[i].conn].wtask = FALSE]
  /\ Emit("Disconnected", loops[i].conn)
  /\ Reach(i, IF running THEN "sleeping" ELSE "done")
  /\ UNCHANGED <<running, pending, calls, sent, coordinator>>

Clears_Silent(i) ==
  /\ loops[i].pc = "closing"
  /\ writer' = None
  /\ pending' = {}
  /\ calls' = Dropped
  /\ conns' = [conns EXCEPT ![loops[i].conn].wtask = FALSE]
  /\ Reach(i, IF running THEN "sleeping" ELSE "done")
  /\ UNCHANGED <<running, events, sent, coordinator>>

Clears(i) ==
  /\ loops[i].pc = "closing"
  /\ writer' = None
  /\ pending' = {}
  /\ calls' = Dropped
  /\ conns' = [conns EXCEPT ![loops[i].conn].wtask = FALSE]
  /\ Emit("Disconnected", loops[i].conn)
  /\ Reach(i, IF running THEN "sleeping" ELSE "done")
  /\ UNCHANGED <<running, sent, coordinator>>

Wakes(i) ==
  /\ loops[i].pc = "sleeping"
  /\ Reach(i, "connecting")
  /\ UNCHANGED <<running, writer, pending, calls, conns, events, sent, coordinator>>
-----------------------------------------------------------------------------
(* writer_loop. *)
Writes(c) ==
  LET line == Head(conns[c].outbox)
  IN  /\ conns[c].wtask /\ conns[c].outbox # << >> /\ conns[c].up
      /\ conns' = [conns EXCEPT ![c].outbox = Tail(@),
                     ![c].asked = IF line.kind = "token_get" THEN @ \cup {line.of} ELSE @]
      /\ UNCHANGED <<running, loops, writer, pending, calls, events, sent, coordinator>>

WriteFails(c) ==
  /\ conns[c].wtask /\ conns[c].outbox # << >> /\ ~conns[c].up
  /\ conns' = [conns EXCEPT ![c].wtask = FALSE]
  /\ UNCHANGED <<running, loops, writer, pending, calls, events, sent, coordinator>>
-----------------------------------------------------------------------------
(* request_token: the sender is registered before the line is sent. *)
request_token(k) ==
  /\ calls[k].st = "idle"
  /\ \/ /\ ~Writable
        /\ calls' = [calls EXCEPT ![k].st = "notconnected"]
        /\ UNCHANGED <<pending, conns>>
     \/ /\ Writable
        /\ pending' = pending \cup {k}
        /\ calls' = [calls EXCEPT ![k] = [st |-> "waiting", conn |-> writer]]
        /\ conns' = Push(writer, LineOf("token_get", k))
  /\ UNCHANGED <<running, loops, writer, events, sent, coordinator>>

(* The timeout fires, and only then takes the lock to drop the sender. *)
TimerFires(k) ==
  /\ calls[k].st = "waiting"
  /\ calls' = [calls EXCEPT ![k].st = "expiring"]
  /\ UNCHANGED <<running, loops, writer, pending, conns, events, sent, coordinator>>

GivesUp(k) ==
  /\ calls[k].st = "expiring"
  /\ pending' = pending \ {k}
  /\ calls' = [calls EXCEPT ![k].st = "timedout"]
  /\ UNCHANGED <<running, loops, writer, conns, events, sent, coordinator>>

(* The task of a shed creation is aborted inside request_token: its sender *)
(* stays registered until a reply, or the end of the connection.           *)
CallerCancelled(k) ==
  /\ calls[k].st \in {"waiting", "expiring"}
  /\ calls' = [calls EXCEPT ![k].st = "cancelled"]
  /\ UNCHANGED <<running, loops, writer, pending, conns, events, sent, coordinator>>
-----------------------------------------------------------------------------
(* The agent. *)
AgentFrames(c) ==
  {[kind |-> kind, call |-> None] : kind \in {"ack", "ping", "request", "junk", "oversize"}}
    \cup {[kind |-> "token", call |-> k] : k \in conns[c].asked}

AgentSends(c, f) ==
  /\ conns[c].up
  /\ sent < MaxSends
  /\ sent' = sent + 1
  /\ conns' = [conns EXCEPT ![c].inbox = Append(@, f)]
  /\ UNCHANGED <<running, loops, writer, pending, calls, events, coordinator>>

AgentDrops(c) ==
  /\ conns[c].up
  /\ conns' = [conns EXCEPT ![c].up = FALSE]
  /\ UNCHANGED <<running, loops, writer, pending, calls, events, sent, coordinator>>
-----------------------------------------------------------------------------
(* The coordinator, as far as the connection concerns it: it forgets the   *)
(* prompts of a lost connection and the delegation with them.              *)
handle_host_event ==
  LET e == Head(events)
  IN  /\ events # << >>
      /\ events' = Tail(events)
      /\ \/ e.kind = "Connected" /\ serving' = e.conn /\ indicator' = TRUE
            /\ UNCHANGED prompts
         \/ e.kind = "Disconnected" /\ serving' = None /\ indicator' = FALSE
            /\ prompts' = {}
         \/ e.kind = "Untrusted" /\ indicator' = FALSE /\ UNCHANGED <<serving, prompts>>
         \/ e.kind = "Frame" /\ serving' = e.conn /\ prompts' = prompts \cup {e.conn}
            /\ UNCHANGED indicator
      /\ UNCHANGED <<running, loops, writer, pending, calls, conns, sent>>

(* respond: nothing is written when there is no connection. *)
respond(q) ==
  /\ prompts' = prompts \ {q}
  /\ conns' = IF Writable
              THEN Push(writer, LineOf("response", q)) ELSE conns
  /\ UNCHANGED <<running, loops, writer, pending, calls, events, sent, serving, indicator>>
-----------------------------------------------------------------------------
LoopStep(i) ==
  \/ Leaves(i) \/ ConnectFails(i) \/ Installs(i)
  \/ \E peer \in Peers : PeerUntrusted(i, peer) \/ Connects(i, peer)
  \/ read_frames(i) \/ Ends(i) \/ Clears(i) \/ Wakes(i)

Next ==
  \/ start
  \/ stop
  \/ \E i \in DOMAIN loops : LoopStep(i)
  \/ \E c \in DOMAIN conns : Writes(c)
  \/ \E c \in DOMAIN conns : WriteFails(c)
  \/ \E c \in DOMAIN conns : \E f \in AgentFrames(c) : AgentSends(c, f)
  \/ \E c \in DOMAIN conns : AgentDrops(c)
  \/ \E k \in Calls : request_token(k)
  \/ \E k \in Calls : TimerFires(k)
  \/ \E k \in Calls : GivesUp(k)
  \/ \E k \in Calls : CallerCancelled(k)
  \/ handle_host_event
  \/ \E q \in prompts : respond(q)

Spec == Init /\ [][Next]_vars

(* The tasks are scheduled and the coordinator drains its queue.  No       *)
(* timer, caller or agent has to act.                                      *)
FairSpec ==
  /\ Spec
  /\ \A i \in 1..MaxStarts :
       WF_vars(i \in DOMAIN loops /\ (read_frames(i) \/ Ends(i) \/ Clears(i)))
  /\ WF_vars(handle_host_event)
-----------------------------------------------------------------------------
(* With the types: a registered sender belongs to a caller that waits, or  *)
(* that was cancelled while it waited.                                     *)
TypeOK ==
  /\ running \in BOOLEAN
  /\ loops \in Seq(Loop)
  /\ writer \in 0..Len(conns)
  /\ pending \subseteq Calls
  /\ calls \in [Calls -> Call]
  /\ \A k \in pending : calls[k].st \in {"waiting", "expiring", "cancelled"}
  /\ conns \in Seq(Conn)
  /\ events \in Seq(Event)
  /\ sent \in Nat
  /\ serving \in 0..Len(conns)
  /\ indicator \in BOOLEAN
  /\ prompts \subseteq 1..Len(conns)

(* F10, structurally: a caller only ever waits on the connection that is   *)
(* written to now, with its sender registered, and that is a connection    *)
(* whose frames are being read: the tear-down of one never outlives the    *)
(* set-up of the next.  After stop() an aborted loop may still leave its   *)
(* writer behind.  The types are part of it.                               *)
CallersOnLiveConnection ==
  /\ TypeOK
  /\ \A k \in Calls : calls[k].st = "waiting" => k \in pending /\ calls[k].conn = writer
  /\ running /\ writer # None =>
       \E i \in DOMAIN loops : /\ loops[i].conn = writer
                               /\ loops[i].pc \in {"reading", "closing"}

(* The coordinator sees connections one after the other: whatever comes    *)
(* from one comes before its Disconnected, and that before anything of the *)
(* next.                                                                   *)
OneConnectionAtATime ==
  [][\A c \in DOMAIN conns : serving' = c => serving \in {None, c}]_vars

(* Fail closed on the wire: an answer is only ever written to a connection *)
(* other than the one that asked while the coordinator has not yet been    *)
(* handed that connection's end.                                           *)
AnswersGoToTheAsker ==
  [][\A c \in DOMAIN conns, q \in prompts :
       /\ conns'[c].outbox = Append(conns[c].outbox, LineOf("response", q))
       /\ c # q
       => \E n \in DOMAIN events : events[n] = [kind |-> "Disconnected", conn |-> q]]_vars

(* "host agent - connected" is not shown once the coordinator has handled  *)
(* everything and no connection is left, unless the client was stopped.    *)
IndicatorHonest ==
  running /\ indicator =>
    \/ events # << >>
    \/ \E i \in DOMAIN loops : loops[i].pc \in {"reading", "closing"}

(* F10: when the agent goes away, its callers are resumed without waiting  *)
(* for their own timeouts, unless the client was stopped.                  *)
DropFailsCallers ==
  \A k \in Calls :
    (calls[k].st = "waiting" /\ ~conns[calls[k].conn].up)
      ~> (calls[k].st # "waiting" \/ ~running)
=============================================================================
