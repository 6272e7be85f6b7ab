---------------------------- MODULE AppInstance -----------------------------
(***************************************************************************)
(* Starting the desktop application and serving its IPC socket             *)
(* (tauri/src-tauri/src/single_instance.rs, run and setup in lib.rs,       *)
(* IpcServer and serve_conn in ipc.rs), with the two clients the           *)
(* repository ships: a second launch, which hands over to the first, and   *)
(* shedctl (core/shedctl/src/main.rs).  Drivers are scripts that keep a    *)
(* connection open and send frame after frame.                             *)
(*                                                                         *)
(* Every launch is a process of its own; it takes the flock before it      *)
(* removes and binds the socket, and may stop at any point, leaving the    *)
(* socket file behind.  Launches run side by side, and a connection is a   *)
(* task of the serving process.                                            *)
(***************************************************************************)
EXTENDS Naturals, Sequences

CONSTANTS
  Procs,      \* launches of the application
  Ctls,       \* runs of shedctl
  Drivers,    \* scripts on the socket
  Asked,      \* the kinds of request shedctl sends
  Sent,       \* the kinds of frame a driver sends
  MaxFrames,  \* bound: frames on one connection
  None

(* "op" and "refused" are requests that dispatch answers with a result and *)
(* with an error.  "waits" is one whose dispatch awaits something that     *)
(* nothing bounds: the dialog of approval.decide, the output of a process  *)
(* that an rc op started.                                                  *)
FrameKinds == {"activate", "op", "refused", "waits", "blank", "garbled", "oversize"}
Clients == Procs \cup Ctls \cup Drivers

ASSUME ClientsAssumption ==
  /\ None \notin Procs
  /\ Procs \cap Ctls = {} /\ Procs \cap Drivers = {} /\ Ctls \cap Drivers = {}
ASSUME FramesAssumption ==
  Asked \subseteq {"op", "refused", "waits"} /\ Sent \subseteq FrameKinds /\ MaxFrames \in Nat

VARIABLES
  pc,         \* launch -> where run() stands
  lock,       \* the holder of the flock
  unlocked,   \* launches that went on without it
  sock,       \* whose listener the socket path names
  listening,  \* launches whose accept loop runs
  raised,     \* launches whose activation has shown the running window
  conn,       \* client -> its connection
  call        \* shedctl run -> "off", "sent", "ok" or "failed"

vars == <<pc, lock, unlocked, sock, listening, raised, conn, call>>
net == <<listening, raised, conn, call>>

Reply == [id: 1..MaxFrames \cup {None}, ok: BOOLEAN]

(* frames is all the client wrote, taken how much of it the server has     *)
(* read, busy that it is answering the last frame taken, out all it wrote, *)
(* hup that the client has closed its end.                                 *)
NoConn == [srv |-> None, state |-> "none", frames |-> << >>, taken |-> 0,
           busy |-> FALSE, out |-> << >>, hup |-> FALSE]

(* Either end closes; of a connection closed at both ends nothing is kept. *)
Forgotten == [NoConn EXCEPT !.state = "closed", !.hup = TRUE]

Closes(k) == IF k.hup THEN Forgotten ELSE [k EXCEPT !.state = "closed", !.busy = FALSE]

HangsUp(k) == IF k.state = "closed" THEN Forgotten ELSE [k EXCEPT !.hup = TRUE]

Opened(frames) == [NoConn EXCEPT !.srv = sock, !.state = "queued", !.frames = frames]

Init ==
  /\ pc = [p \in Procs |-> "off"]
  /\ lock = None
  /\ unlocked = {}
  /\ sock = None
  /\ listening = {}
  /\ raised = {}
  /\ conn = [c \in Clients |-> NoConn]
  /\ call = [c \in Ctls |-> "off"]
-----------------------------------------------------------------------------
(* The end of a process: the kernel drops its lock and its sockets; the    *)
(* socket file and the lock file stay.                                     *)
Cut(S) == [c \in Clients |->
  IF conn[c].srv \in S /\ conn[c].state \in {"queued", "open"}
  THEN Closes(conn[c])
  ELSE conn[c]]

Ends(p) ==
  /\ pc' = [pc EXCEPT ![p] = "gone"]
  /\ lock' = IF lock = p THEN None ELSE lock
  /\ listening' = listening \ {p}
  /\ conn' = [Cut({p}) EXCEPT ![p] = HangsUp(@)]
  /\ UNCHANGED <<unlocked, sock, raised, call>>

Launch(p) ==
  /\ pc[p] = "off"
  /\ pc' = [pc EXCEPT ![p] = "acquire"]
  /\ UNCHANGED <<lock, unlocked, sock, net>>

(* A crash or a quit.  Before it serves, a launch that stops looks like    *)
(* one that fails, or that was never started.                              *)
Stops(p) == pc[p] = "serving" /\ Ends(p)
-----------------------------------------------------------------------------
(* acquire: the lock file is opened and flocked without waiting; the       *)
(* winner records its pid, and a failure there closes the file again.  Any *)
(* unexpected error lets the launch go on without the lock.                *)
acquire(p) ==
  /\ pc[p] = "acquire" /\ lock = None
  /\ lock' = p
  /\ pc' = [pc EXCEPT ![p] = "record"]
  /\ UNCHANGED <<unlocked, sock, net>>

RecordPid(p) ==
  /\ pc[p] = "record"
  /\ pc' = [pc EXCEPT ![p] = "setup"]
  /\ UNCHANGED <<lock, unlocked, sock, net>>

AcquireIo(p) ==
  /\ pc[p] \in {"acquire", "record"}
  /\ lock' = IF lock = p THEN None ELSE lock
  /\ unlocked' = unlocked \cup {p}
  /\ pc' = [pc EXCEPT ![p] = "setup"]
  /\ UNCHANGED <<sock, net>>

(* Mutant of AlreadyHeld: the second launch sets itself up all the same. *)
AlreadyHeld_GoesOn(p) ==
  /\ pc[p] = "acquire" /\ lock # None
  /\ pc' = [pc EXCEPT ![p] = "setup"]
  /\ UNCHANGED <<lock, unlocked, sock, net>>

AlreadyHeld(p) ==
  /\ pc[p] = "acquire" /\ lock # None
  /\ pc' = [pc EXCEPT ![p] = "losing"]
  /\ UNCHANGED <<lock, unlocked, sock, net>>

(* activate_running_instance: connect and send one frame.  The launch then *)
(* reads once, for two seconds at most, and returns whatever came.         *)
activate_running_instance(p) ==
  /\ pc[p] = "losing"
  /\ \/ /\ sock \in listening
        /\ conn' = [conn EXCEPT ![p] = Opened(<<"activate">>)]
        /\ pc' = [pc EXCEPT ![p] = "sent"]
        /\ UNCHANGED <<lock, unlocked, sock, listening, raised, call>>
     \/ sock \notin listening /\ Ends(p)

Returns(p) == pc[p] = "sent" /\ Ends(p)
-----------------------------------------------------------------------------
(* setup binds the socket in two steps: whatever is at the path is removed *)
(* first.  An error, here or earlier in setup, ends the process.           *)
Unlink(p) ==
  /\ pc[p] = "setup"
  /\ sock' = None
  /\ pc' = [pc EXCEPT ![p] = "unlinked"]
  /\ UNCHANGED <<lock, unlocked, net>>

bind(p) ==
  /\ pc[p] = "unlinked" /\ sock = None
  /\ sock' = p
  /\ pc' = [pc EXCEPT ![p] = "serving"]
  /\ listening' = listening \cup {p}
  /\ UNCHANGED <<lock, unlocked, raised, conn, call>>

SetupFails(p) == pc[p] \in {"setup", "unlinked"} /\ Ends(p)

(* run: one accept error ends the loop, and with it the listener, for the  *)
(* rest of the process's life.                                             *)
AcceptFails(p) ==
  /\ p \in listening
  /\ listening' = listening \ {p}
  /\ conn' = [c \in Clients |-> IF conn[c].srv = p /\ conn[c].state = "queued"
                                THEN Closes(conn[c])
                                ELSE conn[c]]
  /\ UNCHANGED <<pc, lock, unlocked, sock, raised, call>>
-----------------------------------------------------------------------------
(* serve_conn: one task per connection, one frame at a time. *)
Accept(c) ==
  /\ conn[c].state = "queued" /\ conn[c].srv \in listening
  /\ conn' = [conn EXCEPT ![c].state = "open"]
  /\ UNCHANGED <<pc, lock, unlocked, sock, listening, raised, call>>

(* write_line fails once the client is gone, and that ends the task. *)
write_line(k, reply) ==
  IF k.hup THEN Closes(k)
           ELSE [k EXCEPT !.out = Append(@, reply), !.busy = FALSE]

(* Mutant of Served: a blank line is answered like one that does not parse. *)
Served_AnswersBlank(k, f) ==
  IF f = "oversize"
  THEN Closes(write_line(k, [id |-> None, ok |-> FALSE]))
  ELSE IF f \in {"blank", "garbled"} THEN write_line(k, [id |-> None, ok |-> FALSE])
  ELSE [k EXCEPT !.busy = TRUE]

(* What reading one line leads to at once: a blank line to nothing, a line *)
(* that is no JSON to an error without an id, a line above the cap to the  *)
(* same and the end of the connection, a request to its dispatch.          *)
Served(k, f) ==
  CASE f = "blank"    -> k
    [] f = "garbled"  -> write_line(k, [id |-> None, ok |-> FALSE])
    [] f = "oversize" -> Closes(write_line(k, [id |-> None, ok |-> FALSE]))
    [] OTHER          -> [k EXCEPT !.busy = TRUE]

read_capped_line(c) ==
  LET k == conn[c]
  IN  /\ k.state = "open" /\ ~k.busy /\ k.taken < Len(k.frames)
      /\ conn' = [conn EXCEPT ![c] = Served([k EXCEPT !.taken = @ + 1],
                                            k.frames[k.taken + 1])]
      /\ UNCHANGED <<pc, lock, unlocked, sock, listening, raised, call>>

(* dispatch, as far as its answer goes: an op without a handler, one with  *)
(* a bad parameter and one whose handler fails are refused.                *)
dispatch(f) == f # "refused"

(* Mutant of handle_line: the activation is acknowledged and not carried out. *)
handle_line_NoRaise(c) ==
  LET k == conn[c]
      f == k.frames[k.taken]
  IN  /\ k.state = "open" /\ k.busy
      /\ conn' = [conn EXCEPT ![c] =
                    write_line(k, [id |-> k.taken, ok |-> dispatch(f)])]
      /\ UNCHANGED <<pc, lock, unlocked, sock, listening, raised, call>>

(* The main window is shown, whether it was hidden in the tray or not. *)
present_main_window(c) == raised \cup ({c} \cap Procs)

(* handle_line, once dispatch has its answer: the reply carries the id. *)
handle_line(c) ==
  LET k == conn[c]
      f == k.frames[k.taken]
  IN  /\ k.state = "open" /\ k.busy
      /\ conn' = [conn EXCEPT ![c] =
                    write_line(k, [id |-> k.taken, ok |-> dispatch(f)])]
      /\ raised' = IF f = "activate" THEN present_main_window(c) ELSE raised
      /\ UNCHANGED <<pc, lock, unlocked, sock, listening, call>>

ServeEof(c) ==
  LET k == conn[c]
  IN  /\ k.state = "open" /\ ~k.busy /\ k.hup /\ k.taken = Len(k.frames)
      /\ conn' = [conn EXCEPT ![c] = Closes(@)]
      /\ UNCHANGED <<pc, lock, unlocked, sock, listening, raised, call>>
-----------------------------------------------------------------------------
(* shedctl: connect, write one frame, read one line; an end of stream is   *)
(* no JSON and counts as an error reply.  It sets no timeout.              *)
Ends_ctl(c, outcome) ==
  /\ call' = [call EXCEPT ![c] = outcome]
  /\ conn' = [conn EXCEPT ![c] = HangsUp(@)]
  /\ UNCHANGED <<pc, lock, unlocked, sock, listening, raised>>

exchange(c, f) ==
  /\ call[c] = "off"
  /\ \/ /\ sock \in listening
        /\ conn' = [conn EXCEPT ![c] = Opened(<<f>>)]
        /\ call' = [call EXCEPT ![c] = "sent"]
        /\ UNCHANGED <<pc, lock, unlocked, sock, listening, raised>>
     \/ sock \notin listening /\ Ends_ctl(c, "failed")

parse_reply(c) ==
  /\ call[c] = "sent"
  /\ \/ /\ conn[c].out # << >>
        /\ Ends_ctl(c, IF conn[c].out[1].ok THEN "ok" ELSE "failed")
     \/ conn[c].state = "closed" /\ Ends_ctl(c, "failed")

(* A script on the socket, which stays connected. *)
DriverSends(d, f) ==
  /\ ~conn[d].hup
  /\ \/ /\ conn[d].state = "none" /\ sock \in listening
        /\ conn' = [conn EXCEPT ![d] = Opened(<<f>>)]
     \/ /\ conn[d].state \in {"queued", "open"}
        /\ Len(conn[d].frames) < MaxFrames
        /\ conn' = [conn EXCEPT ![d].frames = Append(@, f)]
  /\ UNCHANGED <<pc, lock, unlocked, sock, listening, raised, call>>
-----------------------------------------------------------------------------
(* What run() does by itself. *)
Starts(p) ==
  \/ acquire(p) \/ RecordPid(p) \/ AcquireIo(p) \/ AlreadyHeld(p)
  \/ activate_running_instance(p) \/ Returns(p)
  \/ Unlink(p) \/ bind(p) \/ SetupFails(p)

Serves(c) == Accept(c) \/ read_capped_line(c) \/ handle_line(c) \/ ServeEof(c)

(* The dispatch under way ends by itself. *)
Prompt(k) == k.busy => k.frames[k.taken] # "waits"

Next ==
  \/ \E p \in Procs : \/ Launch(p) \/ Stops(p) \/ Starts(p)
                      \/ AcceptFails(p)
  \/ \E c \in Clients : Serves(c)
  \/ \E c \in Ctls : (\E f \in Asked : exchange(c, f)) \/ parse_reply(c)
  \/ \E d \in Drivers : \E f \in Sent : DriverSends(d, f)

Spec == Init /\ [][Next]_vars

(* The processes run: startup code does not pause, the runtime polls every *)
(* connection's task, shedctl reads what is there.  Nobody has to launch,  *)
(* quit, call, hang up, answer a dialog or let go of a pipe.               *)
FairSpec ==
  /\ Spec
  /\ \A p \in Procs : WF_vars(Starts(p))
  /\ \A c \in Clients : WF_vars(Prompt(conn[c]) /\ Serves(c))
  /\ \A c \in Ctls : WF_vars(parse_reply(c))
-----------------------------------------------------------------------------
Stages == {"off", "acquire", "record", "setup", "unlinked", "serving", "losing",
           "sent", "gone"}

TypeOK ==
  /\ pc \in [Procs -> Stages]
  /\ lock \in Procs \cup {None}
  /\ unlocked \subseteq Procs
  /\ sock \in Procs \cup {None}
  /\ listening \subseteq Procs

(* The lock is with every launch that got past acquire the regular way. *)
HoldsLock(p) ==
  pc[p] \in {"record", "setup", "unlinked", "serving"} /\ p \notin unlocked => lock = p

(* "A second launch never unlinks the live socket": while a launch that    *)
(* holds the lock serves, the path leads to it, unless some launch went on *)
(* without the lock (lib.rs lets it, so that the user is not blocked).     *)
PrimaryOwnsSocket ==
  \A p \in listening \ unlocked :
    sock = p \/ sock \in unlocked \/ (sock = None /\ unlocked # {})

IInv ==
  /\ TypeOK
  /\ \A p \in Procs : HoldsLock(p)
  /\ \A p \in listening : pc[p] = "serving"
  /\ \A p \in Procs : pc[p] = "off" => p \notin unlocked
  /\ PrimaryOwnsSocket

(* The replies on a connection match its frames: the n-th answers frame    *)
(* of[n], which calls for an answer, and carries its id unless it could    *)
(* not be parsed; and a frame that was read and has no reply comes after   *)
(* all that have one, on an open connection as the one being answered.     *)
Answers(k, of) ==
  /\ \A m, n \in DOMAIN k.out : m < n => of[m] < of[n]
  /\ \A n \in DOMAIN k.out :
       /\ k.frames[of[n]] # "blank"
       /\ k.out[n].id = IF k.frames[of[n]] \in {"garbled", "oversize"} THEN None ELSE of[n]
  /\ \A i \in 1..k.taken :
       k.frames[i] # "blank" /\ (\A n \in DOMAIN k.out : of[n] # i) =>
         /\ \A n \in DOMAIN k.out : of[n] < i
         /\ k.state = "open" => k.busy /\ i = k.taken
  /\ k.busy => \A n \in DOMAIN k.out : of[n] < k.taken

(* Every request on a connection gets exactly one reply, in the order of   *)
(* the requests and under its own id, whatever blank, broken or oversized  *)
(* lines come between them and however the tasks interleave.               *)
RepliesInOrder ==
  \A c \in Clients :
    \E of \in [DOMAIN conn[c].out -> 1..conn[c].taken] : Answers(conn[c], of)

(* Everybody gets through who waits for the application alone.  No launch  *)
(* hangs before it serves or ends; a second one reads for two seconds at   *)
(* most and goes, but its activation, once accepted, still shows the       *)
(* running window unless that process ends first, whatever request of      *)
(* somebody else is under way.  shedctl has no timeout and gets an answer  *)
(* all the same, unless its own request waits for a dialog or a pipe; and  *)
(* also then once that server is gone, which is an end of stream.          *)
CallsEnd ==
  /\ \A p \in Procs : pc[p] = "acquire" ~> pc[p] \in {"serving", "gone"}
  /\ \A p \in Procs : conn[p].state = "open" ~>
                         p \in raised \/ \E q \in Procs \ {p} : pc[q] = "gone"
  /\ \A c \in Ctls :
       call[c] = "sent" /\ (\/ conn[c].frames # <<"waits">>
                           \/ \E q \in Procs : conn[c].srv = q /\ pc[q] = "gone")
         ~> call[c] \in {"ok", "failed"}
=============================================================================
