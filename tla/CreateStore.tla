---------------------------- MODULE CreateStore -----------------------------
(***************************************************************************)
(* Pull-based shed creation (core/shed-core/src/create.rs) over the event  *)
(* stream of http.rs: start enters a record and spawns a task, the task    *)
(* folds the stream's events into the record, the dialog polls it, cancel  *)
(* removes it and aborts the task.                                         *)
(*                                                                         *)
(* An await is a point where the task is polled.  It goes on when what it  *)
(* waits for is there, and is parked otherwise.  abort() drops a parked    *)
(* task; one that is being polled runs on, through every further chunk     *)
(* that is there already, until it would park.  The server is external.    *)
(***************************************************************************)
EXTENDS Naturals, Sequences

CONSTANTS
  Creates,    \* creations
  MaxChunks   \* bound: chunks the server sends, to all of them

ASSUME CreateAssumption == MaxChunks \in Nat

VARIABLES
  store,   \* creation -> {} or {CreateProgress}
  task,    \* creation -> its streaming task
  dialog,  \* creation -> what the New Shed dialog does
  chunks,  \* chunks sent
  good     \* history: did the server report the shed as created?

createVars == <<store, task, dialog, chunks, good>>

(* "bad": a complete event whose shed does not decode; "other": a comment, *)
(* an unknown event, or a progress event without a message.                *)
SseEvent == {"progress", "complete", "bad", "error", "other"}
CreateProgress == [state: {"progress", "complete", "error"}, messages: Nat,
                   shed: BOOLEAN, error: BOOLEAN]
Task == [pc: {"none", "token", "sending", "streaming", "feeding", "finishing", "done"},
         events: Seq(SseEvent), saw_complete: BOOLEAN, aborted: BOOLEAN,
         parked: BOOLEAN]

Fresh == [state |-> "progress", messages |-> 0, shed |-> FALSE, error |-> FALSE]

CreateInit ==
  /\ store = [i \in Creates |-> {}]
  /\ task = [i \in Creates |-> [pc |-> "none", events |-> << >>, saw_complete |-> FALSE,
                                aborted |-> FALSE, parked |-> FALSE]]
  /\ dialog = [i \in Creates |-> "closed"]
  /\ chunks = 0
  /\ good = {}
-----------------------------------------------------------------------------
(* StoreSink: every callback looks its record up, and skips a removed one. *)
on_progress(i) ==
  store' = [store EXCEPT ![i] = {[p EXCEPT !.messages = @ + 1] : p \in @}]

on_complete(i) ==
  store' = [store EXCEPT ![i] = {[p EXCEPT !.state = "complete", !.shed = TRUE] : p \in @}]

on_error(i) ==
  store' = [store EXCEPT ![i] = {[p EXCEPT !.state = "error", !.error = TRUE] : p \in @}]

Awaiting == {"token", "sending", "streaming"}

(* What the task waits for is not there: it parks, unless it was aborted. *)
Parks(i) ==
  /\ task[i].pc \in Awaiting /\ ~task[i].parked
  /\ task' = [task EXCEPT ![i].parked = ~task[i].aborted,
                          ![i].pc = IF task[i].aborted THEN "done" ELSE @]
  /\ UNCHANGED <<store, dialog, chunks, good>>

(* create_shed: an error of the stream is the last thing it reports. *)
Fails(i) ==
  /\ on_error(i)
  /\ task' = [task EXCEPT ![i].pc = "done", ![i].events = << >>, ![i].parked = FALSE]
-----------------------------------------------------------------------------
(* The id is fresh and unknown to anyone before start returns.  A task     *)
(* that was never polled is dropped like a parked one.                     *)
start(i) ==
  /\ task[i].pc = "none"
  /\ store' = [store EXCEPT ![i] = {Fresh}]
  /\ task' = [task EXCEPT ![i].pc = "token", ![i].parked = TRUE]
  /\ dialog' = [dialog EXCEPT ![i] = "polling"]
  /\ UNCHANGED <<chunks, good>>

(* Mutant of cancel: the task is not aborted. *)
cancel_NoAbort(i) ==
  /\ store[i] # {}
  /\ store' = [store EXCEPT ![i] = {}]
  /\ UNCHANGED <<task, chunks, good>>

cancel(i) ==
  /\ store[i] # {}
  /\ store' = [store EXCEPT ![i] = {}]
  /\ task' = [task EXCEPT ![i].aborted = TRUE,
                          ![i].pc = IF task[i].parked THEN "done" ELSE @,
                          ![i].parked = FALSE]
  /\ UNCHANGED <<chunks, good>>

(* create.cancel over IPC, by anyone who knows the id. *)
IpcCancels(i) == cancel(i) /\ UNCHANGED dialog

(* The dialog's tick: it stops at a final state, and goes on otherwise. *)
Polls(i) ==
  /\ dialog[i] = "polling"
  /\ \E p \in store[i] : /\ p.state # "progress"
                         /\ dialog' = [dialog EXCEPT ![i] = p.state]
  /\ UNCHANGED <<store, task, chunks, good>>

(* Closing the dialog cancels a creation that it has not seen complete. *)
Closes(i) ==
  /\ dialog[i] # "closed"
  /\ dialog' = [dialog EXCEPT ![i] = "closed"]
  /\ IF dialog[i] = "complete" \/ store[i] = {}
     THEN UNCHANGED <<store, task, chunks, good>>
     ELSE cancel(i)
-----------------------------------------------------------------------------
(* create_stream: the bearer is obtained, or there is none. *)
HasBearer(i) ==
  /\ task[i].pc = "token"
  /\ task' = [task EXCEPT ![i].pc = "sending", ![i].parked = FALSE]
  /\ UNCHANGED <<store, dialog, chunks, good>>

Responds(i) ==
  /\ task[i].pc = "sending"
  /\ task' = [task EXCEPT ![i].pc = "streaming", ![i].parked = FALSE]
  /\ UNCHANGED <<store, dialog, chunks, good>>

(* A transport error or a status outside 200..299. *)
SendFails(i) ==
  /\ task[i].pc = "sending"
  /\ Fails(i)
  /\ UNCHANGED <<dialog, chunks, good>>

(* What one chunk completes: nothing, one event, or (a bound) two. *)
Batches == UNION {[1..n -> SseEvent] : n \in 0..2}

Chunk(i, batch) ==
  /\ task[i].pc = "streaming"
  /\ chunks < MaxChunks
  /\ chunks' = chunks + 1
  /\ task' = [task EXCEPT ![i].pc = "feeding", ![i].events = batch,
                          ![i].parked = FALSE]
  /\ UNCHANGED <<store, dialog, good>>

(* Mutant of IdleTimeout: the stream is taken for finished. *)
IdleTimeout_Quiet(i) ==
  /\ task[i].pc = "streaming"
  /\ task' = [task EXCEPT ![i].pc = "done", ![i].parked = FALSE]
  /\ UNCHANGED <<store, dialog, chunks, good>>

(* No byte for CREATE_IDLE_TIMEOUT once parked, or the stream breaks. *)
IdleTimeout(i) ==
  /\ task[i].pc = "streaming"
  /\ Fails(i)
  /\ UNCHANGED <<dialog, chunks, good>>

(* The end of the stream: what the parser still holds is handled as well. *)
Eof(i, batch) ==
  /\ task[i].pc = "streaming"
  /\ Len(batch) <= 1
  /\ task' = [task EXCEPT ![i].pc = "finishing", ![i].events = batch,
                          ![i].parked = FALSE]
  /\ UNCHANGED <<store, dialog, chunks, good>>

(* handle_create_event, for the next event of the chunk. *)
handle_create_event(i) ==
  LET t == task[i]
      rest == [task EXCEPT ![i].events = Tail(@)]
  IN  /\ t.pc \in {"feeding", "finishing"}
      /\ t.events # << >>
      /\ \/ Head(t.events) = "progress" /\ on_progress(i) /\ task' = rest
            /\ UNCHANGED good
         \/ Head(t.events) = "complete" /\ on_complete(i)
            /\ task' = [rest EXCEPT ![i].saw_complete = TRUE]
            /\ good' = good \cup {i}
         \/ Head(t.events) \in {"bad", "error"} /\ Fails(i) /\ UNCHANGED good
         \/ Head(t.events) = "other" /\ UNCHANGED <<store, good>> /\ task' = rest
      /\ UNCHANGED <<dialog, chunks>>

(* The task is back at the stream, whether or not it was aborted. *)
ChunkDone(i) ==
  /\ task[i].pc = "feeding" /\ task[i].events = << >>
  /\ task' = [task EXCEPT ![i].pc = "streaming"]
  /\ UNCHANGED <<store, dialog, chunks, good>>

(* Mutant of StreamEnds: the end of the stream needs no complete event. *)
StreamEnds_Lenient(i) ==
  /\ task[i].pc = "finishing" /\ task[i].events = << >>
  /\ task' = [task EXCEPT ![i].pc = "done"]
  /\ UNCHANGED <<store, dialog, chunks, good>>

(* "stream ended before a complete event", unless there was one. *)
StreamEnds(i) ==
  /\ task[i].pc = "finishing" /\ task[i].events = << >>
  /\ \/ /\ task[i].saw_complete
        /\ task' = [task EXCEPT ![i].pc = "done"]
        /\ UNCHANGED store
     \/ ~task[i].saw_complete /\ Fails(i)
  /\ UNCHANGED <<dialog, chunks, good>>

TaskRuns(i) ==
  \/ HasBearer(i) \/ handle_create_event(i) \/ ChunkDone(i) \/ StreamEnds(i)
  \/ IdleTimeout(i) \/ Parks(i)

Server(i) ==
  \/ Responds(i) \/ SendFails(i)
  \/ \E batch \in Batches : Chunk(i, batch) \/ Eof(i, batch)

CreateNext ==
  \E i \in Creates :
    \/ start(i) \/ IpcCancels(i) \/ Polls(i) \/ Closes(i) \/ TaskRuns(i) \/ Server(i)

CreateSpec == CreateInit /\ [][CreateNext]_createVars

(* The task is scheduled, its token request and its idle timer expire, and *)
(* the dialog's timer runs.  The server need not do anything.              *)
FairSpec ==
  /\ CreateSpec
  /\ \A i \in Creates : WF_createVars(TaskRuns(i)) /\ WF_createVars(Polls(i))
-----------------------------------------------------------------------------
CreateTypeOK ==
  /\ store \in [Creates -> SUBSET CreateProgress]
  /\ task \in [Creates -> Task]
  /\ dialog \in [Creates -> {"closed", "polling", "complete", "error"}]
  /\ chunks \in 0..MaxChunks
  /\ good \subseteq Creates

(* The record ends, and ends true.  When the task has ended and nobody     *)
(* cancelled, it is final, so that no way for the stream to end leaves the *)
(* dialog polling for ever; "complete" is only ever shown with a shed, and *)
(* only when the server reported one; a failure always has a message.      *)
EndsTruthfully ==
  /\ CreateTypeOK
  /\ \A i \in Creates : \A p \in store[i] :
       /\ task[i].pc = "done" => p.state # "progress"
       /\ p.state = "complete" => p.shed /\ i \in good
       /\ p.state = "error" => p.error

(* A cancelled creation is gone: whatever its task still reads of what is  *)
(* there already brings nothing back, and the task never again waits for   *)
(* the server, at none of its awaits.                                      *)
CancelIsFinal ==
  [][\A i \in Creates : task[i].pc # "none" /\ store[i] = {} =>
       store'[i] = {} /\ ~task'[i].parked]_createVars

(* What the dialog waits for comes once the server has answered: a stream  *)
(* that goes silent, breaks or ends resolves the creation, and a cancelled *)
(* one leaves no task behind.                                              *)
StreamedCreateEnds ==
  \A i \in Creates : task[i].pc = "streaming" ~>
    task[i].pc = "done" /\ (dialog[i] # "polling" \/ store[i] = {})
=============================================================================
