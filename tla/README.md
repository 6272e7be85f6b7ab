# shed-desktop in TLA+

shed-desktop is a desktop companion for *sheds* (remote development machines).
Its Rust core (`src/core`) and its Tauri shell (`src/tauri`) broker credential
approvals for a host agent, mint and cache control tokens, create sheds over a
stream, run remote-control sessions over ssh, open terminals, serve an IPC
socket and keep preferences and an audit log. This
directory specifies the parts of that program in which several things happen
at once: TLA+ modules translated from the source, TLC runs on small instances,
and theorems that TLAPS proves for every value of the constants.

The Swift application under `src/Sources` is the older implementation of the
same protocols. The Rust code is the reference here.

## 1. The system and what is hard about it

| Component (source) | State | Operations | Interacts with |
|---|---|---|---|
| Approval coordinator (`core/shed-app/src/coordinator.rs`) | queue of prompts, in-flight markers, session grants, rules, SSH preferences, delegated namespaces | host events, `Decide` (two phases around an OS dialog), `GateResolved`, `Expire`, `SetSshApproval`, `SetPolicyRules`, notification actions | host-agent client (events in, `respond` out), notifier, gate, audit, UI |
| Policy engine (`core/shed-core/src/approval/policy.rs`, `models.rs`) | none | `decide` | coordinator |
| Desktop notifier (`tauri/src-tauri/src/approval.rs`) | id → banner entry, generation counter | `post`, its spawned task, `withdraw` | coordinator, the D-Bus notification daemon |
| Host-agent client (`core/shed-app/src/host_agent.rs`) | running flag, writer of the current connection, registered token callers | `start`, `stop`, `run_loop`, writer task, `request_token`, `respond` | host agent (Unix socket), coordinator (event channel), token minter |
| Control token (`core/shed-core/src/token.rs`, `core/shed-app/src/token_minter.rs`, `http.rs`) | cached token behind a mutex held across the mint | `token`, `invalidate`, request with one retry after 401 | host-agent client, shed-server |
| Shed creation (`core/shed-core/src/create.rs`, `http.rs`, `sse.rs`, `tauri/ui/src/App.tsx`) | id → progress record and task handle | `start`, `status`, `cancel`, the streaming task | shed-server, New Shed dialog |
| Remote-control sessions (`core/shed-app/src/rc.rs`, `backend.rs`) | table of sessions, `op_guard` | `launch`, `kill`, `list` | ssh, the sheds |
| Preferences (`tauri/src-tauri/src/prefs.rs`, `lib.rs`, `ipc.rs`) | `PrefsStore` and `prefs.json` | `set_ssh_approval` in three steps, `set_terminal`, restart | coordinator, disk |
| Audit store (`core/shed-app/src/audit_store.rs`) | bounded tail in memory, JSONL file | `append`, `recent`, restart | coordinator, disk |
| Single instance and IPC server (`tauri/src-tauri/src/single_instance.rs`, `lib.rs`, `ipc.rs`) | the flock, the socket path, connections | `acquire`, `bind`, accept loop, `serve_conn`, `app.activate` | other launches, `shedctl`, scripts |
| UI relay and dashboard (`state.rs`, `ipc.rs`, `tray.rs`, `tauri/ui/src/lib/bridge.ts`) | last reported snapshot, refresh sequence; rows, fetch generation and listeners of the webview | `ui_report`, `ui.navigate`, `sheds.refresh`, mount, fetch, render, report | backend, event and report queues |
| Configuration, environment, HTTP construction (`config.rs`, `env.rs`, `backend.rs`, `http.rs`, `tls.rs`) | none after start | `parse`, `from_process`, `from_config`, `client_for` | every HTTP and ssh call |
| Terminal control and remote-control helpers (`terminal.rs`, `termctl.rs`, `core/shed-core/src/rc.rs`) | none | quoting, `resolve_launch`, `create_invocation`, `classify_pane` | ssh, shells, the guest's `shed-ext-rc` |

How they interact: the host-agent client's read loop puts `Connected`,
`Disconnected`, `PeerUntrusted` and `Frame` events into a channel; the
coordinator handles one command at a time, answers through `respond`, which
writes to whatever connection is installed at that moment, and posts and
withdraws banners. An approve that needs native authentication leaves the
actor: a task runs the OS dialog and re-enters as `GateResolved`. HTTP clients
take their bearer token from the provider, which mints through the host-agent
client. Creation runs in a task per shed; the dialog polls its record.

What is hard to test, and what would make each part correct (the full list,
with lines, is under `hazards` in PROJECT.json):

* a decision, a dialog, the expiry sweep, a settings change and a disconnect
  race for one request: one answer at most, in time, on its own connection, and
  by consent to that very request;
* a request whose id is used again while the dialog of the earlier one is open;
* grants and rules that approve later requests silently: always earned, ended
  by a deny and by the end of the connection;
* the daemon's reply to `Notify` arriving after a withdrawal or a newer post;
* a connection that drops under token callers and prompts, and the next one;
* a 401 that invalidates a token somebody else is renewing, a cancelled task
  that holds the mint lock, a failed mint;
* a stream that stops, breaks or ends early; a cancellation in mid-chunk;
* a list that resolved its targets earlier than the state it overwrites;
* a process that stops while the preferences file is cut short, or in the middle
  of a line of the audit log;
* processes that start together, fail between lock and socket, or lose the
  socket under their clients; replies that must not shift against requests;
* a refresh whose event is lost, or that an older fetch answers;
* text at a boundary: an indentation the reader does not expect, an empty word
  to quote, a TTL that overflows, a prompt that the guest is not told to read.

## 2. Modules

| Module | Models | Notes |
|---|---|---|
| `PolicyEngine` | `PolicyEngine::decide` and the enumerations | constant-level operators |
| `Coordinator` | the actor; extends `PolicyEngine` | one action per command |
| `DBusNotifier` | banners and their generations | daemon external |
| `HostAgentClient` | `run_loop` between its awaits, writer task, callers, and of the coordinator what the connection concerns | agent external |
| `ControlToken` | cache, mutex, mint, 401 retry | agent and server external |
| `CreateStore` | record, streaming task, dialog | server external; `CreateSpec` and the like, so that it can be extended beside `AppData` |
| `RcService` | launch, kill, list and the table | sheds external |
| `ApprovalLedger` | what the coordinator promises the host agent | abstract; `Coordinator` implements it (`KeepsLedger`) |
| `PrefsStore`, `AuditStore` | the two files | `AppData` composes them in one process that restarts |
| `AppInstance` | launches, lock, socket, connections, `shedctl` | kernel and scripts external |
| `UiBridge` | webview, UI state, `sheds.refresh`, `ui.navigate` | hosts change by themselves |
| `ConfigReader` | `yaml_lite` and `ShedConfig::parse` | a step per line; the calls of the recursive `build` are a stack |
| `Fleet` | configuration and environment to HTTP clients and ssh targets | constant-level |
| `Launching` | ssh commands, quoting, terminals, the contract with `shed-ext-rc` | constant-level |
| `Evaluation` | `PolicyEngine`, `Fleet` and `Launching` on the inputs of a set | one function, one input, one evaluation |
| `CommandLine` | the quoted line of an ssh command, a piece per step, and a shell reading it | the shell is external |
| `*_proofs` | theorems about the module of that name | extend TLAPS; `Stores_proofs` is about `AppData` and `CreateStore`, `Remote_proofs` about `ControlToken`, `RcService` and `CommandLine`, `Evaluation_proofs` about `Evaluation` and `ConfigReader` |
| `MC*` | model values and the inputs of the runs | |

Definitions keep the source's names where there is a function to name
(`handle_approval_request`, `begin_decide`, `finish_decide`, `expire_pending`,
`reevaluate_pending`, `set_ssh_approval`, `read_frames`, `resolve_pending`,
`invalidate`, `handle_create_event`, ...); a step that is only a stretch of a
function between two awaits has a name of its own (`Installs`, `Clears`,
`TimerFires`). `map` in PROJECT.json gives the lines of each. Operators called
`X_Something` and introduced as *Mutant of X* are deliberately wrong variants of
`X`; nothing uses them in the specifications, and each one breaks a property
when it takes the place of `X`.

**Coordinator.** `pending`, `gating`, `session_grants`, `engine`,
`extra_rules`, `ssh` and `gate_namespaces` are the fields of `State`. `gates`
holds the dialog tasks, each with what `begin_decide` captured. `asked` and
`answers` are history: every received request has a number, so two requests
that share an id can be told apart, which the program itself cannot do.
`invoked` is the command a notification action sends to the actor after it was
checked: between check and decision other commands may run. An expiry is a
time or `Unparseable`; such a request is neither approvable by a user nor swept.

**DBusNotifier.** A post is identified by its generation, which also stands for
the daemon's id of the banner it raised. `wanted` is history: the latest post
of each id that was not withdrawn.

**HostAgentClient.** The loop can be aborted at an await only, so an aborted
loop at `"established"` or `"closing"` still runs on to its next await. A token
caller's timer fires first and takes the lock afterwards. Durations (back-off,
timeouts) are left out: an await may end at any later time.

**ControlToken.** Tokens are numbered in the order of issue, so "fresh" is an
order. `mark` is what had been issued when the 401 arrived.

**CreateStore.** A chunk completes a batch of events that is handled without an
await. Tokio's `abort` drops a task only where it is parked: at an await the task goes
on if what it waits for is there, cancelled or not, and `Parks` is the poll that finds
nothing, at which an aborted task ends. So a cancelled creation may read every chunk
that has come in, but never waits for another one.

**RcService** lets sheds and sessions come and go by themselves and a command that
failed here take effect there. The filter of a list is any set of sheds, as host, name
or both select it.

**PrefsStore.** The SSH preferences are method, policy and TTL. A command may set any
of the three, and the TTL to any text; `ssh_prefs_from_store` reads an empty one as the
default. A save truncates and then writes; it may be refused before (`SaveFails`), fail
after the truncation with the process going on (`SaveBreaks`), or be cut off by the end
of the process. While the file is cut short it counts as absent, as `load` does with
text that does not parse.

**ApprovalLedger.** `open` is mapped to the numbers of the queued requests, `sent`
to `answers`, `epoch` to the connections lost. A request is answered at once or
left open; an open one is answered exactly once, or given up with its connection
or for a request of the same id; nothing is ever answered afterwards.

**AppInstance.** Every launch is a process: `acquire`, `RecordPid`, `Unlink`,
`bind` are separate steps because another process may run between them; `Ends`
is the kernel releasing lock and sockets but not the socket file. A connection
is a queue of frames in and replies out. A client may hang up at any time. The kind
`"waits"` is a request whose dispatch awaits something nothing bounds: the OS dialog
behind `approval.decide`, the output of a process behind the rc operations.

**UiBridge.** Of the hosts only the version of the shed list is kept, so "fresh"
is an order. Events to the webview are lost while their listener is not attached;
a fetch reads its hosts one after the other, and fetches overlap.

**ConfigReader.** A line is its kind, indentation, key and whether it has a value;
the value is told by the place of the line, so a field names the line it was read
from. Every call of `build` that is under way is a block on the stack `blocks`:
`OpensBlock` is the recursive call, `ClosesBlock` its return and the insertion by
the caller. Which lines belong to which block is stated on the text alone
(`Within`), without the reader. `FieldsStayInTheirServer` says that no server is given
a field of another block, for any text; `RegularIsRead` that a text laid out as the
shed CLI does loses none. `ServersAsWritten` is both.

**Launching, CommandLine.** Text is a sequence of characters in which a piece that
needs no treatment is one symbol. `needs_quotes` and `within_quotes` are the two
halves of `shell_quote`; `CommandLine` writes the line of an argv with them piece by
piece (`BeginsWord`, `CopiesChar`, `EndsWord`) while a POSIX shell reads it
(`shell_reads`). `QuotedReparses` compares with the functions on whole words:
the line is the last word of `ssh_argv`, and every way of opening a terminal,
through a template of the user's, AppleScript's string literal or neither, gives the
shell the same words, after the shed's name if the template has it as a title. A
template is filled as the code does it, `{cmd}` first and then `{shed}` everywhere, so
two cases are excepted: a word with the text `{shed}` in it, and a title that would need
quotes. TLC finds a violation without either exception (section 5).

**Evaluation.** The inputs of each function are a parameter, as are the texts of
`ConfigReader` and the words of `CommandLine`: small sets in `MCFunctions`, which is
an instance of all three, any sets that satisfy the typing assumptions in the theorems.

### Left out, and why

* The UI events of the coordinator: outputs that no control flow reads back.
  `record_and_respond` appears as the answer it sends; the log it also writes is
  `AuditStore`.
* `ssh.ttl` in the coordinator: it pre-fills the cards; a decision brings its own
  TTL. How it is stored and restored is in `PrefsStore`.
* In `HostAgentClient`: between setting the writer and queueing the hello, and between
  clearing the state and sending `Disconnected`, the loop releases its lock
  (`host_agent.rs:293`, `:319`); each pair is one step. A frame queued before the hello
  and a caller refused before the `Disconnected` is sent make no difference to the
  properties, of which none is about the hello. An aborted loop ends at its next
  await, though one that is ready would let it go on; only `stop` and a second `start`
  abort.
* In `DBusNotifier`: a call that fails raised no banner and a close that reaches the
  daemon succeeds. The code ignores both errors (`approval.rs:569`, `:574`); a banner
  that the daemon keeps in spite of them is one nobody knows of or can close.
* In `UiBridge`: a host that fails is read like one that answers; its rows are
  missing (`backend.rs:168`) and come back with a later fetch.
* The `host/shed/slug` of a session in `RcService`: sessions are told apart by
  assumption. A host or shed with a slash in its name could break it.
* `extra_rules` start empty, because `lib.rs` starts the coordinator with an
  empty list. A superseded rule gets the scope `"removed"`, which matches
  nothing, instead of being taken out of the list: the order of the others is
  what counts.
* The clock never runs backwards, although the code reads the wall clock.
* In `ControlToken`, clients with a static token, which never mint (`Fleet` has
  them); in `RcService`, the test mode, which uses neither ssh nor `op_guard`
  (`Launching` has it).
* Bodies of HTTP responses, install detection of terminals, random slugs, the
  reachability roll-up and disk usage: reads without state that no other part
  acts on.
* The macOS popover: whether a click re-opens what its blur just hid depends on
  the order of window-system events, which the code does not determine.
* The JSON of frames and the bytes of the stream: a frame is its kind, and an
  over-long line is the kind `"oversize"`.
* `PROJECT.json` lists the components without a module (screenshots, FFI, test
  tools, the Swift application) with the reason.

## 3. Runs

Every run takes under four minutes with two workers.

| Run | States | What it shows |
|---|---|---|
| `coordinator_races` | 233,564 | two requests over two ids, one id in two variants, an unreadable expiry, two connections, two dialogs, clock 0..3. The refinement `KeepsLedger`, `AnswersStayInTheirConnection`, `DecidedInTime`, `ConsentBindsRequest`, `QueueIsCurrent`, the inductive invariant `IInv`, and `NoPromptLingers` under fairness |
| `coordinator_policy` | 333,286 | lasting decisions, grants, a namespace without a rule, two servers with a shed of one name, test rules, notification actions, distinct ids. `AutoApprovalEarned`, `DenyRevokes`, `OneDialogPerRequest` |
| `functions` | 908,779 | every rule list of at most three rules out of eight, and TTLs around zero and the overflow, in 20 bits for 64 (`PolicyAsDocumented`); two servers with every URL, pin, mock, mode, minter and host asked for (`FleetFailsClosed`); every launch outcome and pane (`GuestContract`); every configuration of at most five lines out of nine (`ServersAsWritten`); names and sessions of up to three characters out of eight, the placeholders of a template among them (`LineReparses`, and `QuotedReparses` through every opener and four templates) |
| `dbus_notifier` | 99,657 | four posts over two ids: `NoOrphanBanner`, `WantedNeverClosed`, and `StaleBannerGoesAway` |
| `host_agent` | 1,077,927 | two connections, two agent frames, one token caller, untrusted peers, `stop()` at any time: `CallersOnLiveConnection`, `IndicatorHonest`, `OneConnectionAtATime`, `AnswersGoToTheAsker`, `DropFailsCallers` |
| `control_token` | 935,826 | two calls and a creation, a token without expiry or one that goes stale at the boundary of the refresh window: `FreshRetry`, `SendsFreshTokenOrNone`, `CallsEnd` |
| `create_store` | 149,400 | two creations, two chunks of up to two events to one or to each, and what the end of the stream still yields: `EndsTruthfully`, `CancelIsFinal`, `StreamedCreateEnds` |
| `rc_service` | 2,419,536 | two sheds, two sessions, two lists with any filter, failing hosts and probes: `KilledStaysGone`, `FilteredKeepsOthers` |
| `app_data` | 560,900 | two clients, two methods, two TTLs and the empty one, one policy (it goes the way of the method), up to two preferences held, two terminals, three audit entries in a tail of two, failing and partial writes, restarts: `FileIsASnapshot`, `AuditTrail` |
| `app_instance` | 234,688 | two launches, one `shedctl` whose request ends by itself or waits, one script with two frames that are refused, blank or too long, crashes, failing locks and accepts: `IInv`, `RepliesInOrder`, `CallsEnd` |
| `ui_bridge` | 456,642 | one host that changes once, two requests for fresh rows, one pane opened: `EchoIsFresh`, `PaneMeansListening`, `RefreshLands` |

Why the bounds are enough. The races are between two parties over one object:
two requests of one id (the older with a dialog), a connection and its
successor, two callers of one mutex, two lists around a kill. The bounds admit
every such pair together with one bystander; the clock passes every expiry, so
each request is seen before, at and after it. More of the same kind adds
interleavings of pairs that are already there, and for the safety properties of
the state machines the theorems of section 4 remove the bounds.
`app_data`, which has no liveness property, treats its two clients as symmetric;
no other run uses symmetry. Deadlock is not checked where the program may
legitimately be idle or a bound stops the environment; `app_data` with its
restarts always has a next step, and there it is checked. In `functions` a
behaviour is one evaluation, the reading of one configuration, or the writing of one
command line. An operation that is out of range in one module is
usually in range in another: static tokens and pins in `Fleet`, the running
requests in `ControlToken`.

Every property above is broken by at least one plausible defect of the code it
is about; `mutants` in PROJECT.json pairs them.

### Fairness

* `Coordinator`: the clock and the one-second sweep (`start_expiry_tick`).
  Nothing forces the agent, the user or a dialog.
* `DBusNotifier`: spawned tasks run, and the daemon answers a call (with a
  banner or with an error) and carries out a close. This is an assumption about
  the daemon: the code has no timeout of its own.
* `HostAgentClient`: the loop's own steps after it has something to read or its
  connection ended, and the coordinator draining its channel. No timer, no
  caller and no agent has to act, so `DropFailsCallers` owes nothing to the
  callers' own timeouts.
* `ControlToken`: a mint and a call end, because both have timeouts; the mutex
  is fair, as tokio's is. A creation's send has no timeout and need not end.
* `CreateStore`: the task is polled, the idle timer of the stream expires and
  the dialog's timer runs. The server need not do anything, and the send before
  the stream begins may hang (see 5).

* `AppInstance`: start-up code does not pause, connection tasks are polled, and
  `shedctl` reads what is there. Nobody has to launch, quit, call or hang up, and a
  request of the kind `"waits"` need never end: a dialog may stay open (`pkcheck` has
  no timeout) and a pipe may be held. `CallsEnd` promises `shedctl` an answer to
  the other requests only, and everyone else their turn in spite of it.
* `UiBridge`: the event loops of the webview and of Rust run and every request to
  a host ends, because it has a timeout.

## 4. Theorems

TLAPS checks these for every value of the constants that satisfies the
modules' assumptions (typing of the inputs, bounds in Nat).

| Module | Theorem | Statement |
|---|---|---|
| `Coordinator_proofs` | `TypeCorrect`, `Invariance` | `Spec => []TypeOK`, `Spec => []IInv` |
| | `Refinement` | `Spec => KeepsLedger`: the coordinator implements `ApprovalLedger` |
| | `OneAnswerPerRequest` | `Spec => []AnsweredOnce` |
| | `MarkersHaveDialogs` | `Spec => []NoStuckGate` |
| | `AnswersKeepConnection` | `Spec => AnswersStayInTheirConnection` |
| | `DecisionsInTime` | `Spec => DecidedInTime` |
| | `ConsentIsBound` | `Spec => ConsentBindsRequest` |
| | `DenialRevokes` | `Spec => DenyRevokes` |
| | `QueueStaysCurrent` | `Spec => []QueueIsCurrent`, if `TestRules = {}` |
| | `OneDialog` | `Spec => []OneDialogPerRequest`, if `ReuseIds = FALSE` |
| | `AutoApprovalsEarned` | `Spec => AutoApprovalEarned`, if no test rule approves |
| `DBusNotifier_proofs` | `NotifierInvariance`, `NoBannerLeaks`, `NoBannerLost` | `IInv`, `NoOrphanBanner`, `WantedNeverClosed` |
| `Remote_proofs` | `TokenInvariance`, `SingleFlight`, `RetryIsFresh`, `NoDowngrade` | `IInv`, `LockFollowsMint`, `FreshRetry`, `SendsFreshTokenOrNone` |
| | `RcInvariance`, `KilledNeverReturns`, `FilteredIsLocal` | `RcInv`, `KilledStaysGone`, `FilteredKeepsOthers` |
| | `CommandLineReparses` | `LineSpec => []LineReparses` |
| `HostAgentClient_proofs` | `Invariance`, `CallersLive`, `IndicatorIsHonest`, `OneAtATime`, `AnswersReachTheAsker` | `IInv`, `CallersOnLiveConnection`, `IndicatorHonest`, `OneConnectionAtATime`, `AnswersGoToTheAsker`, each if `MaxStarts <= 1` |
| `UiBridge_proofs` | `Invariance`, `EchoStaysFresh`, `PaneListens` | `IInv`, `EchoIsFresh`, `PaneMeansListening` |
| `AppInstance_proofs` | `LockGuardsSocket`, `RepliesMatch` | `IInv`, `RepliesInOrder` |
| `Stores_proofs` | `FileSnapshot`, `TrailKept` | `AppDataSpec => []FileIsASnapshot`, `AppDataSpec => []AuditTrail` |
| | `CreationsEndTruthfully`, `CancelFinal` | `CreateSpec => []EndsTruthfully`, `CreateSpec => CancelIsFinal` |
| `Evaluation_proofs` | `MostSpecificWins`, `TtlBounded` | `decide` satisfies `MostSpecific` for all rules, requests and grants; `ttl_shorthand_seconds` never exceeds what was asked for, at any width |
| | `PolicyIsAsDocumented` | `EvalSpec => []PolicyAsDocumented` |
| | `FleetIsClosed`, `GuestContractHolds` | `EvalSpec => []FleetFailsClosed`, `EvalSpec => []GuestContract` |
| | `FieldsContained`, `ServersAreAsWritten` | `ReaderSpec => []FieldsStayInTheirServer`, `ReaderSpec => []ServersAsWritten` |

The hypotheses and why the program meets them:

* `TestRules = {}` and "no test rule approves": `set_policy_rules`
  replaces the rules in force, re-evaluates nothing that is queued, and only the
  tests and the test mode call it. With
  such a command, a prompt may show the gate of the rules it was queued under,
  and a rule may approve what no user allowed; both are what the command is for.
* `ReuseIds = FALSE`: the agent's ids are unique by contract. With a reused id two
  dialogs for one request are possible (section 5). No other theorem about the
  coordinator needs it.
* `MaxStarts <= 1`: the application calls `start` once. TLC shows that
  `CallersOnLiveConnection` fails with two (section 5).
* `TtlBounded` and `TtlAssumption` take the two powers of two of `Wrap` as positive
  numbers, because the provers do not evaluate `2^width`.
* `FleetAssumption`: no two servers of a configuration have one name, because
  `ShedConfig::parse` makes their list of a map; and the path of a configuration
  that is given is not the empty string.
* `StepAssumption`: the step by which a regular text is indented is a positive
  number, whichever: the shed CLI and the tests of the reader differ in it.
* `SpecialAssumption`: no character that `shell_quote` leaves alone means anything
  to a shell. This is what its set of safe characters is for; no other assumption is
  made about the alphabet.

The arguments:

* **Coordinator, answers.** `AnsweredOnce` is not inductive: it says nothing about
  a queued prompt whose history entry is another request's. `HistoryConsistent`
  adds that a queued prompt *is* the request received under its number, on the
  present connection, unanswered. The action lemma `StepJustified` then states,
  for any step, which answers may appear and why; the action properties about
  answers, denials included, follow from it and `IInv`. `GatesGenuine` (a dialog
  is only ever opened for an approve that needs one) is what
  `ConsentBindsRequest` needs of the dialogs. For the refinement each command is
  a step of the ledger: `handle_approval_request` queues or answers at once,
  `Disconnected` drops, and whatever answers takes the request off the queue in
  the same step, which is what `IInv` guarantees.
* **Coordinator, policy.** `RuleInv` says that the rules in force are those
  `rebuild_policy` makes of the settings and of what users persisted, and that a
  persisted rule is about one shed of one server and never prompts. So a newly
  persisted rule either decides a queued request outright or leaves its gate as
  it was (`GateKeptByRule`), and only a settings change has to reach the queue,
  which it does in the same step (`StepCurrent`). `DialogInv` adds to one dialog
  per request that requests are told apart by their ids and that a queued request
  with a dialog has its marker. `EarnInv` ties every grant and every persisted
  approve to an answer of the user in the history; since nothing in the history
  is ever rewritten (`StepHistory`), what was earned stays earned, and a grant
  only while its connection lasts, because `Disconnected` clears the grants.
* **DBusNotifier.** An entry without a banner id must have its task still
  running, an entry with one must be wanted and have no task, and generations
  are not shared (`EntriesAgree`, `Distinct`, `TasksOwn`). Without the last, a
  late task could close a newer banner.
* **ControlToken.** `FreshRetry` needs `RetryPrepared`: while a refused call
  waits for its second token, neither the cache nor a mint under way holds one
  older than the refusal. It holds because `invalidate` waits for the mutex.
* **RcService.** `KilledStaysGone` needs that no list under way still carries
  the dead session (`KilledIsDead`), and that in turn needs that at most one
  operation is at its ssh command (`Serialised`). `FilteredKeepsOthers` needs
  `ListInv`: what a list has collected comes from its targets, and these lie
  within its filter.
* **HostAgentClient.** `LoopFits` ties the place of the loop to the writer and to
  `running`, `Waiting` a caller to the writer. The events are harder: a property
  about what the coordinator has handled is about what is still queued.
  `EndsQueued` says that every connection the coordinator may still act for (one
  with a prompt, in an event, or being served) is held by the loop or has its
  `Disconnected` further back in the queue, and `Succession` that between events of
  two connections there is such an end. An answer can thus only be written to a
  successor while the end of the asker's connection is queued, which is the
  exception `AnswersGoToTheAsker` makes.
* **UiBridge.** The rows on display go with the token on display, but so must
  those of every report in the outbox (`Reports`), and a fetch that is the latest
  one leaves the token on display in place: it owes freshness not only to its own
  token (`Owes`). Generations are unique, so there is one latest fetch.
* **AppInstance.** The invariant that the run checks is inductive as it stands.
  For the replies, `ConnSane` keeps the assignment of replies to frames as a
  witness (`Answers`) which a reply extends by one (`AnswersNext`), and that only
  a proper request is ever being handled.
* **Stores.** `PrefsInv`: whatever a client has read back, the store holds or the
  file gives was once held by the coordinator as a whole, and one client writes at
  a time. What a restart makes of it differs from that by the empty TTL at most
  (`StoredRead`). `TailInv` and `FileInv`: the tail is the last entries since the start,
  and when the last line of the file is cut short the last entry is among the
  lost ones, so that a later line spoiled by it is the one after a lost entry.
  `CreationSane`: an aborted task has no record and is not parked, and a complete
  event leaves the record final.

* **ConfigReader.** `Stacked`: the calls under way were each made for a line in the
  block of the one before, every entry since is deeper than all their parents, and
  what each has in its map was read from lines of its block; the maps in it from
  blocks that lines of it opened, two levels down (`SectionsOf`, `EntriesOf`,
  `ScalarsOf`). Three levels are what a configuration has, and a level more says
  what is needed when a call returns its map to the one below. The parents are in
  increasing order, so a line that is deeper than the innermost is in all of them.
  For the converse (`RegularIsRead`), `Complete`: each open block has every line of
  its own that came before, the blocks among them with all their lines, except the
  one still open in it; and every block around the next line is open. The second
  part is what shows that a regular text has no line that `Skips` passes
  (`NoneSkipped`): the line one step above it opened a block, that block is on the
  stack, and nothing fits between the two. `Regular` is about the three levels that
  a configuration has (servers, a server, its fields); TLC finds that a fourth may
  repeat a key where `Regular` allows it only for fields, so the levels are part of
  its statement.
* **CommandLine.** `LineInv`: when `char - 1` characters of a word are written, the
  shell has the words before it complete, exactly these characters of it, and is
  within quotes if and only if the word needs them. A word that needs none is not
  empty, so the shell has begun it when it ends. An apostrophe leaves the quotes,
  is escaped, and enters them again: four characters of which the shell keeps one.
* **Evaluation.** One step evaluates, so the theorems are about the functions. For
  the fleet, every client is `NewClient` of one server (`ClientsOfConfig`), a pinned
  client takes no hop that `Connects` refuses (`PinnedHops`), and a host asked for
  is found by its name or not at all (`ResolvedByName`). For the launch, `Trim`
  leaves the typed prompt between blanks (`TrimmedAsTyped`, `ThreeParts`), and the
  length and last word of the argv tell whether a prompt is read (`ArgvTells`).

`IInv` of `HostAgentClient_proofs` was also checked by TLC on the instance of the
run before it was proved. Definitions that no run names are parts of one that
does (`AnsweredOnce` follows from `KeepsLedger`) or steps of a proof.

Only model-checked:

* the liveness properties (`NoPromptLingers`, `StaleBannerGoesAway`,
  `DropFailsCallers`, `CallsEnd`, `StreamedCreateEnds`, `RefreshLands`): fairness
  and ENABLED are out of the prover's reach;
* `QuotedReparses`: it folds the readers over whole texts, and a fold over a text
  of any length needs an induction that the prover cannot instantiate. The
  quoting itself is proved character by character (`CommandLineReparses`); what is
  left to the run is AppleScript's second layer and that every opener hands on
  that line.

## 5. Where the code and its comments disagree

One run is expected to find a violation; it states what two comments of the
source say.

* `finding_unreadable_expiry` (`UnreadableExpiryLingers`): a queued request with
  an expiry that does not parse is approved when the policy becomes
  always-allow, though the comment of `expired_by_tick` says that it cannot be
  approved and lingers.

Further observations made while modelling, not kept as runs.

Approvals:

* `finish_decide` clears the in-flight marker of the *id*, whichever dialog has
  ended. After a same-id replacement the end of the first request's dialog
  removes the marker of the second's, and a further approve opens another dialog
  beside it (`coordinator.rs:599`; `:544` says "one OS prompt per id"). With
  distinct ids `OneDialogPerRequest` holds;
* a method set while a dialog is up (`coordinator.rs:542`) does not reach that
  dialog: `finish_decide` goes by the gate captured when it opened;
* a same-id request that the policy answers at once leaves the queued one and
  its dialog in place, and the dialog's answer is later sent under the id both
  share.

Connections, streams and sessions:

* with two `start()` calls (`MaxStarts = 2`; the application makes one) a loop
  aborted just after it connected installs its writer over the new loop's, and
  `CallersOnLiveConnection` fails (`host_agent.rs:293`);
* the channels to the writer task and to the coordinator have no limit
  (`host_agent.rs:229`); the model bounds them by its bounds on frames and events;
* `create_stream` sends its request without a timeout (`http.rs:255`), although
  the plan (`plans/phase-1-rust-core.md:47`) asks for idle and overall ones;
* a cancelled creation goes on reading while chunks are there already
  (`create.rs:132`, `http.rs:267`); it reports to nobody;
* a stream that breaks after its complete event turns the record from complete
  to error (`create.rs:66`);
* `list` resolves its targets before it takes `op_guard`; a session launched into
  a shed that started in between loses its row to `store.clear()` until the next
  refresh (`shed-app/src/rc.rs:347`; `:148` says a rebuild "can't race a
  concurrent launch/kill");
* after its watchdog has killed ssh, the process runner drains the pipe to its
  end while `op_guard` is held; a surviving process that inherited the pipe (a
  ControlPersist master) would block every later launch, kill and list.

The application around them:

* a launch whose lock fails for any reason but contention goes on without it and
  removes the socket of a live instance (`lib.rs:524` calls the lock best-effort,
  `single_instance.rs:1` says "a second launch never unlinks the live socket");
  `PrimaryOwnsSocket` therefore excepts launches without the lock. One failing
  `accept` ends the IPC server for the life of the process (`ipc.rs`, `run`);
* two clients' preference commands may write their read-backs in the wrong
  order (`lib.rs:375`), after which a restart restores the older preferences; a
  stop while the file is cut short restores the defaults;
* any report of the main window sets the menu-bar count from its `sheds` field,
  so the Agents pane's partial report clears it (`lib.rs:57`);
* a late initial report (`bridge.ts:122`) may put an empty list with token 0 over
  a refreshed one, and the Agents pane reports before the listeners are attached,
  so that `has("main")` does not mean what `ipc.rs:331` says: `sheds.refresh` may
  emit an event nobody hears and wait for its deadline. `RefreshLands` is about
  refreshes after the first report of a pane;
* with a default server whose HTTP client was refused (a pin without https),
  host-less HTTP calls fall back to the first host while ssh and remote control
  still go to the default (`backend.rs`, `resolve_entry`);
* a custom template is filled in two steps (`terminal.rs:157`): `{shed}` is inserted
  without quotes, and also where the command just inserted for `{cmd}` has that text,
  so that a session named so is attached to under another name;
* `set_ssh_approval` takes any text for the TTL, the empty one included
  (`coordinator.rs:828`), and it is stored; the next start reads the empty one as the
  default (`lib.rs:348`), so a restart does not rehydrate "exactly what the running
  coordinator holds" (`lib.rs:373`);
* a write of `prefs.json` that fails after the file was truncated is ignored
  (`prefs.rs:84`): the running process keeps its preferences, the next one starts from
  the defaults unless a later write succeeds;
* `shedctl` has no timeout and waits as long as an `approval.decide` or an rc
  operation does, which may be without limit.

## 6. Plan

Done: the coordinator and its ledger, the asynchronous components around it, the
files, start-up and IPC, the dashboard's bridge, and the pure functions. To
follow:

1. Proofs: every safety property of a run is proved except `QuotedReparses`
   (section 4).
2. The coordinator with the host-agent client in one module, so that
   `AnswersGoToTheAsker` is about the real queue of prompts rather than its
   outline.
3. `SseParser`: line buffering over chunk boundaries against a reference parser.
