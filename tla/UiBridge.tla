------------------------------ MODULE UiBridge ------------------------------
(***************************************************************************)
(* The dashboard and the Rust side that relays what it shows               *)
(* (tauri/ui/src/lib/bridge.ts, useUiBridge; ui_report in lib.rs, UiState  *)
(* in state.rs; ui.navigate, sheds.refresh and dashboard.dump in ipc.rs;   *)
(* open_pane in tray.rs), over the fan-out of Backend::list_sheds.         *)
(*                                                                         *)
(* The webview and the Rust process run side by side and talk through two  *)
(* queues: events to the webview, which are lost while their listener is   *)
(* not attached, and reports from it.  Fetches overlap, each reads its     *)
(* hosts one by one, and a host's sheds change at any time: of a host only *)
(* the version of its list is kept.                                        *)
(***************************************************************************)
EXTENDS Naturals, Sequences

CONSTANTS
  Hosts,       \* the configured hosts
  Calls,       \* what asks for fresh rows: sheds.refresh requests and buttons
  Unread,      \* no rows of this host yet
  MaxChanges,  \* bound: changes of one host's sheds
  MaxClicks    \* bound: panes opened

ASSUME RowsAssumption == Unread \notin Nat
ASSUME BoundsAssumption == MaxChanges \in Nat /\ MaxClicks \in Nat

Panes == {"sheds", "agents"}

VARIABLES
  world,      \* host -> the version of its sheds
  listeners,  \* the events the webview listens to
  ready,      \* useUiBridge: ready.current
  pane,       \* the pane chosen
  shown,      \* the pane of the last committed render
  rows,       \* the shed list on display
  echo,       \* refreshToken
  dirty,      \* a render is due
  gen,        \* fetchGen.current
  fetches,    \* the fetches under way
  events,     \* emitted, not yet handled by the webview
  outbox,     \* reported, not yet handled by Rust
  snap,       \* UiState: the snapshot of the main window
  seq,        \* Handler: refresh_seq
  call,       \* what asks for rows -> [at, token, base]
  clicks      \* the panes opened so far

webview == <<ready, pane, shown, rows, echo, dirty, gen, fetches>>
vars == <<world, listeners, webview, events, outbox, snap, seq, call, clicks>>

AllRows(r) == [h \in Hosts |-> r]

Idle == [at |-> "off", token |-> 0, base |-> AllRows(0)]

Init ==
  /\ world = AllRows(0)
  /\ listeners = {}
  /\ ready = FALSE
  /\ pane = "sheds" /\ shown = "sheds"
  /\ rows = AllRows(Unread)
  /\ echo = 0
  /\ dirty = FALSE
  /\ gen = 0
  /\ fetches = {}
  /\ events = << >>
  /\ outbox = << >>
  /\ snap = << >>
  /\ seq = 0
  /\ call = [c \in Calls |-> Idle]
  /\ clicks = 0
-----------------------------------------------------------------------------
(* A host's sheds change, through shed_action or by themselves. *)
ShedsChange(h) ==
  /\ world[h] < MaxChanges
  /\ world' = [world EXCEPT ![h] = @ + 1]
  /\ UNCHANGED <<listeners, webview, events, outbox, snap, seq, call, clicks>>

(* Mutant of StartFetch: the generation is taken before it is advanced. *)
StartFetch_OldGen(token, mount) ==
  /\ gen' = gen + 1
  /\ fetches' = fetches \cup
       {[gen |-> gen, token |-> token, mount |-> mount, got |-> AllRows(Unread)]}

(* fetchSheds up to its await. *)
StartFetch(token, mount) ==
  /\ gen' = gen + 1
  /\ fetches' = fetches \cup
       {[gen |-> gen + 1, token |-> token, mount |-> mount, got |-> AllRows(Unread)]}

(* Backend::list_sheds: every host is asked at once and answers in its own *)
(* time.  One that fails has no rows, which is not told apart here.        *)
list_sheds(f, h) ==
  /\ f.got[h] = Unread
  /\ fetches' = (fetches \ {f}) \cup {[f EXCEPT !.got[h] = world[h]]}
  /\ UNCHANGED <<world, listeners, ready, pane, shown, rows, echo, dirty, gen,
                 events, outbox, snap, seq, call, clicks>>

(* The shell's report.  Which pane it names does not matter here. *)
Report(r, t) == [pane |-> TRUE, sheds |-> r, refresh_token |-> t]

(* Mutant of SetSheds: the generation guard is missing. *)
SetSheds_Unguarded(f) ==
  /\ rows' = f.got
  /\ echo' = IF f.token > 0 THEN f.token ELSE echo
  /\ dirty' = TRUE

(* fetchSheds after its await: a superseded fetch changes nothing. *)
SetSheds(f) ==
  IF f.gen = gen
  THEN /\ rows' = f.got
       /\ echo' = IF f.token > 0 THEN f.token ELSE echo
       /\ dirty' = TRUE
  ELSE UNCHANGED <<rows, echo, dirty>>

(* All hosts are in.  Behind the mount's own fetch comes the initial       *)
(* report, without rows and whether or not the fetch was superseded.       *)
FetchReturns(f) ==
  /\ \A h \in Hosts : f.got[h] # Unread
  /\ SetSheds(f)
  /\ fetches' = fetches \ {f}
  /\ outbox' = IF f.mount THEN Append(outbox, Report(AllRows(Unread), 0)) ELSE outbox
  /\ UNCHANGED <<world, listeners, ready, pane, shown, gen, events, snap, seq, call, clicks>>
-----------------------------------------------------------------------------
(* The mount effect: the two listeners in order, then ready. *)
Listen(e) ==
  /\ e = IF "navigate" \in listeners THEN "refresh" ELSE "navigate"
  /\ e \notin listeners
  /\ listeners' = listeners \cup {e}
  /\ UNCHANGED <<world, webview, events, outbox, snap, seq, call, clicks>>

Ready ==
  /\ listeners = {"navigate", "refresh"} /\ ~ready
  /\ ready' = TRUE
  /\ StartFetch(0, TRUE)
  /\ UNCHANGED <<world, listeners, pane, shown, rows, echo, dirty, events, outbox, snap,
                 seq, call, clicks>>

(* Mutant of Effects: the shell reports before it listens. *)
Effects_NotGated ==
  /\ dirty
  /\ dirty' = FALSE
  /\ shown' = pane
  /\ outbox' = Append(outbox, Report(rows, echo))
  /\ UNCHANGED <<world, listeners, ready, pane, rows, echo, gen, fetches, events, snap,
                 seq, call, clicks>>

(* The effects of a render, children first: AgentsPane, when it mounts,    *)
(* reports its sessions at once; the shell reports once it is ready.       *)
Effects ==
  LET agents == IF pane = "agents" /\ shown # "agents" THEN <<[agents |-> TRUE]>> ELSE << >>
      shell  == IF ready THEN <<Report(rows, echo)>> ELSE << >>
  IN  /\ dirty
      /\ dirty' = FALSE
      /\ shown' = pane
      /\ outbox' = outbox \o agents \o shell
      /\ UNCHANGED <<world, listeners, ready, pane, rows, echo, gen, fetches, events, snap,
                     seq, call, clicks>>

(* An event is handled: navigate sets the pane, refresh starts a fetch. *)
Handle ==
  /\ events # << >>
  /\ events' = Tail(events)
  /\ \/ /\ Head(events).name = "navigate"
        /\ pane' = Head(events).pane
        /\ dirty' = (dirty \/ pane' # pane)
        /\ UNCHANGED <<gen, fetches>>
     \/ /\ Head(events).name = "refresh"
        /\ StartFetch(Head(events).token, FALSE)
        /\ UNCHANGED <<pane, dirty>>
  /\ UNCHANGED <<world, listeners, ready, shown, rows, echo, outbox, snap, seq, call, clicks>>

(* A click on a pane, or on a button whose action ends with refresh(). *)
ClickPane(p) ==
  /\ clicks < MaxClicks
  /\ pane' = p
  /\ dirty' = TRUE
  /\ clicks' = clicks + 1
  /\ UNCHANGED <<world, listeners, ready, shown, rows, echo, gen, fetches, events, outbox,
                 snap, seq, call>>

ClickRefresh(c) ==
  /\ call[c].at = "off"
  /\ StartFetch(0, FALSE)
  /\ call' = [call EXCEPT ![c].at = "done"]
  /\ UNCHANGED <<world, listeners, ready, pane, shown, rows, echo, dirty, events, outbox,
                 snap, seq, clicks>>
-----------------------------------------------------------------------------
(* UiState::merge keeps the keys a report does not have. *)
merge(slot, incoming) ==
  [k \in DOMAIN slot \cup DOMAIN incoming |->
     IF k \in DOMAIN incoming THEN incoming[k] ELSE slot[k]]

ui_report ==
  /\ outbox # << >>
  /\ outbox' = Tail(outbox)
  /\ snap' = merge(snap, Head(outbox))
  /\ UNCHANGED <<world, listeners, webview, events, seq, call, clicks>>

has(key) == key \in DOMAIN snap
refresh_token == IF has("refresh_token") THEN snap.refresh_token ELSE 0

emit(e) == events' = IF e.name \in listeners THEN Append(events, e) ELSE events

(* ui.navigate, refused until the shell has reported its pane, and         *)
(* open_pane of the tray, a notification or the popover, which does not    *)
(* ask.                                                                    *)
navigate(p) ==
  /\ clicks < MaxClicks /\ has("pane")
  /\ clicks' = clicks + 1
  /\ emit([name |-> "navigate", pane |-> p])
  /\ UNCHANGED <<world, listeners, webview, outbox, snap, seq, call>>

open_pane(p) ==
  /\ clicks < MaxClicks
  /\ clicks' = clicks + 1
  /\ emit([name |-> "navigate", pane |-> p])
  /\ UNCHANGED <<world, listeners, webview, outbox, snap, seq, call>>

(* sheds.refresh: take a token and look whether the window has reported;   *)
(* emit the event; wait for the echo if it has.  Two requests may emit in  *)
(* the other order.                                                        *)
TakeToken(c) ==
  /\ call[c].at = "off"
  /\ seq' = seq + 1
  /\ call' = [call EXCEPT ![c] = [at |-> IF DOMAIN snap # {} THEN "emit" ELSE "emitonly",
                                 token |-> seq + 1, base |-> world]]
  /\ UNCHANGED <<world, listeners, webview, events, outbox, snap, clicks>>

EmitRefresh(c) ==
  /\ call[c].at \in {"emit", "emitonly"}
  /\ emit([name |-> "refresh", token |-> call[c].token])
  /\ call' = [call EXCEPT ![c].at = IF @ = "emit" THEN "wait" ELSE "done"]
  /\ UNCHANGED <<world, listeners, webview, outbox, snap, seq, clicks>>

(* The poll ends with the echo, or at the deadline; the answer is the same. *)
Poll(c) ==
  /\ call[c].at = "wait" /\ refresh_token >= call[c].token
  /\ call' = [call EXCEPT ![c].at = "done"]
  /\ UNCHANGED <<world, listeners, webview, events, outbox, snap, seq, clicks>>

Deadline(c) ==
  /\ call[c].at = "wait"
  /\ call' = [call EXCEPT ![c].at = "done"]
  /\ UNCHANGED <<world, listeners, webview, events, outbox, snap, seq, clicks>>
-----------------------------------------------------------------------------
Webview ==
  \/ \E e \in {"navigate", "refresh"} : Listen(e)
  \/ Ready \/ Effects \/ Handle \/ ui_report

Fetching == \E f \in fetches : (\E h \in Hosts : list_sheds(f, h)) \/ FetchReturns(f)

Refreshing(c) == EmitRefresh(c) \/ Poll(c) \/ Deadline(c)

(* Going to the pane one is on changes nothing. *)
Navigating == \E p \in Panes \ {pane} : ClickPane(p) \/ navigate(p) \/ open_pane(p)

Next ==
  \/ \E h \in Hosts : ShedsChange(h)
  \/ Webview \/ Fetching \/ Navigating
  \/ \E c \in Calls : TakeToken(c) \/ ClickRefresh(c) \/ Refreshing(c)

Spec == Init /\ [][Next]_vars

(* The event loops of the webview and of Rust run, a request that came in  *)
(* is served, and every request to a host ends within its timeout.         *)
FairSpec ==
  /\ Spec
  /\ WF_vars(Webview)
  /\ WF_vars(Fetching)
  /\ \A c \in Calls : WF_vars(Refreshing(c))
-----------------------------------------------------------------------------
(* Rows at least as new as a version of the fleet. *)
AsNew(r, base) == \A h \in Hosts : r[h] # Unread /\ r[h] >= base[h]

(* The promise of sheds.refresh: rows under an echoed token are those of a *)
(* fetch that began after the token was taken, whatever older fetch, pane  *)
(* switch, click or second refresh comes in between.                       *)
EchoIsFresh ==
  \A c \in Calls :
    call[c].token > 0 /\ refresh_token >= call[c].token => AsNew(snap.sheds, call[c].base)

(* What ui.navigate relies on: a reported pane means both listeners are    *)
(* attached, so the event is not lost.  (Any report at all, on which       *)
(* sheds.refresh relies, does not: AgentsPane reports before the listeners *)
(* are attached.)                                                          *)
PaneMeansListening == has("pane") => listeners = {"navigate", "refresh"}

(* A refresh asked for after the pane was reported reaches the display:    *)
(* the rows shown become as new as the fleet was when it was asked for.    *)
RefreshLands ==
  \A c \in Calls :
    call[c].at = "emit" /\ has("pane") ~> AsNew(rows, call[c].base)
=============================================================================
