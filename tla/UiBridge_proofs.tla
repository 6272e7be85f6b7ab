--------------------------- MODULE UiBridge_proofs ---------------------------
(***************************************************************************)
(* Proofs about UiBridge: the inductive invariant behind the promises of   *)
(* sheds.refresh and ui.navigate, for any hosts, any number of overlapping *)
(* requests and fetches, and any interleaving of the two processes.        *)
(***************************************************************************)
EXTENDS UiBridge, TLAPS

Rows == [Hosts -> Nat \cup {Unread}]
Both == {"navigate", "refresh"}

(* Rows that may be shown under token t: as new as the fleet was when any  *)
(* token up to t was taken.                                                *)
Fresh(r, t) ==
  \A c \in Calls : 0 < call[c].token /\ call[c].token <= t => AsNew(r, call[c].base)

(* A token is known once taken, and the fleet only moves on from its base. *)
CallsSane ==
  /\ seq \in Nat /\ echo \in 0..seq /\ gen \in Nat
  /\ world \in [Hosts -> Nat]
  /\ call \in [Calls -> [at: {"off", "emit", "emitonly", "wait", "done"},
                         token: 0..seq, base: [Hosts -> Nat]]]
  /\ \A c \in Calls, h \in Hosts : call[c].base[h] <= world[h]

EventsSane ==
  events \in Seq([name: {"navigate"}, pane: Panes] \cup [name: {"refresh"}, token: 0..seq])

Fetch == [gen: 0..gen, token: 0..seq, mount: BOOLEAN, got: Rows]

(* The tokens a fetch has to satisfy: those up to its own, and, as long as *)
(* it is the latest one, those up to the token on display, which it would  *)
(* leave there.                                                            *)
Owes(f, c) ==
  /\ 0 < call[c].token
  /\ call[c].token <= f.token \/ (f.gen = gen /\ call[c].token <= echo)

(* What a fetch has read so far is new enough; two fetches never have the  *)
(* same generation; the mount's own fetch began with both listeners on.    *)
FetchesSane ==
  /\ fetches \subseteq Fetch
  /\ \A f, g \in fetches : f.gen = g.gen => f = g
  /\ \A f \in fetches : f.mount => listeners = Both
  /\ \A f \in fetches, c \in Calls, h \in Hosts :
       Owes(f, c) /\ f.got[h] # Unread => f.got[h] >= call[c].base[h]

(* The reports on their way: a shell's report was made with both listeners *)
(* on, and its rows go with its token.                                     *)
Reports ==
  {[agents |-> TRUE]} \cup
  {o \in {Report(r, t) : r \in Rows, t \in 0..seq} :
     listeners = Both /\ Fresh(o.sheds, o.refresh_token)}

DisplaySane ==
  /\ rows \in Rows /\ Fresh(rows, echo)
  /\ ready => listeners = Both
  /\ outbox \in Seq(Reports)
  /\ has("pane") => listeners = Both
  /\ has("refresh_token") => has("sheds") /\ snap.refresh_token \in Nat
                             /\ Fresh(snap.sheds, snap.refresh_token)
                             /\ snap.refresh_token <= seq

IInv == CallsSane /\ EventsSane /\ FetchesSane /\ DisplaySane
-----------------------------------------------------------------------------
(* A sequence stays one when its elements' set grows. *)
LEMMA SeqMonotone ==
  ASSUME NEW S, NEW T, S \subseteq T, NEW s \in Seq(S)
  PROVE  s \in Seq(T)
  OBVIOUS

(* What the display and the queue hold stays good while no token is taken, *)
(* no fetch lands and no listener is lost.                                 *)
LEMMA DisplayKept ==
  ASSUME IInv, UNCHANGED <<seq, rows, echo>>,
         \A c \in Calls : call'[c].token = call[c].token /\ call'[c].base = call[c].base,
         listeners = Both => listeners' = Both
  PROVE  /\ \A r, t : Fresh(r, t) => Fresh(r, t)'
         /\ rows' \in Rows /\ Fresh(rows, echo)'
         /\ Reports \subseteq Reports'
<1>1. \A r, t : Fresh(r, t) => Fresh(r, t)'
  BY DEF Fresh, AsNew
<1>2. Fresh(rows, echo)'
  BY DEF IInv, DisplaySane, Fresh, AsNew
<1>3. Reports \subseteq Reports'
  <2> SUFFICES ASSUME NEW o \in Reports, o # [agents |-> TRUE]
               PROVE  o \in {x \in {Report(r, t) : r \in Rows, t \in 0..seq'} :
                               listeners' = Both /\ Fresh(x.sheds, x.refresh_token)'}
    BY DEF Reports
  <2>1. PICK r \in Rows, t \in 0..seq :
          o = Report(r, t) /\ listeners = Both /\ Fresh(o.sheds, o.refresh_token)
    BY DEF Reports
  <2>2. o.sheds = r /\ o.refresh_token = t
    BY <2>1 DEF Report
  <2>3. Fresh(o.sheds, o.refresh_token)'
    BY <1>1, <2>1
  <2>4. QED BY <2>1, <2>3
<1>4. QED BY <1>1, <1>2, <1>3 DEF IInv, DisplaySane

CallRec(n) == [at: {"off", "emit", "emitonly", "wait", "done"}, token: 0..n,
               base: [Hosts -> Nat]]

(* A request moves on without a new token. *)
LEMMA CallMoves ==
  ASSUME IInv, NEW c \in Calls, NEW at \in {"off", "emit", "emitonly", "wait", "done"},
         call' = [call EXCEPT ![c].at = at], seq' = seq
  PROVE  /\ call' \in [Calls -> CallRec(seq')]
         /\ \A d \in Calls : call'[d].token = call[d].token /\ call'[d].base = call[d].base
<1>1. call \in [Calls -> CallRec(seq)]
  BY DEF IInv, CallsSane, CallRec
<1> DEFINE x == [call[c] EXCEPT !.at = at]
<1>2. call[c] \in CallRec(seq)
  BY <1>1
<1>3. x \in CallRec(seq) /\ x.token = call[c].token /\ x.base = call[c].base
  BY <1>2 DEF CallRec
<1>4. call' = [call EXCEPT ![c] = x]
  OBVIOUS
<1> HIDE DEF x
<1>5. QED BY <1>1, <1>3, <1>4

(* Apart from a new token, every step keeps tokens and bases. *)
LEMMA StepTokens ==
  ASSUME IInv, [Next]_vars, ~\E c \in Calls : TakeToken(c)
  PROVE  /\ seq' = seq /\ call' \in [Calls -> CallRec(seq')]
         /\ \A d \in Calls : call'[d].token = call[d].token /\ call'[d].base = call[d].base
<1>1. call \in [Calls -> CallRec(seq)]
  BY DEF IInv, CallsSane, CallRec
<1>2. CASE UNCHANGED <<seq, call>>
  BY <1>1, <1>2
<1>3. ASSUME NEW c \in Calls, ClickRefresh(c) \/ Poll(c) \/ Deadline(c) \/ EmitRefresh(c)
      PROVE  /\ seq' = seq /\ call' \in [Calls -> CallRec(seq')]
             /\ \A d \in Calls : call'[d].token = call[d].token /\ call'[d].base = call[d].base
  <2>1. PICK at \in {"wait", "done"} : call' = [call EXCEPT ![c].at = at] /\ seq' = seq
    BY <1>3 DEF ClickRefresh, Poll, Deadline, EmitRefresh
  <2>2. QED BY <2>1, CallMoves
<1>4. QED
  <2>1. CASE UNCHANGED vars
    BY <1>2, <2>1 DEF vars
  <2>2. CASE Webview \/ Fetching \/ Navigating \/ \E h \in Hosts : ShedsChange(h)
    BY <1>2, <2>2 DEF Webview, Fetching, Navigating, ShedsChange, Listen, Ready, Effects,
       Handle, ui_report, list_sheds, FetchReturns, ClickPane, navigate, open_pane
  <2>3. QED BY <1>3, <2>1, <2>2 DEF Next, Refreshing

(* A new token is above all others, and its base is the fleet of now. *)
LEMMA TokenTaken ==
  ASSUME IInv, NEW c \in Calls, TakeToken(c)
  PROVE  /\ seq' = seq + 1 /\ call' \in [Calls -> CallRec(seq')]
         /\ call'[c].token = seq + 1 /\ call'[c].base = world
         /\ \A d \in Calls : d # c =>
              call'[d].token = call[d].token /\ call'[d].base = call[d].base
         /\ UNCHANGED <<world, listeners, webview, events, outbox, snap>>
<1>1. call \in [Calls -> CallRec(seq)] /\ seq \in Nat /\ world \in [Hosts -> Nat]
  BY DEF IInv, CallsSane, CallRec
<1>2. 0..seq \subseteq 0..(seq + 1) /\ seq + 1 \in 0..(seq + 1)
  BY <1>1
<1>3. PICK at \in {"emit", "emitonly"} :
        call' = [call EXCEPT ![c] = [at |-> at, token |-> seq + 1, base |-> world]]
  BY DEF TakeToken
<1> DEFINE x == [at |-> at, token |-> seq + 1, base |-> world]
<1>4. x \in CallRec(seq + 1) /\ x.token = seq + 1 /\ x.base = world
  BY <1>1, <1>2 DEF CallRec
<1>5. \A d \in Calls : call[d] \in CallRec(seq + 1)
  <2>1. CallRec(seq) \subseteq CallRec(seq + 1)
    BY <1>2 DEF CallRec
  <2>2. QED BY <1>1, <2>1
<1>6. call' = [call EXCEPT ![c] = x]
  BY <1>3
<1> HIDE DEF x
<1>7. seq' = seq + 1 /\ UNCHANGED <<world, listeners, webview, events, outbox, snap>>
  BY DEF TakeToken
<1>8. call' \in [Calls -> CallRec(seq + 1)]
  BY <1>1, <1>4, <1>5, <1>6
<1>9. QED BY <1>1, <1>4, <1>6, <1>7, <1>8

(* What moves by itself: the fleet, the generations and the echo only move forward. *)
LEMMA StepClocks ==
  ASSUME IInv, [Next]_vars
  PROVE  /\ world' \in [Hosts -> Nat] /\ \A h \in Hosts : world[h] <= world'[h]
         /\ gen' = gen \/ gen' = gen + 1
         /\ echo' \in 0..seq
<1>1. /\ world \in [Hosts -> Nat] /\ seq \in Nat /\ echo \in 0..seq /\ gen \in Nat
      /\ fetches \subseteq Fetch
  BY DEF IInv, CallsSane, FetchesSane
<1>2. world' \in [Hosts -> Nat] /\ \A h \in Hosts : world[h] <= world'[h]
  <2>1. CASE world' = world
    BY <1>1, <2>1
  <2>2. ASSUME NEW h \in Hosts, ShedsChange(h)
        PROVE  world' \in [Hosts -> Nat] /\ \A x \in Hosts : world[x] <= world'[x]
    <3>1. world[h] \in Nat /\ world[h] + 1 \in Nat /\ world[h] <= world[h] + 1
      BY <1>1
    <3>2. world' = [world EXCEPT ![h] = world[h] + 1]
      BY <2>2 DEF ShedsChange
    <3>3. QED BY <1>1, <3>1, <3>2
  <2>3. QED BY <2>1, <2>2 DEF Next, vars, Webview, Fetching, Navigating, Refreshing, Listen,
        Ready, Effects, Handle, ui_report, list_sheds, FetchReturns, ClickPane, navigate,
        open_pane, TakeToken, ClickRefresh, EmitRefresh, Poll, Deadline
<1>3. gen' = gen \/ gen' = gen + 1
  BY DEF Next, vars, webview, Webview, Fetching, Navigating, Refreshing, ShedsChange, Listen,
     Ready, Effects, Handle, ui_report, list_sheds, FetchReturns, ClickPane, navigate,
     open_pane, TakeToken, ClickRefresh, EmitRefresh, Poll, Deadline, StartFetch
<1>4. echo' = echo \/ \E f \in fetches : echo' = f.token
  BY DEF Next, vars, webview, Webview, Fetching, Navigating, Refreshing, ShedsChange, Listen,
     Ready, Effects, Handle, ui_report, list_sheds, FetchReturns, SetSheds, ClickPane,
     navigate, open_pane, TakeToken, ClickRefresh, EmitRefresh, Poll, Deadline
<1>5. \A f \in fetches : f.token \in 0..seq
  BY <1>1 DEF Fetch
<1>6. QED BY <1>1, <1>2, <1>3, <1>4, <1>5

(* Tokens and bases stay sane. *)
LEMMA StepCalls ==
  ASSUME IInv, [Next]_vars
  PROVE  CallsSane'
<1>1. /\ world \in [Hosts -> Nat] /\ seq \in Nat /\ echo \in 0..seq /\ gen \in Nat
      /\ call \in [Calls -> CallRec(seq)]
      /\ \A c \in Calls, h \in Hosts : call[c].base[h] <= world[h]
  BY DEF IInv, CallsSane, CallRec
<1>2. /\ world' \in [Hosts -> Nat] /\ \A h \in Hosts : world[h] <= world'[h]
      /\ gen' = gen \/ gen' = gen + 1
      /\ echo' \in 0..seq
  BY StepClocks
<1>3. \A c \in Calls, h \in Hosts : call[c].base[h] <= world'[h]
  <2>1. ASSUME NEW c \in Calls, NEW h \in Hosts PROVE call[c].base[h] <= world'[h]
    <3>1. call[c] \in CallRec(seq)
      BY <1>1
    <3>2. call[c].base[h] \in Nat /\ world[h] \in Nat /\ world'[h] \in Nat
      BY <1>1, <1>2, <3>1 DEF CallRec
    <3>3. call[c].base[h] <= world[h] /\ world[h] <= world'[h]
      BY <1>1, <1>2
    <3>4. QED BY <3>2, <3>3
  <2>2. QED BY <2>1
<1>4. gen' \in Nat
  BY <1>1, <1>2
<1>5. CASE ~\E c \in Calls : TakeToken(c)
  <2>1. /\ seq' = seq /\ call' \in [Calls -> CallRec(seq')]
        /\ \A d \in Calls : call'[d].token = call[d].token /\ call'[d].base = call[d].base
    BY <1>5, StepTokens
  <2>2. QED BY <1>1, <1>2, <1>3, <1>4, <2>1 DEF CallsSane, CallRec
<1>6. ASSUME NEW c \in Calls, TakeToken(c) PROVE CallsSane'
  <2>1. /\ seq' = seq + 1 /\ call' \in [Calls -> CallRec(seq')]
        /\ call'[c].base = world
        /\ \A d \in Calls : d # c => call'[d].base = call[d].base
        /\ echo' = echo
    BY <1>6, TokenTaken DEF webview
  <2>2. \A d \in Calls, h \in Hosts : call'[d].base[h] <= world'[h]
    BY <1>2, <1>3, <2>1
  <2>3. seq' \in Nat /\ echo' \in 0..seq'
    BY <1>1, <2>1
  <2>4. QED BY <1>2, <1>4, <2>1, <2>2, <2>3 DEF CallsSane, CallRec
<1>7. QED BY <1>5, <1>6

Ev(n) == [name: {"navigate"}, pane: Panes] \cup [name: {"refresh"}, token: 0..n]

(* Events are emitted with tokens that were taken. *)
LEMMA StepQueue ==
  ASSUME IInv, [Next]_vars
  PROVE  EventsSane'
<1>1. seq \in Nat /\ events \in Seq(Ev(seq)) /\ call \in [Calls -> CallRec(seq)]
  BY DEF IInv, CallsSane, EventsSane, Ev, CallRec
<1>2. seq' = seq \/ seq' = seq + 1
  BY StepTokens, TokenTaken
<1>3. Ev(seq) \subseteq Ev(seq')
  <2>1. 0..seq \subseteq 0..seq'
    BY <1>1, <1>2
  <2>2. QED BY <2>1 DEF Ev
<1>4. CASE events' = events
  <2>1. events \in Seq(Ev(seq'))
    BY <1>1, <1>3, SeqMonotone
  <2>2. QED BY <1>4, <2>1 DEF EventsSane, Ev
<1>5. ASSUME NEW e \in Ev(seq), emit(e) PROVE EventsSane'
  <2>1. events' \in Seq(Ev(seq))
    BY <1>1, <1>5 DEF emit
  <2>2. events' \in Seq(Ev(seq'))
    BY <1>3, <2>1, SeqMonotone
  <2>3. QED BY <2>2 DEF EventsSane, Ev
<1>6. ASSUME NEW p \in Panes, navigate(p) \/ open_pane(p) PROVE EventsSane'
  <2>1. [name |-> "navigate", pane |-> p] \in Ev(seq)
    BY DEF Ev
  <2>2. QED BY <1>5, <1>6, <2>1 DEF navigate, open_pane
<1>7. ASSUME NEW c \in Calls, EmitRefresh(c) PROVE EventsSane'
  <2>1. call[c].token \in 0..seq
    BY <1>1 DEF CallRec
  <2>2. [name |-> "refresh", token |-> call[c].token] \in Ev(seq)
    BY <2>1 DEF Ev
  <2>3. QED BY <1>5, <1>7, <2>2 DEF EmitRefresh
<1>8. CASE Handle
  <2>1. events' \in Seq(Ev(seq))
    BY <1>1, <1>8 DEF Handle
  <2>2. events' \in Seq(Ev(seq'))
    BY <1>3, <2>1, SeqMonotone
  <2>3. QED BY <2>2 DEF EventsSane, Ev
<1>9. QED
  <2>1. CASE UNCHANGED vars
    BY <1>4, <2>1 DEF vars
  <2>2. CASE \/ \E e \in {"navigate", "refresh"} : Listen(e)
             \/ Ready \/ Effects \/ ui_report \/ Fetching
             \/ \E h \in Hosts : ShedsChange(h)
             \/ \E c \in Calls : TakeToken(c) \/ ClickRefresh(c) \/ Poll(c) \/ Deadline(c)
             \/ \E p \in Panes : ClickPane(p)
    BY <1>4, <2>2 DEF Listen, Ready, Effects, ui_report, Fetching, list_sheds, FetchReturns,
       ShedsChange, TakeToken, ClickRefresh, Poll, Deadline, ClickPane
  <2>3. QED BY <1>6, <1>7, <1>8, <2>1, <2>2 DEF Next, Webview, Navigating, Refreshing
-----------------------------------------------------------------------------
(* A fetch that starts takes the next generation and has read nothing. *)
LEMMA FetchStarts ==
  ASSUME IInv, NEW token \in 0..seq, NEW mount \in BOOLEAN, StartFetch(token, mount),
         mount => listeners = Both, UNCHANGED <<seq, echo, listeners>>,
         \A c \in Calls : call'[c].token = call[c].token /\ call'[c].base = call[c].base
  PROVE  FetchesSane'
<1> DEFINE n == [gen |-> gen + 1, token |-> token, mount |-> mount, got |-> AllRows(Unread)]
<1>1. gen \in Nat /\ gen' = gen + 1 /\ fetches' = fetches \cup {n}
  BY DEF IInv, CallsSane, StartFetch
<1>2. /\ n.gen = gen' /\ n.token = token /\ n.mount = mount
      /\ \A h \in Hosts : n.got[h] = Unread
  BY <1>1 DEF AllRows
<1>3. n \in Fetch'
  BY <1>1 DEF Fetch, Rows, AllRows
<1> HIDE DEF n
<1>4. \A f \in fetches : f \in Fetch' /\ f.gen \in 0..gen /\ f.gen # gen'
  <2>1. 0..gen \subseteq 0..gen' /\ \A g \in 0..gen : g # gen'
    BY <1>1
  <2>2. QED BY <2>1 DEF IInv, FetchesSane, Fetch, Rows
<1>5. \A f \in fetches, c \in Calls : Owes(f, c)' => Owes(f, c)
  BY <1>4 DEF Owes
<1>6. \A f \in fetches', c \in Calls, h \in Hosts :
        Owes(f, c)' /\ f.got[h] # Unread => f.got[h] >= call'[c].base[h]
  BY <1>1, <1>2, <1>5 DEF IInv, FetchesSane
<1>7. \A f, g \in fetches' : f.gen = g.gen => f = g
  BY <1>1, <1>2, <1>4 DEF IInv, FetchesSane
<1>8. \A f \in fetches' : f.mount => listeners' = Both
  BY <1>1, <1>2 DEF IInv, FetchesSane
<1>9. QED BY <1>1, <1>3, <1>4, <1>6, <1>7, <1>8 DEF FetchesSane

(* A host's answer is the fleet of now, as new as any token's base. *)
LEMMA HostAnswers ==
  ASSUME IInv, NEW f \in fetches, NEW h \in Hosts, list_sheds(f, h)
  PROVE  FetchesSane'
<1> DEFINE g == [f EXCEPT !.got[h] = world[h]]
<1>1. /\ fetches' = (fetches \ {f}) \cup {g}
      /\ UNCHANGED <<world, listeners, echo, gen, seq, call>>
  BY DEF list_sheds
<1>2. f \in Fetch /\ world[h] \in Nat
  BY DEF IInv, FetchesSane, CallsSane
<1>3. /\ g \in Fetch /\ g.gen = f.gen /\ g.token = f.token /\ g.mount = f.mount
      /\ g.got = [f.got EXCEPT ![h] = world[h]]
  BY <1>2 DEF Fetch, Rows
<1>4. f.got \in Rows
  BY <1>2 DEF Fetch
<1> HIDE DEF g
<1>5. g.got[h] = world[h] /\ \A x \in Hosts : x # h => g.got[x] = f.got[x]
  BY <1>3, <1>4 DEF Rows
<1>6. ASSUME NEW c \in Calls, NEW x \in Hosts, Owes(g, c), g.got[x] # Unread
      PROVE  g.got[x] >= call[c].base[x]
  <2>1. Owes(f, c)
    BY <1>3, <1>6 DEF Owes
  <2>2. CASE x = h
    <3>1. call[c].base[h] <= world[h] /\ call[c] \in CallRec(seq)
      BY DEF IInv, CallsSane, CallRec
    <3>2. call[c].base[h] \in Nat
      BY <3>1 DEF CallRec
    <3>3. QED BY <1>2, <1>5, <2>2, <3>1, <3>2
  <2>3. CASE x # h
    BY <1>5, <1>6, <2>1, <2>3 DEF IInv, FetchesSane
  <2>4. QED BY <2>2, <2>3
<1>7. \A y \in fetches', c \in Calls, x \in Hosts :
        Owes(y, c) /\ y.got[x] # Unread => y.got[x] >= call[c].base[x]
  BY <1>1, <1>6 DEF IInv, FetchesSane
<1>8. fetches' \subseteq Fetch
  BY <1>1, <1>3 DEF IInv, FetchesSane
<1>9. \A y, z \in fetches' : y.gen = z.gen => y = z
  BY <1>1, <1>3 DEF IInv, FetchesSane
<1>10. \A y \in fetches' : y.mount => listeners' = Both
  BY <1>1, <1>3 DEF IInv, FetchesSane
<1>11. QED
  <2>1. Fetch' = Fetch /\ \A y, c : Owes(y, c)' <=> Owes(y, c)
    BY <1>1 DEF Fetch, Rows, Owes
  <2>2. QED BY <1>1, <1>7, <1>8, <1>9, <1>10, <2>1 DEF FetchesSane

(* When the latest fetch lands, no other one is the latest. *)
LEMMA FetchLands ==
  ASSUME IInv, NEW f \in fetches, FetchReturns(f)
  PROVE  FetchesSane'
<1>1. /\ fetches' = fetches \ {f} /\ UNCHANGED <<world, listeners, gen, seq, call>>
      /\ echo' = echo \/ f.gen = gen
  BY DEF FetchReturns, SetSheds
<1>2. \A g \in fetches' : f.gen = gen => g.gen # gen
  BY <1>1 DEF IInv, FetchesSane
<1>3. \A g \in fetches', c \in Calls : Owes(g, c)' => Owes(g, c)
  BY <1>1, <1>2 DEF Owes
<1>4. Fetch' = Fetch
  BY <1>1 DEF Fetch, Rows
<1>5. QED BY <1>1, <1>3, <1>4 DEF IInv, FetchesSane

(* A new token is owed by no fetch that is under way. *)
LEMMA FetchesAtToken ==
  ASSUME IInv, NEW c \in Calls, TakeToken(c)
  PROVE  FetchesSane'
<1>1. /\ seq' = seq + 1 /\ call'[c].token = seq + 1
      /\ \A d \in Calls : d # c =>
           call'[d].token = call[d].token /\ call'[d].base = call[d].base
      /\ UNCHANGED <<world, listeners, webview>>
  BY TokenTaken
<1>2. seq \in Nat /\ echo \in 0..seq /\ UNCHANGED <<fetches, gen, echo>>
  BY <1>1 DEF IInv, CallsSane, webview
<1>3. \A f \in fetches : f \in Fetch' /\ f.token \in 0..seq
  <2>1. 0..seq \subseteq 0..seq'
    BY <1>1, <1>2
  <2>2. QED BY <1>2, <2>1 DEF IInv, FetchesSane, Fetch, Rows
<1>4. \A f \in fetches, d \in Calls : Owes(f, d)' => d # c /\ Owes(f, d)
  <2>1. ASSUME NEW f \in fetches, Owes(f, c)' PROVE FALSE
    <3>1. seq + 1 <= f.token \/ seq + 1 <= echo
      BY <1>1, <1>2, <2>1 DEF Owes
    <3>2. QED BY <1>2, <1>3, <3>1
  <2>2. QED BY <1>1, <1>2, <2>1 DEF Owes
<1>5. QED BY <1>1, <1>2, <1>3, <1>4 DEF IInv, FetchesSane

(* No fetch ever reads less than it owes. *)
LEMMA StepFetches ==
  ASSUME IInv, [Next]_vars
  PROVE  FetchesSane'
<1>1. ASSUME ~\E c \in Calls : TakeToken(c)
      PROVE  /\ seq' = seq
             /\ \A d \in Calls : call'[d].token = call[d].token /\ call'[d].base = call[d].base
  BY <1>1, StepTokens
<1>2. ASSUME UNCHANGED <<seq, echo, gen, fetches>>, listeners = Both => listeners' = Both,
             \A c \in Calls : call'[c].token = call[c].token /\ call'[c].base = call[c].base
      PROVE  FetchesSane'
  <2>1. Fetch' = Fetch /\ \A f \in fetches, c \in Calls : Owes(f, c)' <=> Owes(f, c)
    BY <1>2 DEF Fetch, Rows, Owes
  <2>2. QED BY <1>2, <2>1 DEF IInv, FetchesSane
<1>3. seq \in Nat /\ 0 \in 0..seq /\ FALSE \in BOOLEAN /\ TRUE \in BOOLEAN
  BY DEF IInv, CallsSane
<1>4. CASE Ready
  <2>1. /\ StartFetch(0, TRUE) /\ listeners = Both /\ UNCHANGED <<seq, echo, listeners, call>>
    BY <1>4 DEF Ready, Both
  <2>2. \A c \in Calls : call'[c].token = call[c].token /\ call'[c].base = call[c].base
    BY <2>1
  <2>3. QED BY <1>3, <2>1, <2>2, FetchStarts
<1>5. CASE Handle
  <2>1. UNCHANGED <<seq, echo, listeners, call>>
    BY <1>5 DEF Handle
  <2>2. \A c \in Calls : call'[c].token = call[c].token /\ call'[c].base = call[c].base
    BY <2>1
  <2>3. CASE UNCHANGED <<gen, fetches>>
    BY <1>2, <2>1, <2>2, <2>3
  <2>4. CASE Head(events).name = "refresh" /\ StartFetch(Head(events).token, FALSE)
    <3>1. Head(events) \in [name: {"navigate"}, pane: Panes] \cup [name: {"refresh"}, token: 0..seq]
      BY <1>5 DEF Handle, IInv, EventsSane
    <3>2. Head(events).token \in 0..seq
      BY <2>4, <3>1
    <3>3. QED BY <1>3, <2>1, <2>2, <2>4, <3>2, FetchStarts
  <2>5. QED BY <1>5, <2>3, <2>4 DEF Handle
<1>6. ASSUME NEW c \in Calls, ClickRefresh(c) PROVE FetchesSane'
  <2>1. StartFetch(0, FALSE) /\ UNCHANGED <<seq, echo, listeners>> /\ call[c].at = "off"
        /\ call' = [call EXCEPT ![c].at = "done"]
    BY <1>6 DEF ClickRefresh
  <2>2. \A d \in Calls : call'[d].token = call[d].token /\ call'[d].base = call[d].base
    BY <2>1, CallMoves
  <2>3. QED BY <1>3, <2>1, <2>2, FetchStarts
<1>7. ASSUME NEW e \in {"navigate", "refresh"}, Listen(e) PROVE FetchesSane'
  <2>1. listeners # Both /\ UNCHANGED <<seq, echo, gen, fetches, call>>
    BY <1>7 DEF Listen, Both, webview
  <2>2. QED BY <1>2, <2>1
<1>8. ASSUME UNCHANGED <<listeners, echo, gen, fetches>>, ~\E c \in Calls : TakeToken(c)
      PROVE  FetchesSane'
  BY <1>1, <1>2, <1>8
<1>9. ASSUME NEW c \in Calls, EmitRefresh(c) \/ Poll(c) \/ Deadline(c) PROVE FetchesSane'
  <2>1. UNCHANGED <<listeners, echo, gen, fetches, seq>>
    BY <1>9 DEF EmitRefresh, Poll, Deadline, webview
  <2>2. PICK at \in {"wait", "done"} : call' = [call EXCEPT ![c].at = at]
    BY <1>9 DEF EmitRefresh, Poll, Deadline
  <2>3. \A d \in Calls : call'[d].token = call[d].token /\ call'[d].base = call[d].base
    BY <2>1, <2>2, CallMoves
  <2>4. QED BY <1>2, <2>1, <2>3
<1>10. CASE UNCHANGED <<listeners, echo, gen, fetches, seq, call>>
  BY <1>2, <1>10
<1>11. QED
  <2>1. CASE \/ UNCHANGED vars \/ Effects \/ ui_report \/ Navigating
             \/ \E h \in Hosts : ShedsChange(h)
    BY <1>10, <2>1 DEF vars, webview, Effects, ui_report, Navigating, ShedsChange, ClickPane,
       navigate, open_pane
  <2>2. CASE Fetching
    BY <2>2, HostAnswers, FetchLands DEF Fetching
  <2>3. QED BY <1>4, <1>5, <1>6, <1>7, <1>9, <2>1, <2>2, FetchesAtToken
        DEF Next, Webview, Refreshing
-----------------------------------------------------------------------------
(* The rows on display, and on their way to Rust, go with their token. *)
LEMMA StepDisplay ==
  ASSUME IInv, [Next]_vars
  PROVE  DisplaySane'
<1>1. /\ seq \in Nat /\ echo \in 0..seq /\ rows \in Rows /\ Fresh(rows, echo)
      /\ ready => listeners = Both
      /\ outbox \in Seq(Reports)
      /\ has("pane") => listeners = Both
      /\ has("refresh_token") => has("sheds") /\ snap.refresh_token \in Nat
                                 /\ Fresh(snap.sheds, snap.refresh_token)
                                 /\ snap.refresh_token <= seq
  BY DEF IInv, CallsSane, DisplaySane
<1>2. ASSUME UNCHANGED <<seq, rows, echo>>, listeners = Both => listeners' = Both,
             \A c \in Calls : call'[c].token = call[c].token /\ call'[c].base = call[c].base
      PROVE  /\ rows' \in Rows /\ Fresh(rows, echo)' /\ Reports \subseteq Reports'
             /\ snap' = snap =>
                  /\ has("pane")' => listeners' = Both
                  /\ has("refresh_token")' => has("sheds")' /\ snap'.refresh_token \in Nat
                                              /\ Fresh(snap.sheds, snap.refresh_token)'
                                              /\ snap'.refresh_token <= seq'
  <2>1. /\ \A r, t : Fresh(r, t) => Fresh(r, t)'
        /\ rows' \in Rows /\ Fresh(rows, echo)'
        /\ Reports \subseteq Reports'
    BY <1>2, DisplayKept
  <2>2. ASSUME snap' = snap, has("refresh_token") PROVE Fresh(snap.sheds, snap.refresh_token)'
    BY <1>1, <1>2, <2>2 DEF Fresh, AsNew
  <2>3. QED BY <1>1, <1>2, <2>1, <2>2 DEF has
<1>3. ASSUME UNCHANGED <<seq, rows, echo, snap, outbox>>, listeners = Both => listeners' = Both,
             ready' => listeners' = Both,
             \A c \in Calls : call'[c].token = call[c].token /\ call'[c].base = call[c].base
      PROVE  DisplaySane'
  <2>1. outbox' \in Seq(Reports')
    BY <1>1, <1>2, <1>3, SeqMonotone
  <2>2. QED BY <1>2, <1>3, <2>1 DEF DisplaySane
<1>4. ASSUME NEW e \in {"navigate", "refresh"}, Listen(e) PROVE DisplaySane'
  <2>1. listeners # Both /\ UNCHANGED <<seq, rows, echo, snap, outbox, call, ready>>
    BY <1>4 DEF Listen, Both, webview
  <2>2. QED BY <1>1, <1>3, <2>1
<1>5. CASE Ready
  <2>1. listeners = Both /\ UNCHANGED <<seq, rows, echo, snap, outbox, call, listeners>>
    BY <1>5 DEF Ready, Both
  <2>2. QED BY <1>3, <2>1
<1>6. CASE UNCHANGED <<seq, rows, echo, snap, outbox, listeners, ready, call>>
  BY <1>1, <1>3, <1>6
<1>7. ASSUME NEW c \in Calls, ClickRefresh(c) \/ EmitRefresh(c) \/ Poll(c) \/ Deadline(c)
      PROVE  DisplaySane'
  <2>1. UNCHANGED <<seq, rows, echo, snap, outbox, listeners, ready>>
    BY <1>7 DEF ClickRefresh, EmitRefresh, Poll, Deadline, webview
  <2>2. PICK at \in {"wait", "done"} : call' = [call EXCEPT ![c].at = at]
    BY <1>7 DEF ClickRefresh, EmitRefresh, Poll, Deadline
  <2>3. \A d \in Calls : call'[d].token = call[d].token /\ call'[d].base = call[d].base
    BY <2>1, <2>2, CallMoves
  <2>4. QED BY <1>1, <1>3, <2>1, <2>3
<1>8. CASE Effects
  <2>1. UNCHANGED <<seq, rows, echo, snap, listeners, ready, call>>
    BY <1>8 DEF Effects
  <2>2. [agents |-> TRUE] \in Reports
    BY DEF Reports
  <2>3. ready => Report(rows, echo) \in Reports
    <3>1. Report(rows, echo).sheds = rows /\ Report(rows, echo).refresh_token = echo
      BY DEF Report
    <3>2. QED BY <1>1, <3>1 DEF Reports
  <2>4. PICK a \in Seq(Reports), b \in Seq(Reports) : outbox' = outbox \o a \o b
    <3> DEFINE agents == IF pane = "agents" /\ shown # "agents" THEN <<[agents |-> TRUE]>> ELSE << >>
               shell  == IF ready THEN <<Report(rows, echo)>> ELSE << >>
    <3>1. outbox' = outbox \o agents \o shell
      BY <1>8 DEF Effects
    <3>2. agents \in Seq(Reports)
      BY <2>2
    <3>3. shell \in Seq(Reports)
      BY <2>3
    <3> HIDE DEF agents, shell
    <3>4. QED BY <3>1, <3>2, <3>3
  <2>5. outbox' \in Seq(Reports)
    <3>1. outbox \o a \in Seq(Reports)
      BY <1>1
    <3>2. (outbox \o a) \o b \in Seq(Reports)
      BY <3>1
    <3>3. QED BY <2>4, <3>2
  <2>6. Reports \subseteq Reports' /\ rows' \in Rows /\ Fresh(rows, echo)'
    BY <1>2, <2>1
  <2>7. outbox' \in Seq(Reports')
    BY <2>5, <2>6, SeqMonotone
  <2>8. QED BY <1>1, <1>2, <2>1, <2>6, <2>7 DEF DisplaySane
<1>9. CASE ui_report
  <2>1. /\ UNCHANGED <<seq, rows, echo, listeners, ready, call>> /\ outbox # << >>
        /\ outbox' = Tail(outbox) /\ snap' = merge(snap, Head(outbox))
    BY <1>9 DEF ui_report, webview
  <2>2. Head(outbox) \in Reports /\ outbox' \in Seq(Reports)
    BY <1>1, <2>1
  <2>3. Reports \subseteq Reports' /\ rows' \in Rows /\ Fresh(rows, echo)'
        /\ \A r, t : Fresh(r, t) => Fresh(r, t)'
    BY <2>1, DisplayKept
  <2>4. outbox' \in Seq(Reports')
    BY <2>2, <2>3, SeqMonotone
  <2>5. CASE Head(outbox) = [agents |-> TRUE]
    <3>1. DOMAIN Head(outbox) = {"agents"}
      BY <2>5
    <3>2. /\ DOMAIN snap' = DOMAIN snap \cup {"agents"}
          /\ \A k \in DOMAIN snap : k # "agents" => snap'[k] = snap[k]
      BY <2>1, <3>1 DEF merge
    <3>3. /\ has("pane")' <=> has("pane")
          /\ has("sheds")' <=> has("sheds")
          /\ has("refresh_token")' <=> has("refresh_token")
          /\ has("sheds") => snap'.sheds = snap.sheds
          /\ has("refresh_token") => snap'.refresh_token = snap.refresh_token
      BY <3>2 DEF has
    <3>4. ASSUME has("refresh_token") PROVE Fresh(snap.sheds, snap.refresh_token)'
      BY <1>1, <2>1, <3>3, <3>4 DEF Fresh, AsNew
    <3>5. QED BY <1>1, <2>1, <2>3, <2>4, <3>3, <3>4 DEF DisplaySane
  <2>6. CASE Head(outbox) # [agents |-> TRUE]
    <3>1. PICK r \in Rows, t \in 0..seq :
            /\ Head(outbox) = Report(r, t) /\ listeners = Both
            /\ Fresh(Head(outbox).sheds, Head(outbox).refresh_token)
      <4>1. PICK o \in Reports : o = Head(outbox)
        BY <2>2
      <4>2. o # [agents |-> TRUE]
        BY <2>6, <4>1
      <4>3. PICK r \in Rows, t \in 0..seq :
              o = Report(r, t) /\ listeners = Both /\ Fresh(o.sheds, o.refresh_token)
        BY <4>2 DEF Reports
      <4>4. QED BY <4>1, <4>3
    <3>2. /\ Report(r, t).sheds = r /\ Report(r, t).refresh_token = t
          /\ DOMAIN Report(r, t) = {"pane", "sheds", "refresh_token"}
      BY DEF Report
    <3>3. Fresh(r, t)
      BY <3>1, <3>2
    <3>4. snap'.sheds = r /\ snap'.refresh_token = t /\ has("sheds")'
      BY <2>1, <3>1, <3>2 DEF merge, has
    <3>5. Fresh(r, t)'
      BY <2>3, <3>3
    <3>6. Fresh(snap.sheds, snap.refresh_token)'
      BY <3>4, <3>5 DEF Fresh, AsNew
    <3>7. t \in Nat /\ t <= seq
      BY <1>1
    <3>8. QED BY <1>1, <2>1, <2>3, <2>4, <3>1, <3>4, <3>6, <3>7 DEF DisplaySane
  <2>7. QED BY <2>5, <2>6
<1>10. ASSUME NEW f \in fetches, FetchReturns(f) PROVE DisplaySane'
  <2>1. /\ UNCHANGED <<seq, snap, listeners, ready, call>> /\ \A h \in Hosts : f.got[h] # Unread
        /\ outbox' = IF f.mount THEN Append(outbox, Report(AllRows(Unread), 0)) ELSE outbox
    BY <1>10 DEF FetchReturns
  <2>2. f \in Fetch /\ (f.mount => listeners = Both)
    BY DEF IInv, FetchesSane
  <2>3. f.got \in Rows /\ f.token \in 0..seq
    BY <2>2 DEF Fetch
  <2>4. call \in [Calls -> CallRec(seq)]
    BY DEF IInv, CallsSane, CallRec
  <2>5. \A r, t : Fresh(r, t) <=> Fresh(r, t)'
    BY <2>1 DEF Fresh, AsNew
  <2>6. rows' \in Rows /\ Fresh(rows, echo)'
    <3>1. CASE f.gen = gen
      <4>1. rows' = f.got /\ echo' = IF f.token > 0 THEN f.token ELSE echo
        BY <1>10, <3>1 DEF FetchReturns, SetSheds
      <4>2. ASSUME NEW c \in Calls, 0 < call'[c].token, call'[c].token <= echo'
            PROVE  AsNew(rows, call[c].base)'
        <5>1. Owes(f, c)
          BY <2>1, <3>1, <4>1, <4>2 DEF Owes
        <5>2. \A h \in Hosts : f.got[h] # Unread => f.got[h] >= call[c].base[h]
          BY <5>1 DEF IInv, FetchesSane
        <5>3. QED BY <2>1, <4>1, <5>2 DEF AsNew
      <4>3. QED BY <2>3, <4>1, <4>2 DEF Fresh, Rows
    <3>2. CASE f.gen # gen
      <4>1. UNCHANGED <<rows, echo>>
        BY <1>10, <3>2 DEF FetchReturns, SetSheds
      <4>2. QED BY <1>1, <2>1, <4>1 DEF Fresh, AsNew, Rows
    <3>3. QED BY <3>1, <3>2
  <2>7. Reports' = Reports
    <3>1. \A o : Fresh(o.sheds, o.refresh_token)' <=> Fresh(o.sheds, o.refresh_token)
      BY <2>5
    <3>2. QED BY <2>1, <3>1 DEF Reports, Rows
  <2>8. f.mount => Report(AllRows(Unread), 0) \in Reports
    <3> DEFINE z == AllRows(Unread)
    <3>1. z \in Rows
      BY DEF AllRows, Rows
    <3> HIDE DEF z
    <3>2. Report(z, 0).sheds = z /\ Report(z, 0).refresh_token = 0
      BY DEF Report
    <3>3. Fresh(z, 0)
      <4>1. ASSUME NEW c \in Calls PROVE ~(0 < call[c].token /\ call[c].token <= 0)
        <5>1. call[c].token \in Nat
          BY <2>4 DEF CallRec
        <5>2. QED BY <5>1
      <4>2. QED BY <4>1 DEF Fresh
    <3>4. 0 \in 0..seq
      BY <1>1
    <3>5. QED BY <2>2, <3>1, <3>2, <3>3, <3>4 DEF Reports, z
  <2>9. outbox' \in Seq(Reports')
    BY <1>1, <2>1, <2>7, <2>8
  <2>10. ASSUME has("refresh_token") PROVE Fresh(snap.sheds, snap.refresh_token)'
    BY <1>1, <2>1, <2>10 DEF Fresh, AsNew
  <2>11. QED BY <1>1, <2>1, <2>6, <2>9, <2>10 DEF DisplaySane, has
<1>11. ASSUME NEW c \in Calls, TakeToken(c) PROVE DisplaySane'
  <2>1. /\ seq' = seq + 1 /\ call'[c].token = seq + 1
        /\ \A d \in Calls : d # c =>
             call'[d].token = call[d].token /\ call'[d].base = call[d].base
        /\ UNCHANGED <<world, listeners, webview, events, outbox, snap>>
    BY <1>11, TokenTaken
  <2>2. UNCHANGED <<rows, echo, ready>>
    BY <2>1 DEF webview
  <2>3. ASSUME NEW r, NEW t \in 0..seq, Fresh(r, t) PROVE Fresh(r, t)'
    <3>1. ~(call'[c].token <= t)
      BY <1>1, <2>1
    <3>2. QED BY <2>1, <2>3, <3>1 DEF Fresh, AsNew
  <2>4. Fresh(rows, echo)'
    <3>1. PICK r : r = rows
      OBVIOUS
    <3>2. PICK t \in 0..seq : t = echo
      BY <1>1
    <3>3. Fresh(r, t)'
      BY <1>1, <2>3, <3>1, <3>2
    <3>4. QED BY <2>2, <3>1, <3>2, <3>3 DEF Fresh, AsNew
  <2>5. ASSUME has("refresh_token") PROVE Fresh(snap.sheds, snap.refresh_token)'
    <3>1. PICK r : r = snap.sheds
      OBVIOUS
    <3>2. PICK t \in 0..seq : t = snap.refresh_token
      BY <1>1, <2>5
    <3>3. Fresh(r, t)'
      BY <1>1, <2>3, <2>5, <3>1, <3>2
    <3>4. QED BY <2>1, <3>1, <3>2, <3>3 DEF Fresh, AsNew
  <2>6. Reports \subseteq Reports'
    <3> SUFFICES ASSUME NEW o \in Reports, o # [agents |-> TRUE]
                 PROVE  o \in {x \in {Report(r, t) : r \in Rows, t \in 0..seq'} :
                                 listeners' = Both /\ Fresh(x.sheds, x.refresh_token)'}
      BY DEF Reports, Rows
    <3>1. PICK r \in Rows, t \in 0..seq :
            o = Report(r, t) /\ listeners = Both /\ Fresh(o.sheds, o.refresh_token)
      BY DEF Reports
    <3>2. o.sheds = r /\ o.refresh_token = t
      BY <3>1 DEF Report
    <3>3. Fresh(o.sheds, o.refresh_token)'
      BY <2>3, <3>1, <3>2
    <3>4. 0..seq \subseteq 0..seq'
      BY <1>1, <2>1
    <3>5. QED BY <2>1, <3>1, <3>3, <3>4
  <2>7. outbox' \in Seq(Reports')
    BY <1>1, <2>1, <2>6, SeqMonotone
  <2>8. has("refresh_token") => snap.refresh_token <= seq + 1
    BY <1>1
  <2>9. QED BY <1>1, <2>1, <2>2, <2>4, <2>5, <2>7, <2>8 DEF DisplaySane, has, Rows
<1>12. QED
  <2>1. CASE \/ UNCHANGED vars \/ Handle \/ Navigating \/ \E h \in Hosts : ShedsChange(h)
             \/ \E f \in fetches, h \in Hosts : list_sheds(f, h)
    BY <1>6, <2>1 DEF vars, webview, Handle, Navigating, ShedsChange, ClickPane, navigate,
       open_pane, list_sheds
  <2>2. QED BY <1>4, <1>5, <1>7, <1>8, <1>9, <1>10, <1>11, <2>1
        DEF Next, Webview, Fetching, Refreshing
-----------------------------------------------------------------------------
(* The inductive invariant of the relay. *)
THEOREM Invariance == Spec => []IInv
<1>1. Init => IInv
  <2> SUFFICES ASSUME Init PROVE IInv
    OBVIOUS
  <2>1. \A c \in Calls : call[c].token = 0 /\ call[c].base = AllRows(0) /\ call[c].at = "off"
    BY DEF Init, Idle
  <2>2. AllRows(0) \in [Hosts -> Nat] /\ AllRows(Unread) \in Rows
    BY DEF AllRows, Rows
  <2>3. CallsSane
    <3>1. call \in [Calls -> [at: {"off", "emit", "emitonly", "wait", "done"},
                              token: 0..seq, base: [Hosts -> Nat]]]
      BY <2>2 DEF Init, Idle
    <3>2. \A c \in Calls, h \in Hosts : call[c].base[h] <= world[h]
      <4>1. world = AllRows(0) /\ \A h \in Hosts : AllRows(0)[h] = 0
        BY DEF Init, AllRows
      <4>2. \A c \in Calls, h \in Hosts : call[c].base[h] = 0 /\ world[h] = 0
        BY <2>1, <4>1
      <4>3. QED BY <4>2
    <3>3. seq \in Nat /\ echo \in 0..seq /\ gen \in Nat /\ world \in [Hosts -> Nat]
      BY <2>2 DEF Init
    <3>4. QED BY <3>1, <3>2, <3>3 DEF CallsSane
  <2>4. EventsSane
    BY DEF Init, EventsSane
  <2>5. FetchesSane
    BY DEF Init, FetchesSane
  <2>6. DisplaySane
    <3>1. DOMAIN snap = {}
      BY DEF Init
    <3>2. Fresh(rows, echo)
      BY <2>1 DEF Fresh
    <3>3. outbox \in Seq(Reports) /\ rows \in Rows
      BY <2>2 DEF Init
    <3>4. QED BY <3>1, <3>2, <3>3 DEF DisplaySane, has, Init
  <2>7. QED BY <2>3, <2>4, <2>5, <2>6 DEF IInv
<1>2. IInv /\ [Next]_vars => IInv'
  BY StepCalls, StepQueue, StepFetches, StepDisplay DEF IInv
<1>3. QED BY <1>1, <1>2, PTL DEF Spec

(* The promise of sheds.refresh: rows under an echoed token were read      *)
(* after the token was taken.                                              *)
THEOREM EchoStaysFresh == Spec => []EchoIsFresh
<1>1. IInv => EchoIsFresh
  <2> SUFFICES ASSUME IInv, NEW c \in Calls, call[c].token > 0, refresh_token >= call[c].token
               PROVE  AsNew(snap.sheds, call[c].base)
    BY DEF EchoIsFresh
  <2>1. call[c].token \in Nat
    BY DEF IInv, CallsSane
  <2>2. has("refresh_token")
    BY <2>1 DEF refresh_token
  <2>3. snap.refresh_token \in Nat /\ Fresh(snap.sheds, snap.refresh_token)
    BY <2>2 DEF IInv, DisplaySane
  <2>4. call[c].token <= snap.refresh_token /\ 0 < call[c].token
    BY <2>1, <2>2, <2>3 DEF refresh_token
  <2>5. QED BY <2>3, <2>4 DEF Fresh
<1>2. QED BY <1>1, Invariance, PTL

(* What ui.navigate relies on: once the pane was reported, both listeners  *)
(* are attached.                                                           *)
THEOREM PaneListens == Spec => []PaneMeansListening
<1>1. IInv => PaneMeansListening
  BY DEF IInv, DisplaySane, PaneMeansListening, Both
<1>2. QED BY <1>1, Invariance, PTL
=============================================================================
