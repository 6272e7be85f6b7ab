------------------------- MODULE AppInstance_proofs -------------------------
(***************************************************************************)
(* Proofs about AppInstance, for any number of launches, clients and       *)
(* frames: the socket path leads to the launch that holds the lock, and    *)
(* the replies on a connection are those of its frames, in their order.    *)
(***************************************************************************)
EXTENDS AppInstance, TLAPS

ConnRec ==
  [srv: Procs \cup {None}, state: {"none", "queued", "open", "closed"},
   frames: Seq(FrameKinds), taken: Nat, busy: BOOLEAN,
   out: Seq([id: Nat \cup {None}, ok: BOOLEAN]), hup: BOOLEAN]

(* What holds of one connection at any time.  Only a request, which is     *)
(* neither blank nor broken, is ever dispatched.                           *)
ConnSane(k) ==
  /\ k \in ConnRec /\ k.taken <= Len(k.frames)
  /\ k.state \in {"none", "queued"} => k.taken = 0 /\ k.out = << >>
  /\ k.busy => /\ k.state = "open" /\ k.taken > 0
               /\ k.frames[k.taken] \notin {"blank", "garbled", "oversize"}
  /\ \E of \in [DOMAIN k.out -> 1..k.taken] : Answers(k, of)

ConnsSane ==
  /\ conn \in [Clients -> ConnRec]
  /\ \A c \in Clients : ConnSane(conn[c])
-----------------------------------------------------------------------------
(* A connection without frames has no replies to match. *)
LEMMA EmptySane ==
  ASSUME NEW k \in ConnRec, k.taken = 0, k.out = << >>, ~k.busy
  PROVE  ConnSane(k)
<1> DEFINE of == [n \in DOMAIN k.out |-> 1]
<1>1. DOMAIN k.out = {} /\ 1..k.taken = {} /\ k.taken <= Len(k.frames)
  <2>1. k.frames \in Seq(FrameKinds)
    BY DEF ConnRec
  <2>2. Len(k.frames) \in Nat
    BY <2>1
  <2>3. QED BY <2>2
<1>2. of \in [DOMAIN k.out -> 1..k.taken]
  BY <1>1
<1> HIDE DEF of
<1>3. Answers(k, of)
  BY <1>1 DEF Answers
<1>4. \E g \in [DOMAIN k.out -> 1..k.taken] : Answers(k, g)
  BY <1>2, <1>3
<1>5. QED BY <1>1, <1>4 DEF ConnSane

(* No connection, and one that both ends have closed. *)
LEMMA NoConnSane == ConnSane(NoConn) /\ ConnSane(Forgotten)
<1>1. NoConn \in ConnRec /\ NoConn.taken = 0 /\ NoConn.out = << >> /\ NoConn.busy = FALSE
  <2>1. << >> \in Seq(FrameKinds) /\ << >> \in Seq([id: Nat \cup {None}, ok: BOOLEAN])
    OBVIOUS
  <2>2. QED BY <2>1 DEF NoConn, ConnRec
<1>2. /\ Forgotten \in ConnRec /\ Forgotten.taken = 0 /\ Forgotten.out = << >>
      /\ Forgotten.busy = FALSE
  BY <1>1 DEF Forgotten, ConnRec
<1>3. QED BY <1>1, <1>2, EmptySane

(* Either end may close: what was answered stays answered, and what was    *)
(* not comes after it.                                                     *)
LEMMA EndsSane ==
  ASSUME NEW k, ConnSane(k)
  PROVE  ConnSane(Closes(k)) /\ ConnSane(HangsUp(k))
<1>1. k \in ConnRec
  BY DEF ConnSane
<1>2. ConnSane(Forgotten)
  BY NoConnSane
<1>3. ConnSane([k EXCEPT !.state = "closed", !.busy = FALSE])
  <2> DEFINE x == [k EXCEPT !.state = "closed", !.busy = FALSE]
  <2>1. /\ x \in ConnRec /\ x.state = "closed" /\ x.busy = FALSE
        /\ x.taken = k.taken /\ x.out = k.out /\ x.frames = k.frames
    BY <1>1 DEF ConnRec
  <2> HIDE DEF x
  <2>2. PICK of \in [DOMAIN k.out -> 1..k.taken] : Answers(k, of)
    BY DEF ConnSane
  <2>3. Answers(x, of)
    BY <2>1, <2>2 DEF Answers
  <2>4. ConnSane(x)
    BY <2>1, <2>2, <2>3 DEF ConnSane
  <2>5. QED BY <2>4 DEF x
<1>4. ConnSane([k EXCEPT !.hup = TRUE])
  <2> DEFINE x == [k EXCEPT !.hup = TRUE]
  <2>1. /\ x \in ConnRec /\ x.state = k.state /\ x.busy = k.busy
        /\ x.taken = k.taken /\ x.out = k.out /\ x.frames = k.frames
    BY <1>1 DEF ConnRec
  <2> HIDE DEF x
  <2>2. PICK of \in [DOMAIN k.out -> 1..k.taken] : Answers(k, of)
    BY DEF ConnSane
  <2>3. Answers(x, of)
    BY <2>1, <2>2 DEF Answers
  <2>4. ConnSane(x)
    BY <2>1, <2>2, <2>3 DEF ConnSane
  <2>5. QED BY <2>4 DEF x
<1>5. QED BY <1>2, <1>3, <1>4 DEF Closes, HangsUp

(* The last frame taken is the one to answer next: all frames before it    *)
(* that call for a reply have theirs.                                      *)
AnswersNext(k, of) ==
  /\ k \in ConnRec /\ k.state = "open" /\ k.taken > 0 /\ k.taken <= Len(k.frames)
  /\ k.frames[k.taken] # "blank"
  /\ of \in [DOMAIN k.out -> 1..k.taken]
  /\ \A m, n \in DOMAIN k.out : m < n => of[m] < of[n]
  /\ \A n \in DOMAIN k.out :
       /\ k.frames[of[n]] # "blank"
       /\ k.out[n].id = IF k.frames[of[n]] \in {"garbled", "oversize"} THEN None ELSE of[n]
       /\ of[n] < k.taken
  /\ \A i \in 1..k.taken :
       k.frames[i] # "blank" /\ (\A n \in DOMAIN k.out : of[n] # i) => i = k.taken

(* Its reply is written, or the client is gone. *)
LEMMA WriteSane ==
  ASSUME NEW k, NEW of, AnswersNext(k, of), NEW ok \in BOOLEAN, NEW r,
         r = [id |-> IF k.frames[k.taken] \in {"garbled", "oversize"} THEN None ELSE k.taken,
              ok |-> ok]
  PROVE  ConnSane(write_line(k, r))
<1>1. k \in ConnRec
  BY DEF AnswersNext
<1>2. /\ k.frames \in Seq(FrameKinds) /\ k.taken \in Nat /\ k.hup \in BOOLEAN
      /\ k.out \in Seq([id: Nat \cup {None}, ok: BOOLEAN])
  BY <1>1 DEF ConnRec
<1>3. CASE k.hup
  BY <1>3, NoConnSane DEF write_line, Closes
<1>4. CASE ~k.hup
  <2> DEFINE x == [k EXCEPT !.out = Append(k.out, r), !.busy = FALSE]
             L == Len(k.out)
             to == [n \in 1..(L + 1) |-> IF n <= L THEN of[n] ELSE k.taken]
  <2>1. r \in [id: Nat \cup {None}, ok: BOOLEAN]
    BY <1>2
  <2>2. Append(k.out, r) \in Seq([id: Nat \cup {None}, ok: BOOLEAN])
    BY <1>2, <2>1
  <2>3. /\ x \in ConnRec /\ x.state = k.state /\ x.busy = FALSE
        /\ x.taken = k.taken /\ x.frames = k.frames /\ x.out = Append(k.out, r)
    BY <1>1, <2>2 DEF ConnRec
  <2>4. /\ L \in Nat /\ DOMAIN k.out = 1..L /\ DOMAIN x.out = 1..(L + 1)
        /\ \A n \in 1..L : x.out[n] = k.out[n]
        /\ x.out[L + 1] = r
    BY <1>2, <2>1, <2>3
  <2>5. r.id = IF k.frames[k.taken] \in {"garbled", "oversize"} THEN None ELSE k.taken
    OBVIOUS
  <2> HIDE DEF x
  <2>6. /\ of \in [1..L -> 1..k.taken] /\ k.taken > 0 /\ k.taken <= Len(k.frames)
        /\ k.state = "open" /\ k.frames[k.taken] # "blank"
        /\ \A m, n \in 1..L : m < n => of[m] < of[n]
        /\ \A n \in 1..L :
             /\ k.frames[of[n]] # "blank"
             /\ k.out[n].id = IF k.frames[of[n]] \in {"garbled", "oversize"} THEN None ELSE of[n]
             /\ of[n] < k.taken
        /\ \A i \in 1..k.taken :
             k.frames[i] # "blank" /\ (\A n \in 1..L : of[n] # i) => i = k.taken
    BY <2>4 DEF AnswersNext
  <2> HIDE DEF L
  <2>7. /\ to \in [1..(L + 1) -> 1..k.taken] /\ to[L + 1] = k.taken
        /\ \A n \in 1..L : to[n] = of[n]
    BY <1>2, <2>4, <2>6
  <2> HIDE DEF to
  <2>8. \A n \in 1..(L + 1) : n = L + 1 \/ n \in 1..L
    BY <2>4
  <2>9. Answers(x, to)
    <3>1. ASSUME NEW m \in 1..(L + 1), NEW n \in 1..(L + 1), m < n PROVE to[m] < to[n]
      <4>1. m \in 1..L
        BY <2>4, <3>1
      <4>2. CASE n = L + 1
        BY <2>6, <2>7, <4>1, <4>2
      <4>3. CASE n \in 1..L
        BY <2>6, <2>7, <3>1, <4>1, <4>3
      <4>4. QED BY <2>8, <4>2, <4>3
    <3>2. \A n \in 1..(L + 1) :
             /\ x.frames[to[n]] # "blank"
             /\ x.out[n].id = IF x.frames[to[n]] \in {"garbled", "oversize"} THEN None ELSE to[n]
      <4>1. ASSUME NEW n \in 1..L
            PROVE  /\ x.frames[to[n]] # "blank"
                   /\ x.out[n].id = IF x.frames[to[n]] \in {"garbled", "oversize"} THEN None ELSE to[n]
        BY <2>3, <2>4, <2>6, <2>7, ZenonT(60)
      <4>2. /\ x.frames[to[L + 1]] # "blank"
            /\ x.out[L + 1].id = IF x.frames[to[L + 1]] \in {"garbled", "oversize"} THEN None ELSE to[L + 1]
        BY <2>3, <2>4, <2>5, <2>6, <2>7
      <4>3. QED BY <2>8, <4>1, <4>2
    <3>3. ASSUME NEW i \in 1..x.taken, x.frames[i] # "blank", \A n \in 1..(L + 1) : to[n] # i
          PROVE  FALSE
      <4>1. L + 1 \in 1..(L + 1) /\ \A n \in 1..L : n \in 1..(L + 1)
        BY <2>4
      <4>2. i # k.taken /\ \A n \in 1..L : of[n] # i
        BY <2>7, <3>3, <4>1
      <4>3. QED BY <2>3, <2>6, <3>3, <4>2
    <3>4. QED BY <2>3, <2>4, <3>1, <3>2, <3>3 DEF Answers
  <2>10. ConnSane(x)
    BY <2>3, <2>4, <2>6, <2>7, <2>9 DEF ConnSane
  <2>11. QED BY <1>4, <2>10 DEF write_line, x
<1>5. QED BY <1>2, <1>3, <1>4

(* Reading one line leaves the connection sane. *)
LEMMA ReadSane ==
  ASSUME NEW k, ConnSane(k), k.state = "open", ~k.busy, k.taken < Len(k.frames)
  PROVE  ConnSane(Served([k EXCEPT !.taken = @ + 1], k.frames[k.taken + 1]))
<1> DEFINE x == [k EXCEPT !.taken = k.taken + 1]
           f == k.frames[k.taken + 1]
<1>1. k \in ConnRec
  BY DEF ConnSane
<1>2. k.taken \in Nat /\ k.frames \in Seq(FrameKinds) /\ k.out \in Seq([id: Nat \cup {None}, ok: BOOLEAN])
  BY <1>1 DEF ConnRec
<1>3. /\ x \in ConnRec /\ x.taken = k.taken + 1 /\ x.frames = k.frames /\ x.out = k.out
      /\ x.busy = k.busy /\ x.state = "open" /\ x.hup = k.hup
  BY <1>1, <1>2, SMTT(60) DEF ConnRec
<1>4. k.taken + 1 \in 1..Len(k.frames) /\ f \in FrameKinds
  BY <1>2
<1> HIDE DEF x
<1>5. PICK of \in [DOMAIN k.out -> 1..k.taken] : Answers(k, of)
  BY DEF ConnSane
<1>6. /\ of \in [DOMAIN x.out -> 1..x.taken]
      /\ \A n \in DOMAIN k.out : of[n] <= k.taken /\ of[n] \in Nat
  BY <1>2, <1>3, <1>5
<1>7. /\ \A m, n \in DOMAIN k.out : m < n => of[m] < of[n]
      /\ \A n \in DOMAIN k.out :
           /\ k.frames[of[n]] # "blank"
           /\ k.out[n].id = IF k.frames[of[n]] \in {"garbled", "oversize"} THEN None ELSE of[n]
      /\ \A i \in 1..k.taken : k.frames[i] # "blank" => \E n \in DOMAIN k.out : of[n] = i
  BY <1>5 DEF Answers
<1>8. \A i \in 1..x.taken : i = x.taken \/ i \in 1..k.taken
  BY <1>2, <1>3
<1>9. x.frames[x.taken] = f
  BY <1>3
<1> HIDE DEF f
<1>10. CASE f = "blank"
  <2>1. Answers(x, of)
    BY <1>3, <1>7, <1>8, <1>9, <1>10 DEF Answers
  <2>2. ConnSane(x)
    BY <1>3, <1>4, <1>6, <2>1 DEF ConnSane
  <2>3. QED BY <1>10, <2>2 DEF Served, x, f
<1>11. ASSUME f # "blank" PROVE AnswersNext(x, of)
  <2>1. \A n \in DOMAIN k.out : of[n] < k.taken + 1
    BY <1>2, <1>6
  <2>2. x.taken > 0 /\ x.taken <= Len(x.frames)
    BY <1>2, <1>3, <1>4
  <2>3. \A i \in 1..x.taken :
          x.frames[i] # "blank" /\ (\A n \in DOMAIN x.out : of[n] # i) => i = x.taken
    BY <1>3, <1>7, <1>8
  <2>4. QED BY <1>3, <1>6, <1>7, <1>9, <1>11, <2>1, <2>2, <2>3 DEF AnswersNext
<1>12. CASE f \in {"garbled", "oversize"}
  <2>1. ConnSane(write_line(x, [id |-> None, ok |-> FALSE]))
    <3>1. [id |-> None, ok |-> FALSE] =
            [id |-> IF x.frames[x.taken] \in {"garbled", "oversize"} THEN None ELSE x.taken,
             ok |-> FALSE]
      BY <1>9, <1>12
    <3>2. AnswersNext(x, of) /\ FALSE \in BOOLEAN
      BY <1>11, <1>12
    <3>3. QED BY <3>1, <3>2, WriteSane
  <2>2. ConnSane(Closes(write_line(x, [id |-> None, ok |-> FALSE])))
    BY <2>1, EndsSane
  <2>3. QED BY <1>12, <2>1, <2>2 DEF Served, x, f
<1>13. CASE f \notin {"blank", "garbled", "oversize"}
  <2> DEFINE y == [x EXCEPT !.busy = TRUE]
  <2>1. /\ y \in ConnRec /\ y.busy = TRUE /\ y.state = "open" /\ y.taken = x.taken
        /\ y.frames = x.frames /\ y.out = x.out
    BY <1>3 DEF ConnRec
  <2> HIDE DEF y
  <2>2. AnswersNext(x, of)
    BY <1>11, <1>13
  <2>3. Answers(y, of)
    BY <2>1, <2>2 DEF Answers, AnswersNext
  <2>4. ConnSane(y)
    BY <1>9, <1>13, <2>1, <2>2, <2>3 DEF ConnSane, AnswersNext
  <2>5. QED BY <1>13, <2>4 DEF Served, x, f, y
<1>14. QED BY <1>10, <1>12, <1>13
-----------------------------------------------------------------------------
(* A step that replaces one connection by a sane one. *)
LEMMA OneConn ==
  ASSUME ConnsSane, NEW c \in Clients, NEW x, ConnSane(x), conn' = [conn EXCEPT ![c] = x]
  PROVE  ConnsSane'
<1>1. x \in ConnRec /\ conn \in [Clients -> ConnRec]
  BY DEF ConnSane, ConnsSane
<1>2. /\ conn' \in [Clients -> ConnRec] /\ conn'[c] = x
      /\ \A d \in Clients : d # c => conn'[d] = conn[d]
  BY <1>1
<1>3. \A d \in Clients : ConnSane(conn'[d])
  BY <1>2 DEF ConnsSane
<1>4. QED BY <1>2, <1>3 DEF ConnsSane

(* A new connection with one frame on it. *)
LEMMA OpenSane ==
  ASSUME IInv, NEW f \in FrameKinds
  PROVE  ConnSane(Opened(<<f>>))
<1>1. sock \in Procs \cup {None} /\ <<f>> \in Seq(FrameKinds)
  BY DEF IInv, TypeOK
<1>2. NoConn \in ConnRec
  BY NoConnSane DEF ConnSane
<1>3. /\ Opened(<<f>>) \in ConnRec /\ Opened(<<f>>).taken = NoConn.taken
      /\ Opened(<<f>>).out = NoConn.out /\ Opened(<<f>>).busy = NoConn.busy
  BY <1>1, <1>2 DEF Opened, ConnRec
<1>4. NoConn.taken = 0 /\ NoConn.out = << >> /\ NoConn.busy = FALSE
  BY DEF NoConn
<1>5. QED BY <1>3, <1>4, EmptySane

(* The client writes one more frame. *)
LEMMA SendSane ==
  ASSUME NEW k, ConnSane(k), NEW f \in FrameKinds
  PROVE  ConnSane([k EXCEPT !.frames = Append(k.frames, f)])
<1> DEFINE x == [k EXCEPT !.frames = Append(k.frames, f)]
<1>1. k \in ConnRec
  BY DEF ConnSane
<1>2. k.frames \in Seq(FrameKinds) /\ k.taken \in Nat /\ k.taken <= Len(k.frames)
      /\ Len(k.frames) \in Nat
  <2>1. k.frames \in Seq(FrameKinds) /\ k.taken \in Nat
    BY <1>1 DEF ConnRec
  <2>2. QED BY <2>1 DEF ConnSane
<1>3. Append(k.frames, f) \in Seq(FrameKinds)
  BY <1>2
<1>4. /\ x \in ConnRec /\ x.frames = Append(k.frames, f) /\ x.state = k.state
      /\ x.taken = k.taken /\ x.out = k.out /\ x.busy = k.busy
  BY <1>1, <1>3 DEF ConnRec
<1> HIDE DEF x
<1>5. x.taken <= Len(x.frames) /\ \A i \in 1..k.taken : x.frames[i] = k.frames[i]
  BY <1>2, <1>4
<1>6. PICK of \in [DOMAIN k.out -> 1..k.taken] : Answers(k, of)
  BY DEF ConnSane
<1>7. Answers(x, of)
  <2>1. \A n \in DOMAIN k.out : x.frames[of[n]] = k.frames[of[n]]
    BY <1>5, <1>6
  <2>2. QED BY <1>4, <1>5, <1>6, <2>1, ZenonT(60) DEF Answers
<1>8. k.busy => x.frames[x.taken] = k.frames[k.taken]
  <2>1. k.busy => k.taken \in 1..k.taken
    BY <1>2 DEF ConnSane
  <2>2. QED BY <1>4, <1>5, <2>1
<1>9. ConnSane(x)
  BY <1>4, <1>5, <1>6, <1>7, <1>8 DEF ConnSane
<1>10. QED BY <1>9 DEF x

(* Closing some connections, whichever. *)
LEMMA SomeClose ==
  ASSUME ConnsSane, NEW g, g = [c \in Clients |-> g[c]],
         \A c \in Clients : g[c] = conn[c] \/ g[c] = Closes(conn[c])
  PROVE  /\ g \in [Clients -> ConnRec]
         /\ \A c \in Clients : ConnSane(g[c])
<1>1. \A c \in Clients : ConnSane(g[c])
  BY EndsSane DEF ConnsSane
<1>2. QED BY <1>1 DEF ConnSane

(* The end of a process closes its connections at both ends. *)
LEMMA EndsKeeps ==
  ASSUME ConnsSane, NEW p \in Procs, Ends(p)
  PROVE  ConnsSane'
<1> DEFINE g == Cut({p})
<1>1. /\ g = [c \in Clients |-> g[c]]
      /\ \A c \in Clients : g[c] = conn[c] \/ g[c] = Closes(conn[c])
  BY DEF Cut
<1>2. conn' = [g EXCEPT ![p] = HangsUp(g[p])] /\ p \in Clients
  BY DEF Ends, Clients
<1> HIDE DEF g
<1>3. g \in [Clients -> ConnRec] /\ \A c \in Clients : ConnSane(g[c])
  BY <1>1, SomeClose
<1>4. ConnSane(HangsUp(g[p]))
  BY <1>2, <1>3, EndsSane
<1>5. HangsUp(g[p]) \in ConnRec
  BY <1>4 DEF ConnSane
<1>6. /\ conn' \in [Clients -> ConnRec] /\ conn'[p] = HangsUp(g[p])
      /\ \A c \in Clients : c # p => conn'[c] = g[c]
  BY <1>2, <1>3, <1>5
<1>7. \A c \in Clients : ConnSane(conn'[c])
  BY <1>3, <1>4, <1>6
<1>8. QED BY <1>6, <1>7 DEF ConnsSane

(* The reply to the frame being answered. *)
LEMMA HandleSane ==
  ASSUME NEW k, ConnSane(k), k.state = "open", k.busy
  PROVE  ConnSane(write_line(k, [id |-> k.taken, ok |-> dispatch(k.frames[k.taken])]))
<1>1. PICK of \in [DOMAIN k.out -> 1..k.taken] : Answers(k, of)
  BY DEF ConnSane
<1>2. AnswersNext(k, of)
  BY <1>1 DEF ConnSane, Answers, AnswersNext
<1>3. dispatch(k.frames[k.taken]) \in BOOLEAN
  BY DEF dispatch
<1>4. [id |-> k.taken, ok |-> dispatch(k.frames[k.taken])] =
        [id |-> IF k.frames[k.taken] \in {"garbled", "oversize"} THEN None ELSE k.taken,
         ok |-> dispatch(k.frames[k.taken])]
  BY DEF ConnSane
<1>5. QED BY <1>2, <1>3, <1>4, WriteSane

(* Every step leaves every connection sane. *)
LEMMA StepConns ==
  ASSUME IInv, ConnsSane, [Next]_vars
  PROVE  ConnsSane'
<1>1. \A c \in Clients : ConnSane(conn[c])
  BY DEF ConnsSane
<1>2. CASE conn' = conn
  BY <1>2 DEF ConnsSane
<1>3. ASSUME NEW p \in Procs, activate_running_instance(p) PROVE ConnsSane'
  <2>1. "activate" \in FrameKinds /\ p \in Clients
    BY DEF FrameKinds, Clients
  <2>2. CASE conn' = [conn EXCEPT ![p] = Opened(<<"activate">>)]
    BY <2>1, <2>2, OpenSane, OneConn
  <2>3. QED BY <1>3, <2>2, EndsKeeps DEF activate_running_instance
<1>4. ASSUME NEW p \in Procs, AcceptFails(p) PROVE ConnsSane'
  <2>1. /\ conn' = [c \in Clients |-> conn'[c]]
        /\ \A c \in Clients : conn'[c] = conn[c] \/ conn'[c] = Closes(conn[c])
    BY <1>4 DEF AcceptFails
  <2>2. PICK g : g = conn'
    OBVIOUS
  <2>3. g \in [Clients -> ConnRec] /\ \A c \in Clients : ConnSane(g[c])
    BY <2>1, <2>2, SomeClose
  <2>4. QED BY <2>2, <2>3 DEF ConnsSane
<1>5. ASSUME NEW c \in Clients, Serves(c) PROVE ConnsSane'
  <2> DEFINE k == conn[c]
  <2>1. ConnSane(k) /\ k \in ConnRec
    BY <1>1 DEF ConnSane
  <2>2. CASE Accept(c)
    <3> DEFINE x == [k EXCEPT !.state = "open"]
    <3>1. conn' = [conn EXCEPT ![c] = x] /\ k.state = "queued"
      BY <2>2 DEF Accept
    <3>2. /\ x \in ConnRec /\ x.taken = k.taken /\ x.out = k.out /\ x.busy = k.busy
      BY <2>1 DEF ConnRec
    <3>3. k.taken = 0 /\ k.out = << >> /\ ~k.busy
      BY <2>1, <3>1 DEF ConnSane
    <3> HIDE DEF x, k
    <3>4. ConnSane(x)
      BY <3>2, <3>3, EmptySane
    <3>5. QED BY <3>1, <3>4, OneConn
  <2>3. CASE read_capped_line(c)
    <3> DEFINE x == Served([k EXCEPT !.taken = @ + 1], k.frames[k.taken + 1])
    <3>1. /\ conn' = [conn EXCEPT ![c] = x] /\ k.state = "open" /\ ~k.busy
          /\ k.taken < Len(k.frames)
      BY <2>3 DEF read_capped_line
    <3> HIDE DEF k
    <3>2. ConnSane(x)
      BY <2>1, <3>1, ReadSane
    <3> HIDE DEF x
    <3>3. QED BY <3>1, <3>2, OneConn
  <2>4. CASE handle_line(c)
    <3> DEFINE x == write_line(k, [id |-> k.taken, ok |-> dispatch(k.frames[k.taken])])
    <3>1. conn' = [conn EXCEPT ![c] = x] /\ k.state = "open" /\ k.busy
      BY <2>4 DEF handle_line
    <3> HIDE DEF k
    <3>2. ConnSane(x)
      BY <2>1, <3>1, HandleSane
    <3> HIDE DEF x
    <3>3. QED BY <3>1, <3>2, OneConn
  <2>5. CASE ServeEof(c)
    <3>1. conn' = [conn EXCEPT ![c] = Closes(k)]
      BY <2>5 DEF ServeEof
    <3>2. ConnSane(Closes(k))
      BY <2>1, EndsSane
    <3>3. QED BY <3>1, <3>2, OneConn
  <2>6. QED BY <1>5, <2>2, <2>3, <2>4, <2>5 DEF Serves
<1>6. ASSUME NEW c \in Ctls, NEW o, Ends_ctl(c, o) PROVE ConnsSane'
  <2>1. c \in Clients /\ conn' = [conn EXCEPT ![c] = HangsUp(conn[c])]
    BY <1>6 DEF Ends_ctl, Clients
  <2>2. ConnSane(HangsUp(conn[c]))
    BY <1>1, <2>1, EndsSane
  <2>3. QED BY <2>1, <2>2, OneConn
<1>7. ASSUME NEW c \in Ctls, NEW f \in Asked, exchange(c, f) PROVE ConnsSane'
  <2>1. c \in Clients /\ f \in FrameKinds
    BY FramesAssumption DEF Clients, FrameKinds
  <2>2. CASE conn' = [conn EXCEPT ![c] = Opened(<<f>>)]
    BY <2>1, <2>2, OpenSane, OneConn
  <2>3. QED BY <1>6, <1>7, <2>2 DEF exchange
<1>8. ASSUME NEW c \in Ctls, parse_reply(c) PROVE ConnsSane'
  BY <1>6, <1>8 DEF parse_reply
<1>9. ASSUME NEW d \in Drivers, NEW f \in Sent, DriverSends(d, f) PROVE ConnsSane'
  <2>1. d \in Clients /\ f \in FrameKinds
    BY FramesAssumption DEF Clients
  <2>2. CASE conn' = [conn EXCEPT ![d] = Opened(<<f>>)]
    BY <2>1, <2>2, OpenSane, OneConn
  <2>3. CASE conn' = [conn EXCEPT ![d].frames = Append(@, f)]
    <3> DEFINE x == [conn[d] EXCEPT !.frames = Append(conn[d].frames, f)]
    <3>1. ConnSane(x)
      BY <1>1, <2>1, SendSane
    <3>2. conn' = [conn EXCEPT ![d] = x]
      BY <2>3
    <3> HIDE DEF x
    <3>3. QED BY <2>1, <3>1, <3>2, OneConn
  <2>4. QED BY <1>9, <2>2, <2>3 DEF DriverSends
<1>10. ASSUME NEW p \in Procs, Launch(p) \/ Stops(p) \/ Starts(p) PROVE ConnsSane'
  <2>1. CASE Stops(p) \/ Returns(p) \/ SetupFails(p)
    BY <2>1, EndsKeeps DEF Stops, Returns, SetupFails
  <2>2. CASE \/ Launch(p) \/ acquire(p) \/ RecordPid(p) \/ AcquireIo(p) \/ AlreadyHeld(p)
             \/ Unlink(p) \/ bind(p)
    BY <1>2, <2>2 DEF Launch, acquire, RecordPid, AcquireIo, AlreadyHeld, Unlink, bind, net
  <2>3. QED BY <1>3, <1>10, <2>1, <2>2 DEF Starts
<1>11. QED BY <1>2, <1>4, <1>5, <1>7, <1>8, <1>9, <1>10 DEF Next, vars
-----------------------------------------------------------------------------
(* Two launches cannot both hold the lock, so only one that went on        *)
(* without it can take the path from the one that has it.                  *)
LEMMA StepLock ==
  ASSUME IInv, [Next]_vars
  PROVE  IInv'
<1>1. /\ TypeOK /\ (\A p \in Procs : HoldsLock(p)) /\ (\A p \in listening : pc[p] = "serving")
      /\ (\A p \in Procs : pc[p] = "off" => p \notin unlocked) /\ PrimaryOwnsSocket
  BY DEF IInv
<1>2. CASE UNCHANGED <<pc, lock, unlocked, sock, listening>>
  BY <1>1, <1>2 DEF IInv, TypeOK, HoldsLock, PrimaryOwnsSocket
<1>3. ASSUME NEW p \in Procs, Ends(p), pc[p] # "off" PROVE IInv'
  BY <1>1, <1>3, ClientsAssumption DEF Ends, IInv, TypeOK, HoldsLock, PrimaryOwnsSocket, Stages
<1>4. ASSUME NEW p \in Procs, Launch(p) \/ RecordPid(p) \/ AlreadyHeld(p) PROVE IInv'
  BY <1>1, <1>4 DEF Launch, RecordPid, AlreadyHeld, net, IInv, TypeOK, HoldsLock,
     PrimaryOwnsSocket, Stages
<1>5. ASSUME NEW p \in Procs, acquire(p) PROVE IInv'
  BY <1>1, <1>5, ClientsAssumption DEF acquire, net, IInv, TypeOK, HoldsLock,
     PrimaryOwnsSocket, Stages
<1>6. ASSUME NEW p \in Procs, AcquireIo(p) PROVE IInv'
  BY <1>1, <1>6, ClientsAssumption DEF AcquireIo, net, IInv, TypeOK, HoldsLock,
     PrimaryOwnsSocket, Stages
<1>7. ASSUME NEW p \in Procs, Unlink(p) \/ bind(p) PROVE IInv'
  <2>1. \A q \in listening \ unlocked : lock = q /\ q # p
    BY <1>1, <1>7 DEF Unlink, bind, TypeOK, HoldsLock
  <2>2. p \notin unlocked => lock = p
    BY <1>1, <1>7 DEF Unlink, bind, HoldsLock
  <2>3. \A q \in listening \ unlocked : p \in unlocked
    BY <2>1, <2>2
  <2>4. CASE Unlink(p)
    BY <1>1, <2>3, <2>4 DEF Unlink, net, IInv, TypeOK, HoldsLock, PrimaryOwnsSocket, Stages
  <2>5. CASE bind(p)
    BY <1>1, <2>3, <2>5 DEF bind, IInv, TypeOK, HoldsLock, PrimaryOwnsSocket, Stages
  <2>6. QED BY <1>7, <2>4, <2>5
<1>8. ASSUME NEW p \in Procs, AcceptFails(p) PROVE IInv'
  BY <1>1, <1>8 DEF AcceptFails, IInv, TypeOK, HoldsLock, PrimaryOwnsSocket
<1>9. ASSUME NEW p \in Procs, activate_running_instance(p) PROVE IInv'
  <2>1. CASE Ends(p)
    BY <1>3, <1>9, <2>1 DEF activate_running_instance
  <2>2. CASE pc' = [pc EXCEPT ![p] = "sent"] /\ UNCHANGED <<lock, unlocked, sock, listening>>
    BY <1>1, <1>9, <2>2 DEF activate_running_instance, IInv, TypeOK, HoldsLock,
       PrimaryOwnsSocket, Stages
  <2>3. QED BY <1>9, <2>1, <2>2 DEF activate_running_instance
<1>10. ASSUME NEW p \in Procs, Stops(p) \/ Returns(p) \/ SetupFails(p) PROVE IInv'
  BY <1>3, <1>10 DEF Stops, Returns, SetupFails
<1>11. CASE \/ UNCHANGED vars \/ \E c \in Clients : Serves(c)
            \/ \E c \in Ctls : (\E f \in Asked : exchange(c, f)) \/ parse_reply(c)
            \/ \E d \in Drivers : \E f \in Sent : DriverSends(d, f)
  BY <1>2, <1>11 DEF vars, Serves, Accept, read_capped_line, handle_line, ServeEof, exchange,
     parse_reply, Ends_ctl, DriverSends
<1>12. QED BY <1>4, <1>5, <1>6, <1>7, <1>8, <1>9, <1>10, <1>11 DEF Next, Starts

(* "A second launch never unlinks the live socket": the lock, the path and *)
(* the accept loop stay with one launch, as long as none went on without   *)
(* the lock.                                                               *)
THEOREM LockGuardsSocket == Spec => []IInv
<1>1. Init => IInv
  BY DEF Init, IInv, TypeOK, HoldsLock, PrimaryOwnsSocket, Stages
<1>2. IInv /\ [Next]_vars => IInv'
  BY StepLock
<1>3. QED BY <1>1, <1>2, PTL DEF Spec

(* One reply per request, in order and under its id, on every connection. *)
THEOREM RepliesMatch == Spec => []RepliesInOrder
<1>1. Init => ConnsSane
  <2> SUFFICES ASSUME Init PROVE ConnsSane
    OBVIOUS
  <2>1. NoConn \in ConnRec /\ ConnSane(NoConn)
    BY NoConnSane DEF ConnSane
  <2>2. QED BY <2>1 DEF Init, ConnsSane
<1>2. IInv /\ ConnsSane /\ [Next]_vars => ConnsSane'
  BY StepConns
<1>3. ConnsSane => RepliesInOrder
  BY DEF ConnsSane, ConnSane, RepliesInOrder
<1>4. QED BY <1>1, <1>2, <1>3, LockGuardsSocket, PTL DEF Spec
=============================================================================
