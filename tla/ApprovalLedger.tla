--------------------------- MODULE ApprovalLedger ---------------------------
(***************************************************************************)
(* What the approval coordinator promises the host agent, whatever users,  *)
(* dialogs, clocks and settings do meanwhile.  Every request that arrives  *)
(* is answered at once or left open.  An open one is answered exactly      *)
(* once, or given up: with the whole connection, or because another        *)
(* request takes its place.  What has been sent, or given up, stays so.    *)
(***************************************************************************)
EXTENDS Naturals, Sequences

VARIABLES
  open,   \* numbers of the received requests that wait for an answer
  sent,   \* for every received request, the answers sent
  epoch   \* connections lost so far

vars == <<open, sent, epoch>>

Init ==
  /\ open = {}
  /\ sent = << >>
  /\ epoch = 0

(* A request arrives and is answered at once, *)
AnswerAtOnce ==
  /\ Len(sent') = Len(sent) + 1
  /\ \A i \in DOMAIN sent : sent'[i] = sent[i]
  /\ Len(sent'[Len(sent) + 1]) = 1
  /\ UNCHANGED <<open, epoch>>

(* or waits, in the place of at most one that waited before. *)
Queue ==
  /\ Len(sent') = Len(sent) + 1
  /\ \A i \in DOMAIN sent : sent'[i] = sent[i]
  /\ sent'[Len(sent) + 1] = << >>
  /\ \E replaced \in SUBSET open :
       /\ \A i, j \in replaced : i = j
       /\ open' = (open \ replaced) \cup {Len(sent) + 1}
  /\ UNCHANGED epoch

(* Open requests are answered, each with one answer. *)
Settle ==
  /\ Len(sent') = Len(sent)
  /\ \E settled \in SUBSET open :
       /\ open' = open \ settled
       /\ \A i \in DOMAIN sent :
            IF i \in settled THEN Len(sent[i]) = 0 /\ Len(sent'[i]) = 1 ELSE sent'[i] = sent[i]
  /\ UNCHANGED epoch

(* The connection is lost, and every open request with it. *)
Drop ==
  /\ open' = {}
  /\ epoch' = epoch + 1
  /\ UNCHANGED sent

Next == AnswerAtOnce \/ Queue \/ Settle \/ Drop

Spec == Init /\ [][Next]_vars
=============================================================================
