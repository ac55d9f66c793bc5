----------------------------- MODULE HBQClauses -----------------------------
(***************************************************************************)
(* The recursive functions of hbq.erl and dlq.erl, clause by clause: the   *)
(* reference against which the closed forms of the module Queues are       *)
(* compared, for the list and the queue of every state of the HBQ and      *)
(* every number.  Each is a recursive function of the argument that gets   *)
(* smaller, with the other arguments after it.                             *)
(***************************************************************************)
EXTENDS HBQ

(* cutToSize, dlq.erl:29-31 *)
Cut[n \in Nat] ==
  [q \in Seq(Entry) |->
     IF q = << >> \/ n = 0 THEN << >> ELSE <<Head(q)>> \o Cut[n - 1][Tail(q)]]

(* push2DLQ, dlq.erl:34-37 *)
PushedOn(entry, q) == Cut[DLQSize][<<entry>> \o q]

(* pushToHBQ on the list, hbq.erl:78-82 (line 79 never applies) *)
Insert[l \in Seq(Nat)] ==
  [n \in Nat |->
     IF l = << >> THEN <<n>>
     ELSE IF Head(l) > n THEN <<n>> \o l
     ELSE <<Head(l)>> \o Insert[Tail(l)][n]]

(* tryToAppend, hbq.erl:56-61 *)
TryToAppend[l \in Seq(Nat)] ==
  [e \in Nat \ {0} |-> [q \in Seq(Entry) |->
     IF l # << >> /\ Head(l) = e
     THEN TryToAppend[Tail(l)][e + 1][PushedOn(Message(e), q)]
     ELSE [expected |-> e, queue |-> q, list |-> l]]]

(* the walk of deliverMSG, dlq.erl:59-78 *)
Walk[q \in Seq(Entry)] ==
  [newest \in BOOLEAN |-> [nr \in Nat |->
     IF q = << >> THEN Dummy
     ELSE IF Head(q).nr = nr \/ Len(q) = 1
     THEN [nr |-> Head(q).nr, terminiert |-> newest]
     ELSE Walk[Tail(q)][FALSE][nr]]]

-----------------------------------------------------------------------------
(***************************************************************************)
(* pushToHBQ, tryToAppend with the pushes it makes, and deliverMSG compute *)
(* what their clauses compute (hbq.erl:56-61 and 78-82, dlq.erl:29-78):    *)
(* for a number that is held already and for one the queue has lost, too.  *)
(***************************************************************************)
ClausesAgree ==
  \A n \in Nr :
    /\ pushToHBQ(hbqList, n) = Insert[hbqList][n]
    /\ [expected |-> n + RunLength(n, hbqList),
        queue |-> push2DLQ(Run(n, hbqList), dlq),
        list |-> Rest(n, hbqList)] = TryToAppend[hbqList][n][dlq]
    /\ deliverMSG(n, dlq) = Walk[IF n < expectedNr(dlq) THEN dlq ELSE << >>][TRUE][n]
=============================================================================
