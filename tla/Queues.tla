------------------------------- MODULE Queues -------------------------------
(***************************************************************************)
(* The functions of the message service's two queues.                      *)
(*                                                                         *)
(* The delivery queue (dlq.erl) is a passive value {Size, Queue} owned by  *)
(* the HBQ process.  Size never changes, so it is the constant DLQSize and *)
(* the operators work on the Queue alone: a sequence of entries, the       *)
(* newest one first.  Of the hold-back queue (hbq.erl) the operators work  *)
(* on the list, a sequence of message numbers.  The recursive functions of *)
(* the code are given in closed form; HBQClauses compares them with their  *)
(* clauses.                                                                *)
(*                                                                         *)
(* Of an entry {NNr, [NNr, Msg, TimeStamps ...]} the model keeps the       *)
(* number and whether the text is a client's message or the marker         *)
(* lueckeGeschlossen of a closed gap; texts and time stamps are left out.  *)
(***************************************************************************)
EXTENDS Integers, Sequences, FiniteSetsExt

CONSTANT DLQSize     \* dlqlimit of server.cfg

ASSUME DLQSizeAssumption == DLQSize \in Nat \ {0}

Entry == [nr : Nat \ {0}, gap : BOOLEAN]

Message(n) == [nr |-> n, gap |-> FALSE]
LueckeGeschlossen(n) == [nr |-> n, gap |-> TRUE]

(***************************************************************************)
(* The number the queue can take next.                                     *)
(***************************************************************************)
expectedFromZero(queue) ==   \* mutant: an empty DLQ expects number 0
  IF queue = << >> THEN 0 ELSE queue[1].nr + 1

expectedNr(queue) == IF queue = << >> THEN 1 ELSE queue[1].nr + 1

cutToSize(size, queue) ==
  SubSeq(queue, 1, IF Len(queue) <= size THEN Len(queue) ELSE size)

(***************************************************************************)
(* The effect of one push2DLQ per entry of new (its last entry first): the *)
(* code cuts after every single push, which leaves the same entries as one *)
(* cut at the end.                                                         *)
(***************************************************************************)
pushUncut(new, queue) == new \o queue   \* mutant: the limit is forgotten

push2DLQ(new, queue) == cutToSize(DLQSize, new \o queue)

(***************************************************************************)
(* The answer to a reader that asks for number nr: the entry sent to it    *)
(* (0 for the dummy message) and the flag Terminiert.  The walk stops at   *)
(* the entry that was asked for or, if there is none, at the last one.     *)
(***************************************************************************)
Dummy == [nr |-> 0, terminiert |-> TRUE]

deliverLastFlag(nr, queue) ==   \* mutant: terminiert set at the oldest entry
  IF nr >= expectedNr(queue) \/ queue = << >>
  THEN Dummy
  ELSE LET i == Min({j \in DOMAIN queue : queue[j].nr = nr} \cup {Len(queue)})
       IN  [nr |-> queue[i].nr, terminiert |-> i = Len(queue)]

deliverMSG(nr, queue) ==
  IF nr >= expectedNr(queue) \/ queue = << >>
  THEN Dummy
  ELSE LET i == Min({j \in DOMAIN queue : queue[j].nr = nr} \cup {Len(queue)})
       IN  [nr |-> queue[i].nr, terminiert |-> i = 1]

(***************************************************************************)
(* The numbers of the entries of a queue that are messages (gap = FALSE)   *)
(* or gap markers (gap = TRUE).                                            *)
(***************************************************************************)
NumbersOf(queue, gap) ==
  {queue[i].nr : i \in {j \in DOMAIN queue : queue[j].gap = gap}}

-----------------------------------------------------------------------------
(***************************************************************************)
(* pushToHBQ: the message goes in front of the first held number that is   *)
(* greater.  The clause meant for a number that is already there (line 79) *)
(* compares the stored message with the number and never applies.          *)
(***************************************************************************)
FirstAbove(list, n) ==
  Min({i \in DOMAIN list : list[i] > n} \cup {Len(list) + 1})

pushAtEnd(list, n) == Append(list, n)   \* mutant: the list is not sorted

pushToHBQ(list, n) ==
  LET p == FirstAbove(list, n)
  IN  [i \in 1..Len(list) + 1 |->
         IF i < p THEN list[i] ELSE IF i = p THEN n ELSE list[i - 1]]

(***************************************************************************)
(* tryToAppend: how many elements at the front of the list continue the    *)
(* numbering from e on, the entries they become (newest first) and the     *)
(* list that remains.                                                      *)
(***************************************************************************)
RunLength(e, list) ==
  Min({k \in 0..Len(list) : k = Len(list) \/ list[k + 1] # e + k})

Run(e, list) ==
  [i \in 1..RunLength(e, list) |-> Message(e + RunLength(e, list) - i)]

RestWithoutHead(e, list) ==   \* mutant: the first number after the run is dropped
  SubSeq(list, RunLength(e, list) + 2, Len(list))

Rest(e, list) == SubSeq(list, RunLength(e, list) + 1, Len(list))

(***************************************************************************)
(* tryToCloseGap waits until the list has a third of the DLQ's limit.      *)
(***************************************************************************)
ThirdReached(size) == 3 * size >= DLQSize
=============================================================================
