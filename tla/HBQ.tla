-------------------------------- MODULE HBQ --------------------------------
(***************************************************************************)
(* The hold-back queue process of the message service (hbq.erl) with the   *)
(* delivery queue it owns.  A message is pushed with its number; the HBQ   *)
(* discards numbers it no longer expects, hands the expected one and its   *)
(* successors to the DLQ, and holds back the others, sorted, until the     *)
(* missing numbers arrive or the queue has grown to a third of the DLQ's   *)
(* limit and the gap before it is closed.                                  *)
(*                                                                         *)
(* The environment pushes every number at most once: the numbers come from *)
(* the number service (see MessageService, which implements HBQSpec).      *)
(***************************************************************************)
EXTENDS Queues

CONSTANT Nr          \* the message numbers the environment may push

ASSUME NrAssumption == Nr \subseteq Nat \ {0}

VARIABLES
  hbqState,          \* where the process is: "startup", "loop", "down", "crashed"
  hbqSize, hbqList,  \* HBQ = {Size, List}: the counter and the held numbers
  dlq,               \* the DLQ's queue, newest entry first
  expected,          \* the argument Expected of the loop
  \* History of the calls, read by the properties and the environment only:
  arrived,           \* numbers pushed so far
  discarded,         \* numbers answered with nok
  released,          \* numbers whose message has been stored in the DLQ
  gaps               \* numbers stored in the DLQ as a closed gap

queueVars == <<hbqSize, hbqList, dlq, expected, released, gaps>>
hbqVars == <<hbqState, queueVars, arrived, discarded>>

-----------------------------------------------------------------------------
(***************************************************************************)
(* Entries stored in the DLQ, newest first.                                *)
(***************************************************************************)
Store(new) ==
  /\ dlq' = push2DLQ(new, dlq)
  /\ released' = released \cup NumbersOf(new, FALSE)
  /\ gaps' = gaps \cup NumbersOf(new, TRUE)

(***************************************************************************)
(* The entry stored goes to the DLQ, then tryToAppend(e, ...) moves the    *)
(* elements that follow it from the list to the DLQ.                       *)
(***************************************************************************)
appendOldExpected(e, stored, size, list) ==   \* mutant: the run is not counted
  /\ Store(Run(e, list) \o <<stored>>)
  /\ expected' = e
  /\ hbqSize' = size - RunLength(e, list)
  /\ hbqList' = Rest(e, list)

appendOldSize(e, stored, size, list) ==   \* mutant: the counter keeps its value
  /\ Store(Run(e, list) \o <<stored>>)
  /\ expected' = e + RunLength(e, list)
  /\ hbqSize' = size
  /\ hbqList' = Rest(e, list)

tryToAppend(e, stored, size, list) ==
  /\ Store(Run(e, list) \o <<stored>>)
  /\ expected' = e + RunLength(e, list)
  /\ hbqSize' = size - RunLength(e, list)
  /\ hbqList' = Rest(e, list)

(***************************************************************************)
(* tryToCloseGap: below a third of the DLQ's limit the list just waits;    *)
(* otherwise the number before its head is stored as a closed gap.         *)
(***************************************************************************)
closeAtOnce(size, list) ==   \* mutant: a gap is closed without waiting
  tryToAppend(list[1], LueckeGeschlossen(list[1] - 1), size, list)

tryToCloseGap(size, list) ==
  \/ /\ ~ ThirdReached(size)
     /\ hbqSize' = size
     /\ hbqList' = list
     /\ UNCHANGED <<dlq, expected, released, gaps>>
  \/ /\ ThirdReached(size)
     /\ tryToAppend(list[1], LueckeGeschlossen(list[1] - 1), size, list)

-----------------------------------------------------------------------------
HBQInit ==
  /\ hbqState = "startup"
  /\ hbqSize = 0
  /\ hbqList = << >>
  /\ dlq = << >>
  /\ expected = 1
  /\ arrived = {}
  /\ discarded = {}
  /\ released = {}
  /\ gaps = {}

(***************************************************************************)
(* The server's initHBQ: an empty DLQ, and the loop starts.                *)
(***************************************************************************)
initHBQ ==
  /\ hbqState = "startup"
  /\ hbqState' = "loop"
  /\ hbqSize' = 0
  /\ hbqList' = << >>
  /\ dlq' = << >>
  /\ expected' = expectedNr(dlq')
  /\ UNCHANGED <<arrived, discarded, released, gaps>>

(***************************************************************************)
(* Any other message at startup makes the process call start(), whose      *)
(* register fails: the name still belongs to the process itself.  It       *)
(* crashes, and the process it spawned has no name.                        *)
(***************************************************************************)
startupOther ==
  /\ hbqState = "startup"
  /\ hbqState' = "crashed"
  /\ UNCHANGED <<queueVars, arrived, discarded>>

pushHBQ(n) ==
  /\ hbqState = "loop"
  /\ arrived' = arrived \cup {n}
  /\ \/ /\ n < expected
        /\ discarded' = discarded \cup {n}
        /\ UNCHANGED queueVars
     \/ /\ n = expected
        /\ tryToAppend(n + 1, Message(n), hbqSize, hbqList)
        /\ UNCHANGED discarded
     \/ /\ n > expected
        /\ tryToCloseGap(hbqSize + 1, pushToHBQ(hbqList, n))
        /\ UNCHANGED discarded
  /\ UNCHANGED hbqState

dellHBQ ==
  /\ hbqState = "loop"
  /\ hbqState' = "down"
  /\ UNCHANGED <<queueVars, arrived, discarded>>

HBQNext ==
  \/ initHBQ
  \/ startupOther
  \/ \E n \in Nr \ arrived : pushHBQ(n)
  \/ dellHBQ

HBQSpec == HBQInit /\ [][HBQNext]_hbqVars

-----------------------------------------------------------------------------
Held == {hbqList[i] : i \in DOMAIN hbqList}

(***************************************************************************)
(* Types of the HBQ's state.                                               *)
(***************************************************************************)
HBQTypeOK ==
  /\ hbqState \in {"startup", "loop", "down", "crashed"}
  /\ hbqSize \in Nat
  /\ hbqList \in Seq(Nat)
  /\ dlq \in Seq(Entry)
  /\ expected \in Nat \ {0}
  /\ arrived \subseteq Nr
  /\ discarded \subseteq Nr
  /\ released \subseteq Nat
  /\ gaps \subseteq Nat

(***************************************************************************)
(* The held numbers are strictly ascending and beyond the expected one:    *)
(* what tryToAppend and tryToCloseGap rely on when they look at the head   *)
(* only, and what every insertion has to keep.                             *)
(***************************************************************************)
HeldAscending ==
  /\ \A i \in DOMAIN hbqList : hbqList[i] > expected
  /\ \A i, j \in DOMAIN hbqList : i < j => hbqList[i] < hbqList[j]

(***************************************************************************)
(* The loop's Expected and the number the DLQ itself would compute         *)
(* (dlq:expectedNr) never drift apart, although only the start of the loop *)
(* takes one from the other.                                               *)
(***************************************************************************)
ExpectedFromDLQ == expected = expectedNr(dlq)

(***************************************************************************)
(* The counter of the HBQ equals the length of its list, and between two   *)
(* messages the list is empty or below a third of the DLQ's limit: one gap *)
(* closed per push is enough to keep the hold-back queue bounded.          *)
(***************************************************************************)
HoldBackBounded ==
  /\ hbqSize = Len(hbqList)
  /\ hbqList = << >> \/ ~ ThirdReached(hbqSize)

(***************************************************************************)
(* Nothing is lost or stored twice: every pushed number was discarded,     *)
(* stored in the DLQ or is still held, exactly one of the three, and no    *)
(* number is given up as a gap while its message is held or was stored.    *)
(***************************************************************************)
NothingLost ==
  /\ arrived = discarded \cup released \cup Held
  /\ discarded \cap released = {}
  /\ discarded \cap Held = {}
  /\ released \cap Held = {}
  /\ gaps \cap (released \cup Held) = {}

(***************************************************************************)
(* The DLQ is the window on the newest entries: strictly descending, never *)
(* above its limit, and what was stored but is no longer there is older    *)
(* than everything in a queue that is full.                                *)
(***************************************************************************)
DLQWindow ==
  /\ Len(dlq) <= DLQSize
  /\ \A i, j \in DOMAIN dlq : i < j => dlq[i].nr > dlq[j].nr
  /\ NumbersOf(dlq, FALSE) \subseteq released
  /\ NumbersOf(dlq, TRUE) \subseteq gaps
  /\ \A n \in (released \cup gaps) \ (NumbersOf(dlq, FALSE) \cup NumbersOf(dlq, TRUE)) :
        Len(dlq) = DLQSize /\ n < dlq[Len(dlq)].nr

(***************************************************************************)
(* What a reader gets for each number it can ask for: a stored number      *)
(* itself, the oldest entry if it asks for something that has already left *)
(* the DLQ, the dummy if there is nothing newer; and it is told that there *)
(* is no more (terminiert) exactly when it has the newest entry.           *)
(***************************************************************************)
AnswersFitTheQueue ==
  \A n \in 1..expected + 1 :
    LET answer == deliverMSG(n, dlq)
        stored == NumbersOf(dlq, FALSE) \cup NumbersOf(dlq, TRUE)
    IN  /\ n \in stored => answer.nr = n
        /\ n >= expected => answer = Dummy
        /\ (\A m \in stored : n < m) /\ stored # {} => answer.nr = Min(stored)
        /\ answer.nr # 0 => (answer.terminiert <=> answer.nr = expected - 1)

(***************************************************************************)
(* The comment at dlq.erl:71: only a reader that asks for a number smaller *)
(* than the smallest stored one gets another number than it asked for.     *)
(***************************************************************************)
OnlyOldNumbersReplaced ==
  \A n \in 1..expected :
    LET answer == deliverMSG(n, dlq)
    IN  answer.nr \notin {0, n} => \A i \in DOMAIN dlq : n < dlq[i].nr

(***************************************************************************)
(* The abstract promise, with the held numbers as a set.                   *)
(***************************************************************************)
ManyHeld(numbers) == ThirdReached(Cardinality(numbers))

Delivery == INSTANCE OrderedDelivery WITH
  Number <- Nr,
  Patience <- ManyHeld,
  next <- expected,
  held <- Held

DeliversInOrder == Delivery!Spec
=============================================================================
