-------------------------------- MODULE TDMA --------------------------------
(***************************************************************************)
(* The stations of Termin 3 (timux.cpp) on one multicast channel: frames   *)
(* of slots, the list of the messages of a frame (linkedArray.hpp), the    *)
(* removal of collisions, joining, and moving to another slot.             *)
(*                                                                         *)
(* The stations' clocks agree to less than a quarter of a slot, so that a  *)
(* slot is one step: who has it builds its package from what it has heard, *)
(* sends, and everybody gets it.  A callback thread of each receiver       *)
(* stamps the message and puts it in the list; that may take longer than   *)
(* the slot, or even the frame.  A foreign station, of another program,    *)
(* moves to slots that nobody has announced before in the frame.           *)
(***************************************************************************)
EXTENDS Integers, Sequences, FiniteSets, SequencesExt

CONSTANTS
  Station,     \* the stations that run this program
  Foreign,     \* the foreign stations
  SlotCount,   \* slots of a frame
  Delay,       \* in which order the messages of a slot are received
  MaxLost,     \* bound: messages that a receiver loses
  MaxLate      \* bound: messages that a thread does not put in the list within their slot

None == -1
Slots == 0 .. SlotCount - 1
Everybody == Station \cup Foreign

ASSUME TDMAAssumption ==
  /\ IsFiniteSet(Everybody) /\ Station \cap Foreign = {}
  /\ SlotCount \in Nat \ {0}
  /\ Delay \in [Everybody -> 0 .. Cardinality(Everybody) - 1]
  /\ \A i, j \in Everybody : i # j => Delay[i] # Delay[j]
  /\ Cardinality(Everybody) <= SlotCount
  /\ MaxLost \in Nat /\ MaxLate \in Nat

VARIABLES
  slot,             \* the slot that comes next, SlotCount at the end of the frame
  toSwitch,         \* the stations whose loop has not yet noticed the new frame
  mySlot,           \* the slot of each station, or none
  myUpdatedSlot,    \* the slot it moves to after this frame, or none
  msgForTimeSync,   \* the list of messages of its frame
  threads,          \* the messages that its callback threads have still to put
  joined,           \* history: it chose its slot at the last end of a frame
  announced,        \* history: the slots announced in this frame, without collisions
  lost, late,       \* history: how many messages were lost and late
  garbage           \* history: somebody moved to a slot read from unset memory

tdmaVars == <<slot, toSwitch, mySlot, myUpdatedSlot, msgForTimeSync, threads, joined, announced,
              lost, late, garbage>>

TDMAInit ==
  /\ slot = 0
  /\ toSwitch = {}
  /\ mySlot \in {m \in [Everybody -> Slots \cup {None}] :
                   /\ \A i \in Station : m[i] = None
                   /\ \A f, g \in Foreign : f # g => m[f] # m[g]
                   /\ \A f \in Foreign : m[f] # None}
  /\ myUpdatedSlot = [i \in Everybody |-> None]
  /\ msgForTimeSync = [i \in Station |-> <<>>]
  /\ threads = [i \in Station |-> {}]
  /\ joined = [i \in Station |-> FALSE]
  /\ announced = {}
  /\ lost = 0 /\ late = 0 /\ garbage = FALSE

-----------------------------------------------------------------------------
(***************************************************************************)
(* LinkedListArray.put: goes on while there is a next entry and the index  *)
(* is smaller, so it stops at the first entry whose index is not, or at    *)
(* the last one, and puts the new entry behind it.  A taken index is not   *)
(* put; recived then tries the next one.                                   *)
(***************************************************************************)
StopsAt(list, index) ==
  LET notSmaller == {k \in DOMAIN list : list[k].index >= index}
  IN  IF notSmaller = {} THEN Len(list) ELSE Min(notSmaller)

Taken(list, index) == list # <<>> /\ list[StopsAt(list, index)].index = index

put(list, m) ==
  LET index == Min({n \in m.index .. m.index + Len(list) : ~ Taken(list, n)})
  IN  InsertAt(list, StopsAt(list, index) + 1, [m EXCEPT !.index = index])

(***************************************************************************)
(* removeColisons: neighbours in the list that have one slot are no longer *)
(* valid; the slots announced by the others are used.                      *)
(***************************************************************************)
keepsFirst(list) ==   \* mutant: only the later message of a collision is invalid
  [k \in DOMAIN list |->
     [list[k] EXCEPT !.valide = @ /\ ~ (k > 1 /\ list[k - 1].slot = list[k].slot)]]

removeColisons(list) ==
  [k \in DOMAIN list |->
     [list[k] EXCEPT !.valide =
        @ /\ \A n \in {k - 1, k + 1} \cap DOMAIN list : list[n].slot # list[k].slot]]

Valid(list) == {list[k] : k \in {n \in DOMAIN list : list[n].valide}}

UsedSlots(list) == {m.nextSlot : m \in Valid(removeColisons(list))}

skipsFirst(list) == (Slots \ {0}) \ UsedSlots(list)   \* mutant: begins at 1

FreeSlots(list) == Slots \ UsedSlots(list)

-----------------------------------------------------------------------------
(***************************************************************************)
(* build: a station whose slot has been announced by another one announces *)
(* the first free slot and moves there after the frame.  If there is none, *)
(* it reads the first element of an empty list.                            *)
(***************************************************************************)
NextSlot(i) ==
  LET list == msgForTimeSync[i]
  IN  IF mySlot[i] \notin UsedSlots(list) THEN {mySlot[i]}
      ELSE IF FreeSlots(list) # {} THEN {Min(FreeSlots(list))}
      ELSE Slots

ReadsGarbage(i) ==
  mySlot[i] \in UsedSlots(msgForTimeSync[i]) /\ FreeSlots(msgForTimeSync[i]) = {}

ForeignSlot == Slots \ announced

(* A slot passes: who has it sends.  MsgHandler stamps the message with    *)
(* slot and frame when it comes.                                           *)
Message(sender, next) ==
  [index |-> Cardinality(Everybody) * slot + Delay[sender], slot |-> slot, nextSlot |-> next,
   valide |-> TRUE]

SlotPasses ==
  LET senders == {i \in Everybody : mySlot[i] = slot}
  IN  /\ slot \in Slots
      /\ \E next \in [senders -> Slots], missed \in SUBSET (senders \X Station) :
           /\ \A i \in senders : next[i] \in IF i \in Station THEN NextSlot(i) ELSE ForeignSlot
           /\ lost + Cardinality(missed) <= MaxLost
           /\ lost' = lost + Cardinality(missed)
           /\ threads' = [r \in Station |-> threads[r] \cup
                            {Message(i, next[i]) : i \in {s \in senders : <<s, r>> \notin missed}}]
           /\ myUpdatedSlot' = [i \in Everybody |->
                IF i \in senders /\ next[i] # mySlot[i] THEN next[i] ELSE myUpdatedSlot[i]]
           /\ announced' = IF Cardinality(senders) = 1
                           THEN announced \cup {next[i] : i \in senders} ELSE announced
      /\ msgForTimeSync' = [i \in Station |->
           IF i \in senders THEN removeColisons(msgForTimeSync[i]) ELSE msgForTimeSync[i]]
      /\ garbage' = (garbage \/ \E i \in senders \cap Station : ReadsGarbage(i))
      /\ late' = late + Cardinality(UNION {threads[r] : r \in Station})
      /\ late' <= MaxLate
      /\ slot' = slot + 1
      /\ toSwitch' = IF slot' = SlotCount THEN Station ELSE {}
      /\ UNCHANGED <<mySlot, joined>>

(***************************************************************************)
(* recived: a callback thread puts its message in the list.                *)
(***************************************************************************)
recived(i, m) ==
  /\ m \in threads[i]
  /\ threads' = [threads EXCEPT ![i] = @ \ {m}]
  /\ msgForTimeSync' = [msgForTimeSync EXCEPT ![i] = put(@, m)]
  /\ UNCHANGED <<slot, toSwitch, mySlot, myUpdatedSlot, joined, announced, lost, late, garbage>>

(***************************************************************************)
(* frameEnd: without a valid message in its own slot a station gives the   *)
(* slot up, and any move with it.  A station without a slot may take one   *)
(* that nobody has announced, or try another time.  Of the threads that    *)
(* are not done, those that have compared the frame already will put their *)
(* message in the new list, the others drop it.                            *)
(***************************************************************************)
Confirmed(i) == \E m \in Valid(removeColisons(msgForTimeSync[i])) : m.slot = mySlot[i]

frameEnd(i) ==
  /\ i \in toSwitch
  /\ toSwitch' = toSwitch \ {i}
  /\ \E checked \in SUBSET threads[i] : threads' = [threads EXCEPT ![i] = checked]
  /\ \/ /\ Confirmed(i)
        /\ mySlot' = [mySlot EXCEPT ![i] = IF myUpdatedSlot[i] # None THEN myUpdatedSlot[i] ELSE @]
        /\ joined' = [joined EXCEPT ![i] = FALSE]
     \/ /\ ~ Confirmed(i)
        /\ mySlot' = [mySlot EXCEPT ![i] = None]
        /\ joined' = [joined EXCEPT ![i] = FALSE]
     \/ /\ ~ Confirmed(i)
        /\ \E chosen \in FreeSlots(msgForTimeSync[i]) : mySlot' = [mySlot EXCEPT ![i] = chosen]
        /\ joined' = [joined EXCEPT ![i] = TRUE]
  /\ myUpdatedSlot' = [myUpdatedSlot EXCEPT ![i] = None]
  /\ msgForTimeSync' = [msgForTimeSync EXCEPT ![i] = <<>>]
  /\ late' = late + Cardinality(threads[i])
  /\ late' <= MaxLate
  /\ UNCHANGED <<slot, announced, lost, garbage>>

(* The next frame begins; a foreign station moves to what it announced.    *)
NewFrame ==
  /\ slot = SlotCount /\ toSwitch = {}
  /\ slot' = 0
  /\ mySlot' = [i \in Everybody |-> IF i \in Foreign /\ myUpdatedSlot[i] # None
                                    THEN myUpdatedSlot[i] ELSE mySlot[i]]
  /\ myUpdatedSlot' = [i \in Everybody |-> None]
  /\ announced' = {}
  /\ UNCHANGED <<toSwitch, msgForTimeSync, threads, joined, lost, late, garbage>>

TDMANext ==
  \/ SlotPasses \/ NewFrame
  \/ \E i \in Station : frameEnd(i) \/ \E m \in threads[i] : recived(i, m)

TDMASpec == TDMAInit /\ [][TDMANext]_tdmaVars

-----------------------------------------------------------------------------
(***************************************************************************)
(* Properties.                                                             *)
(***************************************************************************)

\* As long as no message was lost or late, a slot has one user: only stations that have both chosen
\* it at the end of the last frame may meet in it.  So nobody joins on the slot of a station that
\* is in the ring, nobody moves there, and a collision never lasts longer than its frame.
OneUserOfASlot ==
  (slot = 0 /\ lost = 0 /\ late = 0) =>
    \A i \in Station, j \in Everybody :
      (i # j /\ mySlot[i] # None /\ mySlot[i] = mySlot[j]) =>
        j \in Station /\ joined[i] /\ joined[j]

\* A station that has to move finds a free slot, as the comment in build hopes: with no more
\* stations than slots, and even if messages get lost.
MoveFindsSlot == garbage => late > 0

\* The list is sorted by the time of receipt, as the note on its index asks for.
ListIsSorted ==
  \A i \in Station : \A k \in 1 .. Len(msgForTimeSync[i]) - 1 :
    msgForTimeSync[i][k].index < msgForTimeSync[i][k + 1].index
=============================================================================
