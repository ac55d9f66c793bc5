------------------------------ MODULE HBQProofs ------------------------------
(***************************************************************************)
(* Proofs about the hold-back queue, for every limit DLQSize, every set Nr *)
(* of message numbers and every order in which they are pushed.            *)
(***************************************************************************)
EXTENDS HBQClauses, QueueLemmas

(***************************************************************************)
(* The effect of tryToAppend on all the variables, from an ascending list  *)
(* without numbers below e and an entry for the number e - 1.              *)
(***************************************************************************)
LEMMA AppendEffect ==
  ASSUME dlq \in Seq(Entry),
         NEW list \in Seq(Nat), Ascending(list),
         NEW e \in Nat \ {0}, NoneBelow(list, e),
         NEW entry \in Entry, entry.nr = e - 1,
         tryToAppend(e, entry, Len(list), list)
  PROVE  /\ dlq' \in Seq(Entry)
         /\ expected' \in Nat /\ expected' >= e
         /\ ExpectedFromDLQ'
         /\ hbqList' \in Seq(Nat)
         /\ hbqSize' = Len(hbqList')
         /\ hbqSize' = Len(list) - RunLength(e, list)
         /\ Ascending(hbqList') /\ NoneBelow(hbqList', expected' + 1)
         /\ Held' = {x \in Elements(list) : x >= expected'}
         /\ e..expected' - 1 = {x \in Elements(list) : x < expected'}
         /\ released' = released \cup {x \in Elements(list) : x < expected'}
                          \cup (IF entry.gap THEN {} ELSE {e - 1})
         /\ gaps' = gaps \cup (IF entry.gap THEN {e - 1} ELSE {})
<1> DEFINE new == Run(e, list) \o <<entry>>
           k == RunLength(e, list)
<1>1. /\ dlq' = push2DLQ(new, dlq)
      /\ released' = released \cup NumbersOf(new, FALSE)
      /\ gaps' = gaps \cup NumbersOf(new, TRUE)
      /\ expected' = e + k
      /\ hbqSize' = Len(list) - k
      /\ hbqList' = Rest(e, list)
  BY DEF tryToAppend, Store
<1>2. /\ new \in Seq(Entry) /\ new # << >>
      /\ new[1].nr = e + k - 1
      /\ NumbersOf(new, FALSE) = e..e + k - 1 \cup (IF entry.gap THEN {} ELSE {e - 1})
      /\ NumbersOf(new, TRUE) = IF entry.gap THEN {e - 1} ELSE {}
  BY StoredEntries
<1>3. k \in 0..Len(list)
  BY RunLengthProperties
<1>4. Rest(e, list) \in Seq(Nat) /\ Len(Rest(e, list)) = Len(list) - k
  BY RestElements
<1>5. /\ Ascending(Rest(e, list))
      /\ NoneBelow(Rest(e, list), e + k + 1)
      /\ Elements(Rest(e, list)) = {x \in Elements(list) : x >= e + k}
      /\ e..e + k - 1 = {x \in Elements(list) : x < e + k}
  BY SplitAscending
<1> HIDE DEF new, k
<1>6. dlq' \in Seq(Entry) /\ dlq' # << >> /\ dlq'[1] = new[1]
  BY <1>1, <1>2, PushProperties
<1>7. ExpectedFromDLQ'
  <2>1. expectedNr(dlq)' = dlq'[1].nr + 1
    BY <1>6 DEF expectedNr
  <2>2. dlq'[1].nr + 1 = e + k
    BY <1>2, <1>3, <1>6
  <2> QED
    BY <1>1, <2>1, <2>2 DEF ExpectedFromDLQ
<1>8. Held' = Elements(Rest(e, list))
  BY <1>1 DEF Held, Elements
<1>9. expected' \in Nat /\ expected' >= e
  BY <1>1, <1>3
<1>10. NumbersOf(new, FALSE)
         = {x \in Elements(list) : x < e + k} \cup (IF entry.gap THEN {} ELSE {e - 1})
  BY <1>2, <1>5
<1>11. hbqSize' = Len(hbqList')
  BY <1>1, <1>4
<1>12. hbqList' \in Seq(Nat) /\ Ascending(hbqList') /\ NoneBelow(hbqList', expected' + 1)
  BY <1>1, <1>4, <1>5
<1>13. Held' = {x \in Elements(list) : x >= expected'}
  BY <1>1, <1>5, <1>8
<1>14. released' = released \cup {x \in Elements(list) : x < expected'}
                          \cup (IF entry.gap THEN {} ELSE {e - 1})
  BY <1>1, <1>10
<1>15. gaps' = gaps \cup (IF entry.gap THEN {e - 1} ELSE {})
  BY <1>1, <1>2
<1>16. hbqSize' = Len(list) - RunLength(e, list)
  BY <1>1 DEF k
<1>17. e..expected' - 1 = {x \in Elements(list) : x < expected'}
  <2>1. expected' = e + k
    BY <1>1
  <2>2. e..e + k - 1 = {x \in Elements(list) : x < e + k}
    BY <1>5
  <2>3. ASSUME NEW x \in e..expected' - 1
        PROVE  x \in Elements(list) /\ x < expected'
    <3>1. x \in e..e + k - 1
      BY <1>3, <2>1
    <3> QED
      BY <3>1, <2>1, <2>2
  <2>4. ASSUME NEW x \in Elements(list), x < expected'
        PROVE  x \in e..expected' - 1
    <3>1. x \in e..e + k - 1
      BY <2>1, <2>2, <2>4
    <3> QED
      BY <3>1, <1>3, <2>1
  <2> QED
    BY <2>3, <2>4
<1> QED
  BY <1>6, <1>7, <1>9, <1>11, <1>12, <1>13, <1>14, <1>15, <1>16, <1>17

-----------------------------------------------------------------------------
(***************************************************************************)
(* The inductive invariant.  HeldAscending and NothingLost do not follow   *)
(* from themselves: that an accepted number was not stored before rests on *)
(* Decided (what is stored, given up or discarded is below the loop's      *)
(* Expected), and a fresh loop starts from empty queues (StartupEmpty).    *)
(***************************************************************************)
Decided == \A n \in discarded \cup released \cup gaps : n < expected

StartupEmpty ==
  hbqState = "startup" =>
    /\ hbqList = << >> /\ dlq = << >> /\ expected = 1
    /\ arrived = {} /\ discarded = {} /\ released = {} /\ gaps = {}

IInv ==
  /\ HBQTypeOK
  /\ HeldAscending
  /\ ExpectedFromDLQ
  /\ HoldBackBounded
  /\ NothingLost
  /\ Decided
  /\ StartupEmpty

(***************************************************************************)
(* The invariant holds when the process starts ...                         *)
(***************************************************************************)
LEMMA IInvInit == HBQInit => IInv
<1> SUFFICES ASSUME HBQInit
             PROVE  IInv
  OBVIOUS
<1> USE DEF HBQInit
<1>1. HBQTypeOK
  BY DEF HBQTypeOK
<1>2. HeldAscending
  BY DEF HeldAscending
<1>3. ExpectedFromDLQ
  BY DEF ExpectedFromDLQ, expectedNr
<1>4. HoldBackBounded
  BY DEF HoldBackBounded
<1>5. NothingLost
  BY DEF NothingLost, Held
<1>6. Decided /\ StartupEmpty
  BY DEF Decided, StartupEmpty
<1> QED
  BY <1>1, <1>2, <1>3, <1>4, <1>5, <1>6 DEF IInv

(***************************************************************************)
(* What the invariant says of the held numbers, in the terms of the lemmas *)
(* about lists.                                                            *)
(***************************************************************************)
LEMMA HeldList ==
  ASSUME HBQTypeOK, HeldAscending
  PROVE  /\ hbqList \in Seq(Nat) /\ Ascending(hbqList)
         /\ NoneBelow(hbqList, expected + 1)
         /\ Held = Elements(hbqList)
         /\ Held \subseteq Nat
         /\ \A x \in Held : x > expected
<1>1. hbqList \in Seq(Nat) /\ expected \in Nat
  BY DEF HBQTypeOK
<1>2. Ascending(hbqList)
  BY DEF HeldAscending, Ascending
<1>3. \A i \in DOMAIN hbqList : hbqList[i] > expected /\ hbqList[i] \in Nat
  BY <1>1 DEF HeldAscending
<1>4. NoneBelow(hbqList, expected + 1)
  BY <1>1, <1>3 DEF NoneBelow
<1> QED
  BY <1>1, <1>2, <1>3, <1>4 DEF Held, Elements

(***************************************************************************)
(* ... and back.                                                           *)
(***************************************************************************)
LEMMA HeldAscendingFromList ==
  ASSUME hbqList' \in Seq(Nat), expected' \in Nat,
         Ascending(hbqList'), NoneBelow(hbqList', expected' + 1)
  PROVE  HeldAscending'
<1>1. ASSUME NEW i \in DOMAIN hbqList'
      PROVE  hbqList'[i] > expected'
  BY <1>1 DEF NoneBelow
<1>2. ASSUME NEW i \in DOMAIN hbqList', NEW j \in DOMAIN hbqList', i < j
      PROVE  hbqList'[i] < hbqList'[j]
  BY <1>2 DEF Ascending
<1> QED
  BY <1>1, <1>2 DEF HeldAscending

(***************************************************************************)
(* A push of the expected number.                                          *)
(***************************************************************************)
LEMMA PushExpectedEffect ==
  ASSUME IInv, NEW n \in Nr \ arrived, pushHBQ(n), n = expected
  PROVE  /\ hbqState = "loop" /\ hbqState' = "loop"
         /\ arrived' = arrived \cup {n} /\ discarded' = discarded
         /\ dlq' \in Seq(Entry)
         /\ expected' \in Nat /\ expected' > expected
         /\ ExpectedFromDLQ'
         /\ hbqList' \in Seq(Nat)
         /\ hbqSize' = Len(hbqList') /\ hbqSize' \in Nat /\ hbqSize' <= hbqSize
         /\ Ascending(hbqList') /\ NoneBelow(hbqList', expected' + 1)
         /\ Held' = {x \in Held : x >= expected'}
         /\ n + 1..expected' - 1 = {x \in Held : x < expected'}
         /\ released' = released \cup {x \in Held : x < expected'} \cup {n}
         /\ gaps' = gaps
<1> DEFINE e == n + 1
           k == RunLength(e, hbqList)
<1>1. /\ HBQTypeOK /\ HeldAscending /\ NothingLost /\ Decided
      /\ hbqSize = Len(hbqList)
      /\ hbqList = << >> \/ ~ ThirdReached(hbqSize)
  BY DEF IInv, HoldBackBounded
<1>2. n \in Nat \ {0} /\ expected \in Nat /\ n \in Nr
  BY NrAssumption
<1>3. /\ hbqState = "loop" /\ hbqState' = "loop"
      /\ arrived' = arrived \cup {n} /\ discarded' = discarded
      /\ tryToAppend(e, Message(n), Len(hbqList), hbqList)
  <2>1. ~ (n < expected) /\ ~ (n > expected)
    BY <1>2
  <2> QED
    BY <1>1, <2>1 DEF pushHBQ
<1>4. /\ hbqList \in Seq(Nat) /\ Ascending(hbqList) /\ NoneBelow(hbqList, e)
      /\ Held = Elements(hbqList) /\ Held \subseteq Nat
      /\ \A x \in Held : x > expected
  BY <1>1, HeldList
<1>5. Message(n) \in Entry /\ Message(n).nr = e - 1 /\ Message(n).gap = FALSE
  BY <1>2 DEF Message, Entry
<1>6. dlq \in Seq(Entry) /\ e \in Nat \ {0}
  BY <1>1, <1>2 DEF HBQTypeOK
<1>7. /\ dlq' \in Seq(Entry)
      /\ expected' \in Nat /\ expected' >= e
      /\ ExpectedFromDLQ'
      /\ hbqList' \in Seq(Nat)
      /\ hbqSize' = Len(hbqList')
      /\ hbqSize' = Len(hbqList) - k
      /\ Ascending(hbqList') /\ NoneBelow(hbqList', expected' + 1)
      /\ Held' = {x \in Held : x >= expected'}
      /\ e..expected' - 1 = {x \in Held : x < expected'}
      /\ released' = released \cup {x \in Held : x < expected'} \cup {n}
      /\ gaps' = gaps
  <2> HIDE DEF e, k
  <2>1. /\ dlq' \in Seq(Entry)
        /\ expected' \in Nat /\ expected' >= e
        /\ ExpectedFromDLQ'
        /\ hbqList' \in Seq(Nat)
        /\ hbqSize' = Len(hbqList')
        /\ hbqSize' = Len(hbqList) - RunLength(e, hbqList)
        /\ Ascending(hbqList') /\ NoneBelow(hbqList', expected' + 1)
        /\ Held' = {x \in Elements(hbqList) : x >= expected'}
        /\ e..expected' - 1 = {x \in Elements(hbqList) : x < expected'}
        /\ released' = released \cup {x \in Elements(hbqList) : x < expected'}
                         \cup (IF Message(n).gap THEN {} ELSE {e - 1})
        /\ gaps' = gaps \cup (IF Message(n).gap THEN {e - 1} ELSE {})
    BY <1>3, <1>4, <1>5, <1>6, AppendEffect
  <2>2. e - 1 = n
    BY <1>2 DEF e
  <2> QED
    BY <2>1, <2>2, <1>4, <1>5 DEF k
<1>8. k \in 0..Len(hbqList)
  BY <1>4, <1>6, RunLengthProperties
<1> HIDE DEF e, k
<1>9. expected' > expected
  BY <1>2, <1>7 DEF e
<1>10. hbqSize' \in Nat /\ hbqSize' <= hbqSize
  BY <1>1, <1>4, <1>7, <1>8
<1>11. n + 1..expected' - 1 = {x \in Held : x < expected'}
  BY <1>7 DEF e
<1> QED
  BY <1>3, <1>7, <1>9, <1>10, <1>11

(***************************************************************************)
(* ... which keeps the invariant.                                          *)
(***************************************************************************)
LEMMA PushExpectedStep ==
  ASSUME IInv, NEW n \in Nr \ arrived, pushHBQ(n), n = expected
  PROVE  IInv'
<1>1. /\ HBQTypeOK /\ HeldAscending /\ NothingLost /\ Decided
      /\ hbqSize = Len(hbqList)
      /\ hbqList = << >> \/ ~ ThirdReached(hbqSize)
  BY DEF IInv, HoldBackBounded
<1>2. n \in Nat \ {0} /\ expected \in Nat /\ n \in Nr /\ hbqSize \in Nat
  BY <1>1, NrAssumption DEF HBQTypeOK
<1>3. /\ hbqState = "loop" /\ hbqState' = "loop"
      /\ arrived' = arrived \cup {n} /\ discarded' = discarded
      /\ dlq' \in Seq(Entry)
      /\ expected' \in Nat /\ expected' > expected
      /\ ExpectedFromDLQ'
      /\ hbqList' \in Seq(Nat)
      /\ hbqSize' = Len(hbqList') /\ hbqSize' \in Nat /\ hbqSize' <= hbqSize
      /\ Ascending(hbqList') /\ NoneBelow(hbqList', expected' + 1)
      /\ Held' = {x \in Held : x >= expected'}
      /\ released' = released \cup {x \in Held : x < expected'} \cup {n}
      /\ gaps' = gaps
  BY PushExpectedEffect
<1>4. Held \subseteq Nat /\ \A x \in Held : x > expected
  BY <1>1, HeldList
<1>5. HBQTypeOK'
  <2>1. hbqSize' \in Nat /\ expected' \in Nat \ {0}
    <3>1. hbqSize' \in Nat
      BY <1>3
    <3>2. expected' \in Nat
      BY <1>3
    <3> QED
      BY <3>1, <3>2, <1>2, <1>3
  <2>2. released' \subseteq Nat /\ gaps' \subseteq Nat
    BY <1>1, <1>2, <1>4, <1>3 DEF HBQTypeOK
  <2>3. arrived' \subseteq Nr /\ discarded' \subseteq Nr
    BY <1>1, <1>2, <1>3 DEF HBQTypeOK
  <2> QED
    BY <1>3, <2>1, <2>2, <2>3 DEF HBQTypeOK
<1>6. HeldAscending'
  BY <1>3, HeldAscendingFromList
<1>7. HoldBackBounded'
  <2>1. CASE hbqList = << >>
    <3>1. Len(hbqList') = 0
      <4>1. hbqSize = 0
        BY <2>1, <1>1
      <4> QED
        BY <4>1, <1>3
    <3>2. hbqList' = << >>
      BY <3>1, <1>3
    <3> QED
      BY <3>2, <1>3 DEF HoldBackBounded
  <2>2. CASE ~ ThirdReached(hbqSize)
    <3>1. hbqSize \in Nat /\ hbqSize' \in Nat /\ hbqSize' <= hbqSize
      BY <1>2, <1>3
    <3>2. ~ ThirdReached(hbqSize')
      BY <2>2, <3>1, ThirdMonotone
    <3> QED
      BY <3>2, <1>3 DEF HoldBackBounded, ThirdReached
  <2> QED
    BY <1>1, <2>1, <2>2
<1>8. NothingLost'
  <2>1. n \notin discarded \cup released \cup Held \cup gaps
    BY <1>1, <1>2 DEF NothingLost, Decided
  <2>2. arrived' = discarded' \cup released' \cup Held'
    <3>1. Held = Held' \cup {x \in Held : x < expected'}
      <4>1. Held' = {x \in Held : x >= expected'} /\ expected' \in Nat
        BY <1>3
      <4>2. ASSUME NEW x \in Held
            PROVE  x \in Held' \/ x < expected'
        BY <4>1, <1>4
      <4> QED
        BY <4>1, <4>2
    <3>2. arrived = discarded \cup released \cup Held
      BY <1>1 DEF NothingLost
    <3> QED
      BY <3>1, <3>2, <1>3
  <2>3. /\ discarded \cap released = {} /\ discarded \cap Held = {}
        /\ released \cap Held = {} /\ gaps \cap (released \cup Held) = {}
    BY <1>1 DEF NothingLost
  <2>4. discarded' \cap released' = {} /\ discarded' \cap Held' = {}
    BY <1>3, <2>1, <2>3
  <2>5. \A x \in Held' : x >= expected' /\ x \in Held /\ x \in Nat
    BY <1>4, <1>3
  <2>6. n < expected'
    BY <1>2, <1>3
  <2>7. released' \cap Held' = {}
    <3> SUFFICES ASSUME NEW x \in Held', x \in released'
                 PROVE  FALSE
      OBVIOUS
    <3>1. x \in released \/ x < expected' \/ x = n
      BY <1>3
    <3> QED
      BY <3>1, <2>3, <2>5, <2>6, <1>3
  <2>8. gaps' \cap (released' \cup Held') = {}
    BY <1>3, <2>1, <2>3
  <2> QED
    BY <2>2, <2>4, <2>7, <2>8 DEF NothingLost
<1>9. Decided'
  <2> SUFFICES ASSUME NEW x \in discarded' \cup released' \cup gaps'
               PROVE  x < expected'
    BY DEF Decided
  <2>1. x \in discarded \cup released \cup gaps \/ (x \in Held /\ x < expected') \/ x = n
    BY <1>3
  <2>2. CASE x \in discarded \cup released \cup gaps
    <3>1. x < expected
      BY <2>2, <1>1 DEF Decided
    <3>2. x \in Nat
      BY <2>2, <1>1, NrAssumption DEF HBQTypeOK
    <3> QED
      BY <3>1, <3>2, <1>2, <1>3
  <2>3. CASE x = n
    BY <2>3, <1>2, <1>3
  <2> QED
    BY <2>1, <2>2, <2>3
<1>10. StartupEmpty'
  BY <1>3 DEF StartupEmpty
<1> QED
  BY <1>3, <1>5, <1>6, <1>7, <1>8, <1>9, <1>10 DEF IInv

(***************************************************************************)
(* A number beyond the expected one is inserted into the list.             *)
(***************************************************************************)
LEMMA Inserted ==
  ASSUME IInv, NEW n \in Nr \ arrived, n > expected
  PROVE  LET list == pushToHBQ(hbqList, n)
         IN  /\ list \in Seq(Nat) /\ Ascending(list)
             /\ Len(list) = hbqSize + 1
             /\ Elements(list) = Held \cup {n}
             /\ \A x \in Held \cup {n} : x \in Nat /\ x > expected
             /\ list[1] \in Held \cup {n}
             /\ NoneBelow(list, list[1])
             /\ n \notin discarded \cup released \cup Held
<1> DEFINE list == pushToHBQ(hbqList, n)
<1>1. /\ HBQTypeOK /\ HeldAscending /\ NothingLost /\ hbqSize = Len(hbqList)
  BY DEF IInv, HoldBackBounded
<1>2. n \in Nat /\ n \notin arrived
  BY NrAssumption
<1>3. /\ hbqList \in Seq(Nat) /\ Ascending(hbqList)
      /\ Held = Elements(hbqList) /\ Held \subseteq Nat
      /\ \A x \in Held : x > expected
  BY <1>1, HeldList
<1>4. n \notin discarded \cup released \cup Held
  BY <1>1, <1>2 DEF NothingLost
<1>5. /\ list \in Seq(Nat) /\ Len(list) = Len(hbqList) + 1
      /\ Ascending(list) /\ Elements(list) = Elements(hbqList) \cup {n}
  BY <1>2, <1>3, <1>4, InsertProperties
<1> HIDE DEF list
<1>6. 1 \in DOMAIN list /\ DOMAIN list = 1..Len(list)
  BY <1>3, <1>5
<1>7. list[1] \in Elements(list)
  BY <1>6 DEF Elements
<1>8. NoneBelow(list, list[1])
  <2> SUFFICES ASSUME NEW i \in DOMAIN list
               PROVE  list[i] >= list[1]
    BY DEF NoneBelow
  <2>1. list[i] \in Nat /\ list[1] \in Nat
    BY <1>5, <1>6
  <2>2. CASE i = 1
    BY <2>1, <2>2
  <2>3. CASE i # 1
    <3>1. 1 < i
      BY <2>3, <1>6
    <3>2. list[1] < list[i]
      BY <3>1, <1>5, <1>6, AscendingAt
    <3> QED
      BY <3>2, <2>1
  <2> QED
    BY <2>2, <2>3
<1>9. \A x \in Held \cup {n} : x \in Nat /\ x > expected
  BY <1>2, <1>3
<1> QED
  BY <1>1, <1>3, <1>4, <1>5, <1>7, <1>8, <1>9 DEF list

(***************************************************************************)
(* ... and waits there, below a third of the limit.                        *)
(***************************************************************************)
LEMMA PushHeldStep ==
  ASSUME IInv, NEW n \in Nr \ arrived, pushHBQ(n), n > expected,
         ~ ThirdReached(hbqSize + 1)
  PROVE  IInv'
<1> DEFINE list == pushToHBQ(hbqList, n)
<1>1. /\ HBQTypeOK /\ ExpectedFromDLQ /\ NothingLost /\ Decided
  BY DEF IInv
<1>2. n \in Nat \ {0} /\ expected \in Nat /\ n \in Nr /\ hbqSize \in Nat
  BY <1>1, NrAssumption DEF HBQTypeOK
<1>3. /\ list \in Seq(Nat) /\ Ascending(list)
      /\ Len(list) = hbqSize + 1
      /\ Elements(list) = Held \cup {n}
      /\ \A x \in Held \cup {n} : x \in Nat /\ x > expected
      /\ n \notin discarded \cup released \cup Held
  BY Inserted
<1> HIDE DEF list
<1>4. /\ hbqState = "loop" /\ hbqState' = "loop"
      /\ arrived' = arrived \cup {n} /\ discarded' = discarded
      /\ hbqSize' = hbqSize + 1 /\ hbqList' = list
      /\ UNCHANGED <<dlq, expected, released, gaps>>
  <2>1. ~ (n < expected) /\ ~ (n = expected)
    BY <1>2
  <2> QED
    BY <2>1 DEF pushHBQ, tryToCloseGap, list
<1>5. Held' = Held \cup {n}
  BY <1>3, <1>4 DEF Held, Elements
<1>6. HBQTypeOK'
  BY <1>1, <1>2, <1>3, <1>4 DEF HBQTypeOK
<1>7. NoneBelow(list, expected + 1)
  <2> SUFFICES ASSUME NEW i \in DOMAIN list
               PROVE  list[i] >= expected + 1
    BY DEF NoneBelow
  <2>1. list[i] \in Elements(list)
    BY DEF Elements
  <2> QED
    BY <2>1, <1>2, <1>3
<1>8. HeldAscending'
  BY <1>2, <1>3, <1>4, <1>7, HeldAscendingFromList
<1>9. ExpectedFromDLQ'
  BY <1>1, <1>4 DEF ExpectedFromDLQ
<1>10. HoldBackBounded'
  BY <1>3, <1>4 DEF HoldBackBounded, ThirdReached
<1>11. n \notin gaps
  BY <1>1, <1>2 DEF Decided
<1>12. NothingLost'
  BY <1>1, <1>3, <1>4, <1>5, <1>11 DEF NothingLost
<1>13. Decided' /\ StartupEmpty'
  BY <1>1, <1>4 DEF Decided, StartupEmpty
<1> QED
  BY <1>6, <1>8, <1>9, <1>10, <1>12, <1>13 DEF IInv

(***************************************************************************)
(* ... or the gap before the list's head is closed, and the head and its   *)
(* successors are stored behind it.                                        *)
(***************************************************************************)
LEMMA PushClosesGapEffect ==
  ASSUME IInv, NEW n \in Nr \ arrived, pushHBQ(n), n > expected,
         ThirdReached(hbqSize + 1)
  PROVE  LET e == pushToHBQ(hbqList, n)[1]
             pool == Held \cup {n}
         IN  /\ hbqState = "loop" /\ hbqState' = "loop"
             /\ arrived' = arrived \cup {n} /\ discarded' = discarded
             /\ e \in pool /\ e - 1 \in Nat /\ e - 1 >= expected
             /\ \A x \in pool : x \in Nat /\ x >= e
             /\ n \notin discarded \cup released \cup Held
             /\ dlq' \in Seq(Entry)
             /\ expected' \in Nat /\ expected' >= e
             /\ ExpectedFromDLQ'
             /\ hbqList' \in Seq(Nat)
             /\ hbqSize' = Len(hbqList') /\ hbqSize' \in Nat /\ hbqSize' <= hbqSize
             /\ Ascending(hbqList') /\ NoneBelow(hbqList', expected' + 1)
             /\ Held' = {x \in pool : x >= expected'}
      /\ e..expected' - 1 = {x \in pool : x < expected'}
             /\ e..expected' - 1 = {x \in pool : x < expected'}
             /\ released' = released \cup {x \in pool : x < expected'}
             /\ gaps' = gaps \cup {e - 1}
<1> DEFINE list == pushToHBQ(hbqList, n)
           e == list[1]
           k == RunLength(e, list)
           pool == Held \cup {n}
<1>1. /\ HBQTypeOK /\ NothingLost /\ Decided
      /\ hbqSize = Len(hbqList)
      /\ hbqList = << >> \/ ~ ThirdReached(hbqSize)
  BY DEF IInv, HoldBackBounded
<1>2. n \in Nat \ {0} /\ expected \in Nat \ {0} /\ n \in Nr /\ hbqSize \in Nat
  BY <1>1, NrAssumption DEF HBQTypeOK
<1>3. /\ list \in Seq(Nat) /\ Ascending(list)
      /\ Len(list) = hbqSize + 1
      /\ Elements(list) = pool
      /\ \A x \in pool : x \in Nat /\ x > expected
      /\ e \in pool
      /\ NoneBelow(list, e)
      /\ n \notin discarded \cup released \cup Held
  BY Inserted
<1> HIDE DEF list
<1>4. /\ hbqState = "loop" /\ hbqState' = "loop"
      /\ arrived' = arrived \cup {n} /\ discarded' = discarded
      /\ tryToAppend(e, LueckeGeschlossen(e - 1), Len(list), list)
  <2>1. ~ (n < expected) /\ ~ (n = expected)
    BY <1>2
  <2>2. Len(list) = hbqSize + 1
    BY <1>3
  <2> QED
    BY <2>1, <2>2 DEF pushHBQ, tryToCloseGap, list
<1> HIDE DEF e, pool
<1>5. e \in Nat \ {0} /\ e - 1 \in Nat \ {0} /\ e - 1 >= expected
  BY <1>2, <1>3
<1>6. /\ LueckeGeschlossen(e - 1) \in Entry
      /\ LueckeGeschlossen(e - 1).nr = e - 1
      /\ LueckeGeschlossen(e - 1).gap = TRUE
  BY <1>5 DEF LueckeGeschlossen, Entry
<1>7. dlq \in Seq(Entry)
  BY <1>1 DEF HBQTypeOK
<1>8. /\ dlq' \in Seq(Entry)
      /\ expected' \in Nat /\ expected' >= e
      /\ ExpectedFromDLQ'
      /\ hbqList' \in Seq(Nat)
      /\ hbqSize' = Len(hbqList')
      /\ hbqSize' = Len(list) - k
      /\ Ascending(hbqList') /\ NoneBelow(hbqList', expected' + 1)
      /\ Held' = {x \in pool : x >= expected'}
      /\ e..expected' - 1 = {x \in pool : x < expected'}
      /\ released' = released \cup {x \in pool : x < expected'}
      /\ gaps' = gaps \cup {e - 1}
  <2>1. /\ dlq' \in Seq(Entry)
        /\ expected' \in Nat /\ expected' >= e
        /\ ExpectedFromDLQ'
        /\ hbqList' \in Seq(Nat)
        /\ hbqSize' = Len(hbqList')
        /\ hbqSize' = Len(list) - k
        /\ Ascending(hbqList') /\ NoneBelow(hbqList', expected' + 1)
        /\ Held' = {x \in Elements(list) : x >= expected'}
        /\ e..expected' - 1 = {x \in Elements(list) : x < expected'}
        /\ released' = released \cup {x \in Elements(list) : x < expected'}
                         \cup (IF LueckeGeschlossen(e - 1).gap THEN {} ELSE {e - 1})
        /\ gaps' = gaps \cup (IF LueckeGeschlossen(e - 1).gap THEN {e - 1} ELSE {})
    BY <1>3, <1>4, <1>5, <1>6, <1>7, AppendEffect
  <2> QED
    BY <2>1, <1>3, <1>6
<1>9. k \in 1..Len(list)
  <2>1. k \in 0..Len(list) /\ (k < Len(list) => list[k + 1] # e + k)
    BY <1>3, <1>5, RunLengthProperties
  <2>2. k # 0
    BY <2>1, <1>2, <1>3, <1>5 DEF e
  <2> QED
    BY <2>1, <2>2
<1> HIDE DEF k
<1>10. hbqSize' \in Nat /\ hbqSize' <= hbqSize
  BY <1>2, <1>3, <1>8, <1>9
<1>11. ASSUME NEW x \in pool
       PROVE  x \in Nat /\ x >= e
  <2>1. PICK i \in DOMAIN list : x = list[i]
    BY <1>3 DEF Elements
  <2> QED
    BY <2>1, <1>3 DEF NoneBelow
<1> QED
  BY <1>3, <1>4, <1>5, <1>8, <1>10, <1>11 DEF e, pool, list

(***************************************************************************)
(* ... which keeps the invariant.                                          *)
(***************************************************************************)
LEMMA PushClosesGapStep ==
  ASSUME IInv, NEW n \in Nr \ arrived, pushHBQ(n), n > expected,
         ThirdReached(hbqSize + 1)
  PROVE  IInv'
<1> DEFINE e == pushToHBQ(hbqList, n)[1]
           pool == Held \cup {n}
<1>1. /\ HBQTypeOK /\ NothingLost /\ Decided
      /\ hbqSize = Len(hbqList)
      /\ hbqList = << >> \/ ~ ThirdReached(hbqSize)
  BY DEF IInv, HoldBackBounded
<1>2. n \in Nat \ {0} /\ expected \in Nat \ {0} /\ n \in Nr /\ hbqSize \in Nat
  BY <1>1, NrAssumption DEF HBQTypeOK
<1> HIDE DEF e
<1>3. /\ hbqState = "loop" /\ hbqState' = "loop"
      /\ arrived' = arrived \cup {n} /\ discarded' = discarded
      /\ e \in pool /\ e - 1 \in Nat /\ e - 1 >= expected
      /\ \A x \in pool : x \in Nat /\ x >= e
      /\ n \notin discarded \cup released \cup Held
      /\ dlq' \in Seq(Entry)
      /\ expected' \in Nat /\ expected' >= e
      /\ ExpectedFromDLQ'
      /\ hbqList' \in Seq(Nat)
      /\ hbqSize' = Len(hbqList') /\ hbqSize' \in Nat /\ hbqSize' <= hbqSize
      /\ Ascending(hbqList') /\ NoneBelow(hbqList', expected' + 1)
      /\ Held' = {x \in pool : x >= expected'}
      /\ released' = released \cup {x \in pool : x < expected'}
      /\ gaps' = gaps \cup {e - 1}
  BY PushClosesGapEffect DEF e
<1> HIDE DEF pool
<1>4. HBQTypeOK'
  <2>1. hbqSize' \in Nat
    BY <1>3
  <2>2. expected' \in Nat \ {0}
    BY <1>3
  <2>3. released' \subseteq Nat /\ gaps' \subseteq Nat
    BY <1>1, <1>3 DEF HBQTypeOK
  <2>4. arrived' \subseteq Nr /\ discarded' \subseteq Nr
    BY <1>1, <1>2, <1>3 DEF HBQTypeOK
  <2> QED
    BY <1>3, <2>1, <2>2, <2>3, <2>4 DEF HBQTypeOK
<1>5. HeldAscending'
  BY <1>3, HeldAscendingFromList
<1>6. HoldBackBounded'
  <2>1. hbqSize' \in Nat /\ hbqSize' <= hbqSize
    BY <1>2, <1>3
  <2>2. CASE hbqList = << >>
    <3>1. Len(hbqList') = 0
      <4>1. hbqSize = 0
        BY <2>2, <1>1
      <4> QED
        BY <4>1, <1>3
    <3>2. hbqList' = << >>
      BY <3>1, <1>3
    <3> QED
      BY <3>2, <1>3 DEF HoldBackBounded
  <2>3. CASE ~ ThirdReached(hbqSize)
    <3>1. ~ ThirdReached(hbqSize')
      BY <2>1, <2>3, <1>2, ThirdMonotone
    <3> QED
      BY <3>1, <1>3 DEF HoldBackBounded, ThirdReached
  <2> QED
    BY <1>1, <2>2, <2>3
<1>7. e \in Nat /\ expected' \in Nat /\ expected < e /\ e - 1 < expected'
  <2>1. e \in Nat /\ expected' \in Nat
    BY <1>3
  <2> QED
    BY <2>1, <1>2, <1>3
<1>8. \A x \in discarded \cup released \cup gaps : x \in Nat /\ x < expected
  BY <1>1, NrAssumption DEF Decided, HBQTypeOK
<1>9. NothingLost'
  <2>1. /\ arrived = discarded \cup released \cup Held
        /\ discarded \cap released = {} /\ discarded \cap Held = {}
        /\ released \cap Held = {} /\ gaps \cap (released \cup Held) = {}
    BY <1>1 DEF NothingLost
  <2>2. pool = Held \cup {n} /\ pool \cap (discarded \cup released) = {}
    BY <2>1, <1>3 DEF pool
  <2>3. \A x \in pool : x \in Nat
    BY <1>3
  <2>4. pool = Held' \cup {x \in pool : x < expected'}
    BY <2>3, <1>3
  <2>5. arrived' = discarded' \cup released' \cup Held'
    BY <2>1, <2>2, <2>4, <1>3
  <2>6. discarded' \cap released' = {} /\ discarded' \cap Held' = {}
    BY <2>1, <2>2, <1>3
  <2>7. released' \cap Held' = {}
    <3> SUFFICES ASSUME NEW x \in Held', x \in released'
                 PROVE  FALSE
      OBVIOUS
    <3>1. x \in released \/ x < expected'
      BY <1>3
    <3>2. x >= expected' /\ x \in pool /\ x \in Nat
      BY <1>3
    <3> QED
      BY <3>1, <3>2, <2>2, <1>7
  <2>8. \A x \in pool : x # e - 1
    <3> SUFFICES ASSUME NEW x \in pool
                 PROVE  x # e - 1
      OBVIOUS
    <3>1. x \in Nat /\ x >= e /\ e \in Int
      BY <1>3
    <3> QED
      BY <3>1
  <2>9. \A x \in pool : x \notin gaps
    <3> SUFFICES ASSUME NEW x \in pool, x \in gaps
                 PROVE  FALSE
      OBVIOUS
    <3>1. x \in Nat /\ x >= e /\ x < expected
      BY <1>3, <1>8
    <3> QED
      BY <3>1, <1>2, <1>7
  <2>10. e - 1 \notin released
    BY <1>2, <1>3, <1>8
  <2>11. gaps' \cap (released' \cup Held') = {}
    BY <2>1, <2>8, <2>9, <2>10, <1>3
  <2> QED
    BY <2>5, <2>6, <2>7, <2>11 DEF NothingLost
<1>10. Decided'
  <2> SUFFICES ASSUME NEW x \in discarded' \cup released' \cup gaps'
               PROVE  x < expected'
    BY DEF Decided
  <2>1. \/ x \in discarded \cup released \cup gaps
        \/ x < expected'
        \/ x = e - 1
    BY <1>3
  <2>2. CASE x \in discarded \cup released \cup gaps
    BY <2>2, <1>2, <1>3, <1>8
  <2>3. CASE x = e - 1
    BY <2>3, <1>7
  <2> QED
    BY <2>1, <2>2, <2>3
<1>11. StartupEmpty'
  BY <1>3 DEF StartupEmpty
<1> QED
  BY <1>3, <1>4, <1>5, <1>6, <1>9, <1>10, <1>11 DEF IInv

-----------------------------------------------------------------------------
(***************************************************************************)
(* ... and every step keeps it.                                            *)
(***************************************************************************)
LEMMA IInvNext == IInv /\ [HBQNext]_hbqVars => IInv'
<1> SUFFICES ASSUME IInv, [HBQNext]_hbqVars
             PROVE  IInv'
  OBVIOUS
<1>1. /\ HBQTypeOK /\ HeldAscending /\ ExpectedFromDLQ /\ HoldBackBounded
      /\ NothingLost /\ Decided /\ StartupEmpty
  BY DEF IInv
<1> USE DEF HBQTypeOK, HeldAscending, ExpectedFromDLQ, HoldBackBounded, NothingLost,
            Decided, StartupEmpty, Held
<1>2. CASE initHBQ
  <2>1. /\ hbqState = "startup" /\ hbqState' = "loop" /\ hbqSize' = 0 /\ hbqList' = << >>
        /\ dlq' = << >> /\ expected' = 1
        /\ UNCHANGED <<arrived, discarded, released, gaps>>
    BY <1>2 DEF initHBQ, expectedNr
  <2> QED
    BY <1>1, <2>1 DEF IInv, expectedNr
<1>3. CASE startupOther
  BY <1>1, <1>3 DEF IInv, startupOther, queueVars
<1>4. CASE dellHBQ
  BY <1>1, <1>4 DEF IInv, dellHBQ, queueVars
<1>5. ASSUME NEW n \in Nr \ arrived, pushHBQ(n)
      PROVE  IInv'
  <2>1. n \in Nat /\ expected \in Nat
    BY <1>1, NrAssumption
  <2>2. CASE n < expected
    <3>1. /\ arrived' = arrived \cup {n} /\ discarded' = discarded \cup {n}
          /\ hbqState = "loop" /\ hbqState' = hbqState
          /\ UNCHANGED <<hbqSize, hbqList, dlq, expected, released, gaps>>
      BY <1>5, <2>1, <2>2 DEF pushHBQ, queueVars
    <3>2. n \notin released \cup Held
      BY <1>1
    <3> QED
      BY <1>1, <2>2, <3>1, <3>2 DEF IInv
  <2>3. CASE n = expected
    BY <1>5, <2>3, PushExpectedStep
  <2>4. CASE n > expected /\ ~ ThirdReached(hbqSize + 1)
    BY <1>5, <2>4, PushHeldStep
  <2>5. CASE n > expected /\ ThirdReached(hbqSize + 1)
    BY <1>5, <2>5, PushClosesGapStep
  <2> QED
    BY <2>1, <2>2, <2>3, <2>4, <2>5
<1>6. CASE UNCHANGED hbqVars
  BY <1>1, <1>6 DEF IInv, hbqVars, queueVars
<1> QED
  BY <1>2, <1>3, <1>4, <1>5, <1>6 DEF HBQNext

(***************************************************************************)
(* Hence it always holds.                                                  *)
(***************************************************************************)
LEMMA IInvHolds == HBQSpec => []IInv
BY IInvInit, IInvNext, PTL DEF HBQSpec

(***************************************************************************)
(* The HBQ's state has its types, whatever is pushed in whatever order.    *)
(***************************************************************************)
THEOREM TypeCorrect == HBQSpec => []HBQTypeOK
<1>1. IInv => HBQTypeOK
  BY DEF IInv
<1> QED
  BY <1>1, IInvHolds, PTL

(***************************************************************************)
(* The held numbers stay strictly ascending and beyond the expected one,   *)
(* so looking at the head of the list (tryToAppend, tryToCloseGap) is      *)
(* enough.                                                                 *)
(***************************************************************************)
THEOREM ListStaysAscending == HBQSpec => []HeldAscending
<1>1. IInv => HeldAscending
  BY DEF IInv
<1> QED
  BY <1>1, IInvHolds, PTL

(***************************************************************************)
(* The loop's Expected always is the number that dlq:expectedNr would      *)
(* compute from the DLQ.                                                   *)
(***************************************************************************)
THEOREM ExpectedAgreesWithDLQ == HBQSpec => []ExpectedFromDLQ
<1>1. IInv => ExpectedFromDLQ
  BY DEF IInv
<1> QED
  BY <1>1, IInvHolds, PTL

(***************************************************************************)
(* One closed gap per push is enough to keep the hold-back queue below a   *)
(* third of the DLQ's limit, and its counter right.                        *)
(***************************************************************************)
THEOREM HoldBackStaysBounded == HBQSpec => []HoldBackBounded
<1>1. IInv => HoldBackBounded
  BY DEF IInv
<1> QED
  BY <1>1, IInvHolds, PTL

(***************************************************************************)
(* Every pushed number is discarded, stored or held, exactly one of them,  *)
(* and no number with a message is given up as a gap.                      *)
(***************************************************************************)
THEOREM NothingIsLost == HBQSpec => []NothingLost
<1>1. IInv => NothingLost
  BY DEF IInv
<1> QED
  BY <1>1, IInvHolds, PTL

-----------------------------------------------------------------------------
(***************************************************************************)
(* tryToAppend keeps the DLQ a window on the newest stored numbers.        *)
(***************************************************************************)
LEMMA AppendKeepsWindow ==
  ASSUME dlq \in Seq(Entry), released \subseteq Nat, gaps \subseteq Nat,
         ExpectedFromDLQ, DLQWindow,
         NEW list \in Seq(Nat), NEW e \in Nat \ {0},
         NEW entry \in Entry, entry.nr = e - 1, e - 1 >= expected,
         NEW size, tryToAppend(e, entry, size, list)
  PROVE  DLQWindow'
<1> DEFINE new == Run(e, list) \o <<entry>>
           all == new \o dlq
           k == RunLength(e, list)
<1>1. /\ dlq' = cutToSize(DLQSize, all)
      /\ released' = released \cup NumbersOf(new, FALSE)
      /\ gaps' = gaps \cup NumbersOf(new, TRUE)
  BY DEF tryToAppend, Store, push2DLQ
<1>2. new \in Seq(Entry) /\ new # << >>
  BY StoredEntries
<1>3. /\ Len(new) = k + 1 /\ k \in Nat
      /\ \A i \in DOMAIN new : new[i].nr = e + k - i
      /\ Descending(new)
  <2>1. k \in Nat
    BY RunLengthProperties
  <2> QED
    BY <2>1, StoredNumbers
<1> HIDE DEF new, k
<1>4. /\ Len(dlq) <= DLQSize /\ Descending(dlq)
      /\ NumbersOf(dlq, FALSE) \subseteq released
      /\ NumbersOf(dlq, TRUE) \subseteq gaps
      /\ \A n \in (released \cup gaps) \ AllNumbers(dlq) :
           Len(dlq) = DLQSize /\ n < dlq[Len(dlq)].nr
  BY DEF DLQWindow, Descending, AllNumbers
<1>5. /\ \A i \in DOMAIN dlq : dlq[i].nr \in Nat
      /\ \A i \in DOMAIN new : new[i].nr \in Nat
      /\ AllNumbers(dlq) = {dlq[i].nr : i \in DOMAIN dlq}
  BY <1>2, AllNumbersAre
<1>6. Newer(new, dlq)
  <2> SUFFICES ASSUME NEW i \in DOMAIN new, NEW j \in DOMAIN dlq
               PROVE  new[i].nr > dlq[j].nr
    BY DEF Newer
  <2>1. new[i].nr >= e - 1
    <3>1. i \in 1..k + 1
      BY <1>2, <1>3
    <3>2. new[i].nr = e + k - i
      BY <1>3
    <3> QED
      BY <3>1, <3>2, <1>3
  <2>2. dlq # << >> /\ expected = dlq[1].nr + 1 /\ 1 \in DOMAIN dlq
    BY DEF ExpectedFromDLQ, expectedNr
  <2>3. dlq[1].nr >= dlq[j].nr
    <3>1. CASE j = 1
      BY <3>1, <1>5
    <3>2. CASE j # 1
      <4>1. 1 < j
        BY <3>2
      <4>2. dlq[1].nr > dlq[j].nr
        BY <4>1, <2>2, <1>4, DescendingAt
      <4> QED
        BY <4>2, <2>2, <1>5
    <3> QED
      BY <3>1, <3>2
  <2> QED
    BY <2>1, <2>2, <2>3, <1>5
<1>7. /\ all \in Seq(Entry) /\ Len(all) = Len(new) + Len(dlq) /\ Descending(all)
      /\ \A g \in BOOLEAN : NumbersOf(all, g) = NumbersOf(new, g) \cup NumbersOf(dlq, g)
  BY <1>2, <1>3, <1>4, <1>6, JoinProperties
<1>8. all # << >> /\ Len(new) \in Nat /\ Len(new) > 0 /\ Len(dlq) \in Nat
  BY <1>2, <1>7
<1>9. \A i \in 1..Len(new) : all[i] = new[i]
  BY <1>2
<1>10. \A i \in 1..Len(dlq) : all[Len(new) + i] = dlq[i]
  BY <1>2
<1> HIDE DEF all
<1>11. /\ dlq' \in Seq(Entry)
       /\ Len(dlq') \in Nat /\ Len(dlq') <= DLQSize /\ Len(dlq') <= Len(all)
       /\ Len(dlq') > 0
       /\ Len(all) >= DLQSize => Len(dlq') = DLQSize
       /\ \A i \in 1..Len(dlq') : dlq'[i] = all[i]
       /\ Descending(dlq')
       /\ \A g \in BOOLEAN : NumbersOf(dlq', g) \subseteq NumbersOf(all, g)
       /\ \A n \in AllNumbers(all) \ AllNumbers(dlq') :
            Len(dlq') = DLQSize /\ n < dlq'[Len(dlq')].nr
  BY <1>1, <1>7, <1>8, CutProperties
<1>12. NumbersOf(dlq', FALSE) \subseteq released' /\ NumbersOf(dlq', TRUE) \subseteq gaps'
  BY <1>1, <1>4, <1>7, <1>11
<1>13. ASSUME NEW n \in (released' \cup gaps') \ AllNumbers(dlq')
       PROVE  Len(dlq') = DLQSize /\ n < dlq'[Len(dlq')].nr
  <2>1. CASE n \in AllNumbers(all)
    BY <2>1, <1>11, <1>13
  <2>2. CASE n \notin AllNumbers(all)
    <3>1. n \in (released \cup gaps) \ AllNumbers(dlq)
      BY <2>2, <1>1, <1>7, <1>13 DEF AllNumbers
    <3>2. Len(dlq) = DLQSize /\ n < dlq[Len(dlq)].nr
      BY <3>1, <1>4
    <3>3. Len(dlq') = DLQSize
      BY <3>2, <1>7, <1>8, <1>11
    <3> DEFINE last == Len(dlq')
    <3>4. last \in DOMAIN dlq /\ last \in Nat /\ last > 0 /\ last = Len(dlq)
      BY <3>2, <3>3, <1>11
    <3>5. dlq'[last] = all[last] /\ all[Len(new) + last] = dlq[last]
      BY <3>4, <1>10, <1>11
    <3>6. last \in DOMAIN all /\ Len(new) + last \in DOMAIN all /\ last < Len(new) + last
      BY <3>4, <1>7, <1>8
    <3> HIDE DEF last
    <3>7. all[last].nr > all[Len(new) + last].nr
      BY <3>6, <1>7, DescendingAt
    <3>8. n \in Nat /\ all[last].nr \in Nat /\ dlq[last].nr \in Nat
      BY <3>1, <3>4, <3>6, <1>5, <1>7, AllNumbersAre
    <3>9. n < all[last].nr
      BY <3>2, <3>4, <3>5, <3>7, <3>8
    <3> QED
      BY <3>3, <3>5, <3>9 DEF last
  <2> QED
    BY <2>1, <2>2
<1> QED
  BY <1>11, <1>12, <1>13 DEF DLQWindow, Descending, AllNumbers

(***************************************************************************)
(* Every step keeps the DLQ a window, given the inductive invariant.       *)
(***************************************************************************)
LEMMA WindowNext == IInv /\ DLQWindow /\ [HBQNext]_hbqVars => DLQWindow'
<1> SUFFICES ASSUME IInv, DLQWindow, [HBQNext]_hbqVars
             PROVE  DLQWindow'
  OBVIOUS
<1>1. /\ dlq \in Seq(Entry) /\ released \subseteq Nat /\ gaps \subseteq Nat
      /\ expected \in Nat \ {0} /\ hbqList \in Seq(Nat)
      /\ ExpectedFromDLQ /\ StartupEmpty
  BY DEF IInv, HBQTypeOK
<1>2. UNCHANGED <<dlq, released, gaps>> => DLQWindow'
  BY DEF DLQWindow
<1>3. CASE initHBQ
  <2>1. UNCHANGED <<dlq, released, gaps>>
    BY <1>1, <1>3 DEF initHBQ, StartupEmpty
  <2> QED
    BY <2>1, <1>2
<1>4. CASE startupOther \/ dellHBQ \/ UNCHANGED hbqVars
  BY <1>2, <1>4 DEF startupOther, dellHBQ, hbqVars, queueVars
<1>5. ASSUME NEW n \in Nr \ arrived, pushHBQ(n)
      PROVE  DLQWindow'
  <2>1. n \in Nat \ {0}
    BY NrAssumption
  <2>2. CASE n < expected
    <3>1. UNCHANGED <<dlq, released, gaps>>
      BY <1>1, <1>5, <2>1, <2>2 DEF pushHBQ, queueVars
    <3> QED
      BY <3>1, <1>2
  <2>3. CASE n = expected
    <3> DEFINE e == n + 1
    <3>1. tryToAppend(e, Message(n), hbqSize, hbqList)
      BY <1>1, <1>5, <2>1, <2>3 DEF pushHBQ
    <3>2. /\ Message(n) \in Entry /\ Message(n).nr = e - 1 /\ e - 1 >= expected
          /\ e \in Nat \ {0}
      BY <2>1, <2>3 DEF Message, Entry
    <3> HIDE DEF e
    <3> QED
      BY <3>1, <3>2, <1>1, AppendKeepsWindow
  <2>4. CASE n > expected /\ ~ ThirdReached(hbqSize + 1)
    <3>1. UNCHANGED <<dlq, released, gaps>>
      BY <1>1, <1>5, <2>1, <2>4 DEF pushHBQ, tryToCloseGap
    <3> QED
      BY <3>1, <1>2
  <2>5. CASE n > expected /\ ThirdReached(hbqSize + 1)
    <3> DEFINE list == pushToHBQ(hbqList, n)
               e == list[1]
    <3>1. tryToAppend(e, LueckeGeschlossen(e - 1), hbqSize + 1, list)
      BY <1>1, <1>5, <2>1, <2>5 DEF pushHBQ, tryToCloseGap
    <3>2. list \in Seq(Nat) /\ e \in Nat /\ e > expected
      BY <1>5, <2>5, Inserted
    <3> HIDE DEF list, e
    <3>3. /\ LueckeGeschlossen(e - 1) \in Entry /\ LueckeGeschlossen(e - 1).nr = e - 1
          /\ e - 1 >= expected /\ e \in Nat \ {0}
      BY <3>2, <1>1 DEF LueckeGeschlossen, Entry
    <3> QED
      BY <3>1, <3>2, <3>3, <1>1, AppendKeepsWindow
  <2> QED
    BY <1>1, <2>1, <2>2, <2>3, <2>4, <2>5
<1> QED
  BY <1>3, <1>4, <1>5 DEF HBQNext

(***************************************************************************)
(* The DLQ always is the window on the newest stored numbers.              *)
(***************************************************************************)
THEOREM DLQIsWindow == HBQSpec => []DLQWindow
<1>1. HBQInit => DLQWindow
  BY DLQSizeAssumption DEF HBQInit, DLQWindow, NumbersOf
<1> QED
  BY <1>1, IInvHolds, WindowNext, PTL DEF HBQSpec

(***************************************************************************)
(* Whatever a reader asks for, the answer fits the queue: the entry of     *)
(* that number, the oldest one for what has left the queue, the dummy for  *)
(* what is still to come, and terminiert with the newest entry only.       *)
(***************************************************************************)
THEOREM AnswersFit == HBQSpec => []AnswersFitTheQueue
<1>1. IInv /\ DLQWindow => AnswersFitTheQueue
  <2> SUFFICES ASSUME IInv, DLQWindow, NEW n \in 1..expected + 1
               PROVE  LET answer == deliverMSG(n, dlq)
                          stored == NumbersOf(dlq, FALSE) \cup NumbersOf(dlq, TRUE)
                      IN  /\ n \in stored => answer.nr = n
                          /\ n >= expected => answer = Dummy
                          /\ (\A m \in stored : n < m) /\ stored # {} => answer.nr = Min(stored)
                          /\ answer.nr # 0 => (answer.terminiert <=> answer.nr = expected - 1)
    BY DEF AnswersFitTheQueue
  <2>1. dlq \in Seq(Entry) /\ Descending(dlq) /\ expected = expectedNr(dlq) /\ n \in Nat
    BY DEF IInv, HBQTypeOK, ExpectedFromDLQ, DLQWindow, Descending
  <2> QED
    BY <2>1, AnswerOf DEF AllNumbers
<1> QED
  BY <1>1, IInvHolds, DLQIsWindow, PTL

-----------------------------------------------------------------------------
(***************************************************************************)
(* The recursive functions of dlq.erl and hbq.erl, clause by clause,       *)
(* compute the closed forms, for every queue and every list: the closed    *)
(* form satisfies the clauses, so there is such a function, and two of     *)
(* them agree by induction on the length.                                  *)
(***************************************************************************)
LEMMA CutDef ==
  Cut = [n \in Nat |-> [q \in Seq(Entry) |->
           IF q = << >> \/ n = 0 THEN << >> ELSE <<Head(q)>> \o Cut[n - 1][Tail(q)]]]
<1> DEFINE f == [n \in Nat |-> [q \in Seq(Entry) |-> cutToSize(n, q)]]
<1>1. ASSUME NEW n \in Nat, NEW q \in Seq(Entry)
      PROVE  cutToSize(n, q) = IF q = << >> \/ n = 0 THEN << >>
                               ELSE <<Head(q)>> \o f[n - 1][Tail(q)]
  <2>1. CASE q = << >> \/ n = 0
    BY <2>1, CutStep
  <2>2. CASE ~ (q = << >> \/ n = 0)
    <3>1. n - 1 \in Nat /\ Tail(q) \in Seq(Entry)
      BY <2>2
    <3>2. f[n - 1][Tail(q)] = cutToSize(n - 1, Tail(q))
      BY <3>1
    <3> HIDE DEF f
    <3> QED
      BY <2>2, <3>2, CutStep
  <2> QED
    BY <2>1, <2>2
<1>2. f = [n \in Nat |-> [q \in Seq(Entry) |->
             IF q = << >> \/ n = 0 THEN << >> ELSE <<Head(q)>> \o f[n - 1][Tail(q)]]]
  BY <1>1
<1> HIDE DEF f
<1> QED
  BY <1>2 DEF Cut

LEMMA CutAgrees ==
  \A n \in Nat : \A q \in Seq(Entry) : Cut[n][q] = cutToSize(n, q)
<1> DEFINE S == {n \in Nat : \A q \in Seq(Entry) : Cut[n][q] = cutToSize(n, q)}
<1>1. \A n \in Nat : \A q \in Seq(Entry) :
        Cut[n][q] = IF q = << >> \/ n = 0 THEN << >> ELSE <<Head(q)>> \o Cut[n - 1][Tail(q)]
  <2> SUFFICES ASSUME NEW n \in Nat
               PROVE  \A q \in Seq(Entry) :
        Cut[n][q] = IF q = << >> \/ n = 0 THEN << >> ELSE <<Head(q)>> \o Cut[n - 1][Tail(q)]
    OBVIOUS
  <2>1. Cut[n] = [q \in Seq(Entry) |->
           IF q = << >> \/ n = 0 THEN << >> ELSE <<Head(q)>> \o Cut[n - 1][Tail(q)]]
    BY CutDef
  <2> QED
    BY <2>1
<1>2. 0 \in S
  <2>1. ASSUME NEW q \in Seq(Entry)
        PROVE  Cut[0][q] = cutToSize(0, q)
    <3>1. Cut[0][q] = << >>
      BY <1>1
    <3>2. cutToSize(0, q) = << >>
      BY CutStep
    <3> QED
      BY <3>1, <3>2
  <2> QED
    BY <2>1
<1>3. ASSUME NEW n \in Nat, n \in S
      PROVE  n + 1 \in S
  <2> SUFFICES ASSUME NEW q \in Seq(Entry)
               PROVE  Cut[n + 1][q] = cutToSize(n + 1, q)
    OBVIOUS
  <2>1. n + 1 \in Nat /\ n + 1 # 0 /\ (n + 1) - 1 = n
    OBVIOUS
  <2>2. CASE q = << >>
    BY <1>1, <2>1, <2>2, CutStep
  <2>3. CASE q # << >>
    <3>1. Tail(q) \in Seq(Entry)
      BY <2>3
    <3>2. Cut[n][Tail(q)] = cutToSize(n, Tail(q))
      BY <1>3, <3>1
    <3>3. cutToSize(n + 1, q) = <<Head(q)>> \o cutToSize(n, Tail(q))
      <4>1. cutToSize(n + 1, q) = <<Head(q)>> \o cutToSize((n + 1) - 1, Tail(q))
        BY <2>1, <2>3, CutStep
      <4> QED
        BY <2>1, <4>1
    <3>4. Cut[n + 1][q] = <<Head(q)>> \o Cut[n][Tail(q)]
      <4>1. Cut[n + 1][q] = <<Head(q)>> \o Cut[(n + 1) - 1][Tail(q)]
        BY <1>1, <2>1, <2>3
      <4> QED
        BY <2>1, <4>1
    <3> QED
      BY <3>2, <3>3, <3>4
  <2> QED
    BY <2>2, <2>3
<1> HIDE DEF S
<1>4. Nat \subseteq S
  BY <1>2, <1>3, Induction
<1> QED
  BY <1>4 DEF S

LEMMA PushIs ==
  ASSUME NEW entry \in Entry, NEW q \in Seq(Entry)
  PROVE  PushedOn(entry, q) = push2DLQ(<<entry>>, q) /\ PushedOn(entry, q) \in Seq(Entry)
<1>1. <<entry>> \o q \in Seq(Entry) /\ DLQSize \in Nat
  BY DLQSizeAssumption
<1>2. PushedOn(entry, q) = cutToSize(DLQSize, <<entry>> \o q)
  BY <1>1, CutAgrees DEF PushedOn
<1>3. cutToSize(DLQSize, <<entry>> \o q) \in Seq(Entry)
  BY <1>1, CutElements
<1> QED
  BY <1>2, <1>3 DEF push2DLQ

(***************************************************************************)
(* pushToHBQ.                                                              *)
(***************************************************************************)
LEMMA InsertDef ==
  Insert = [l \in Seq(Nat) |-> [n \in Nat |->
              IF l = << >> THEN <<n>>
              ELSE IF Head(l) > n THEN <<n>> \o l
              ELSE <<Head(l)>> \o Insert[Tail(l)][n]]]
<1> DEFINE f == [l \in Seq(Nat) |-> [n \in Nat |-> pushToHBQ(l, n)]]
<1>1. ASSUME NEW l \in Seq(Nat), NEW n \in Nat
      PROVE  pushToHBQ(l, n) = IF l = << >> THEN <<n>>
                               ELSE IF Head(l) > n THEN <<n>> \o l
                               ELSE <<Head(l)>> \o f[Tail(l)][n]
  <2>1. l # << >> => f[Tail(l)][n] = pushToHBQ(Tail(l), n)
    <3>1. l # << >> => Tail(l) \in Seq(Nat)
      OBVIOUS
    <3> QED
      BY <3>1
  <2> HIDE DEF f
  <2> QED
    BY <2>1, InsertStep
<1>2. f = [l \in Seq(Nat) |-> [n \in Nat |->
             IF l = << >> THEN <<n>>
             ELSE IF Head(l) > n THEN <<n>> \o l
             ELSE <<Head(l)>> \o f[Tail(l)][n]]]
  BY <1>1
<1> HIDE DEF f
<1> QED
  BY <1>2 DEF Insert

LEMMA InsertAgrees ==
  \A l \in Seq(Nat) : \A n \in Nat : Insert[l][n] = pushToHBQ(l, n)
<1> DEFINE S == {k \in Nat : \A l \in Seq(Nat) :
                               Len(l) = k => \A n \in Nat : Insert[l][n] = pushToHBQ(l, n)}
<1>1. ASSUME NEW l \in Seq(Nat), NEW n \in Nat
      PROVE  Insert[l][n] = IF l = << >> THEN <<n>>
                            ELSE IF Head(l) > n THEN <<n>> \o l
                            ELSE <<Head(l)>> \o Insert[Tail(l)][n]
  <2>1. Insert[l] = [m \in Nat |-> IF l = << >> THEN <<m>>
                                   ELSE IF Head(l) > m THEN <<m>> \o l
                                   ELSE <<Head(l)>> \o Insert[Tail(l)][m]]
    BY InsertDef
  <2> QED
    BY <2>1
<1>2. 0 \in S
  <2>1. ASSUME NEW l \in Seq(Nat), Len(l) = 0, NEW n \in Nat
        PROVE  Insert[l][n] = pushToHBQ(l, n)
    <3>1. l = << >>
      BY <2>1
    <3>2. Insert[l][n] = <<n>>
      BY <1>1, <3>1
    <3> QED
      BY <3>1, <3>2, InsertStep
  <2> QED
    BY <2>1
<1>3. ASSUME NEW k \in Nat, k \in S
      PROVE  k + 1 \in S
  <2>1. ASSUME NEW l \in Seq(Nat), Len(l) = k + 1, NEW n \in Nat
        PROVE  Insert[l][n] = pushToHBQ(l, n)
    <3>1. l # << >> /\ Tail(l) \in Seq(Nat) /\ Len(Tail(l)) = k
      BY <2>1
    <3>2. Insert[Tail(l)][n] = pushToHBQ(Tail(l), n)
      BY <1>3, <3>1
    <3>3. Insert[l][n] = IF Head(l) > n THEN <<n>> \o l ELSE <<Head(l)>> \o Insert[Tail(l)][n]
      BY <1>1, <3>1
    <3>4. pushToHBQ(l, n) = IF Head(l) > n THEN <<n>> \o l
                            ELSE <<Head(l)>> \o pushToHBQ(Tail(l), n)
      BY <3>1, InsertStep
    <3> QED
      BY <3>2, <3>3, <3>4
  <2> QED
    BY <2>1
<1> HIDE DEF S
<1>4. Nat \subseteq S
  BY <1>2, <1>3, Induction
<1>5. \A k \in Nat : \A l \in Seq(Nat) :
        Len(l) = k => \A n \in Nat : Insert[l][n] = pushToHBQ(l, n)
  BY <1>4 DEF S
<1>6. \A l \in Seq(Nat) : Len(l) \in Nat
  OBVIOUS
<1> QED
  BY <1>5, <1>6

(***************************************************************************)
(* What tryToAppend returns: without any push the queue is as it was.      *)
(***************************************************************************)
Appended(l, e, q) ==
  [expected |-> e + RunLength(e, l),
   queue |-> IF RunLength(e, l) = 0 THEN q ELSE push2DLQ(Run(e, l), q),
   list |-> Rest(e, l)]

LEMMA AppendStops ==
  ASSUME NEW l \in Seq(Nat), NEW e \in Nat \ {0}, NEW q, l = << >> \/ Head(l) # e
  PROVE  Appended(l, e, q) = [expected |-> e, queue |-> q, list |-> l]
<1>1. RunLength(e, l) = 0
  <2>1. 0 \in 0 .. Len(l) /\ \A i \in 1 .. 0 : l[i] = e + i - 1
    OBVIOUS
  <2>2. 0 < Len(l) => l[0 + 1] # e + 0
    OBVIOUS
  <2> QED
    BY <2>1, <2>2, RunLengthIs
<1>2. Rest(e, l) = l
  BY <1>1 DEF Rest
<1> QED
  BY <1>1, <1>2 DEF Appended

LEMMA AppendGoesOn ==
  ASSUME NEW l \in Seq(Nat), NEW e \in Nat \ {0}, NEW q \in Seq(Entry), l # << >>, Head(l) = e
  PROVE  Appended(l, e, q) = Appended(Tail(l), e + 1, PushedOn(Message(e), q))
<1> DEFINE t == Tail(l)
           f == RunLength(e + 1, t)
           s == Run(e + 1, t)
           m == Message(e)
           p == PushedOn(m, q)
<1>1. /\ t \in Seq(Nat) /\ RunLength(e, l) = f + 1
      /\ Run(e, l) = s \o <<m>> /\ Rest(e, l) = Rest(e + 1, t)
  BY RunStep
<1>2. e + 1 \in Nat \ {0} /\ m \in Entry
  BY DEF Message, Entry
<1>3. f \in Nat /\ s \in Seq(Entry) /\ Len(s) = f
  <2> HIDE DEF t
  <2>1. f \in 0 .. Len(t) /\ s \in Seq(Entry) /\ Len(s) = f
    BY <1>1, <1>2, RunLengthProperties, RunElements
  <2> QED
    BY <1>1, <2>1
<1> DEFINE z == <<m>> \o q
<1>4. p = cutToSize(DLQSize, z)
  BY <1>2, PushIs DEF push2DLQ
<1>8. z \in Seq(Entry) /\ DLQSize \in Nat
  BY <1>2, DLQSizeAssumption
<1> HIDE DEF t, f, s, m, p
<1>5. f + 1 # 0 /\ e + (f + 1) = (e + 1) + f
  BY <1>3
<1>6. push2DLQ(s \o <<m>>, q) = cutToSize(DLQSize, s \o p)
  <2>1. (s \o <<m>>) \o q = s \o z
    BY <1>2, <1>3
  <2> HIDE DEF z
  <2>2. cutToSize(DLQSize, s \o cutToSize(DLQSize, z)) = cutToSize(DLQSize, s \o z)
    BY <1>3, <1>8, CutTwice
  <2> QED
    BY <1>4, <2>1, <2>2 DEF push2DLQ
<1>7. cutToSize(DLQSize, s \o p) = IF f = 0 THEN p ELSE push2DLQ(s, p)
  <2> HIDE DEF z
  <2>1. CASE f = 0
    <3>1. s = << >>
      BY <1>3, <2>1
    <3>2. p \in Seq(Entry) /\ Len(p) <= DLQSize
      BY <1>4, <1>8, CutElements
    <3>3. s \o p = p
      BY <3>1, <3>2
    <3>4. cutToSize(DLQSize, p) = p
      BY <3>2 DEF cutToSize
    <3> QED
      BY <2>1, <3>3, <3>4
  <2>2. CASE f # 0
    BY <2>2 DEF push2DLQ
  <2> QED
    BY <2>1, <2>2
<1> QED
  BY <1>1, <1>5, <1>6, <1>7 DEF Appended, f, s, t, m, p

LEMMA TryToAppendDef ==
  TryToAppend = [l \in Seq(Nat) |-> [e \in Nat \ {0} |-> [q \in Seq(Entry) |->
                   IF l # << >> /\ Head(l) = e
                   THEN TryToAppend[Tail(l)][e + 1][PushedOn(Message(e), q)]
                   ELSE [expected |-> e, queue |-> q, list |-> l]]]]
<1> DEFINE f == [l \in Seq(Nat) |-> [e \in Nat \ {0} |-> [q \in Seq(Entry) |-> Appended(l, e, q)]]]
<1>1. ASSUME NEW l \in Seq(Nat), NEW e \in Nat \ {0}, NEW q \in Seq(Entry)
      PROVE  Appended(l, e, q) = IF l # << >> /\ Head(l) = e
                                 THEN f[Tail(l)][e + 1][PushedOn(Message(e), q)]
                                 ELSE [expected |-> e, queue |-> q, list |-> l]
  <2>1. CASE l # << >> /\ Head(l) = e
    <3>1. Tail(l) \in Seq(Nat) /\ e + 1 \in Nat \ {0}
      BY <2>1
    <3>2. PushedOn(Message(e), q) \in Seq(Entry)
      <4>1. Message(e) \in Entry
        BY DEF Message, Entry
      <4> QED
        BY <4>1, PushIs
    <3>3. f[Tail(l)][e + 1][PushedOn(Message(e), q)] = Appended(Tail(l), e + 1, PushedOn(Message(e), q))
      BY <3>1, <3>2
    <3> HIDE DEF f
    <3> QED
      BY <2>1, <3>3, AppendGoesOn
  <2>2. CASE ~ (l # << >> /\ Head(l) = e)
    <3> HIDE DEF f
    <3> QED
      BY <2>2, AppendStops
  <2> QED
    BY <2>1, <2>2
<1>2. f = [l \in Seq(Nat) |-> [e \in Nat \ {0} |-> [q \in Seq(Entry) |->
             IF l # << >> /\ Head(l) = e
             THEN f[Tail(l)][e + 1][PushedOn(Message(e), q)]
             ELSE [expected |-> e, queue |-> q, list |-> l]]]]
  BY <1>1
<1> HIDE DEF f
<1> QED
  BY <1>2 DEF TryToAppend

LEMMA TryToAppendAgrees ==
  \A l \in Seq(Nat) : \A e \in Nat \ {0} : \A q \in Seq(Entry) :
    TryToAppend[l][e][q] = Appended(l, e, q)
<1> DEFINE S == {k \in Nat : \A l \in Seq(Nat) : Len(l) = k =>
                   \A e \in Nat \ {0} : \A q \in Seq(Entry) :
                     TryToAppend[l][e][q] = Appended(l, e, q)}
<1>1. ASSUME NEW l \in Seq(Nat), NEW e \in Nat \ {0}, NEW q \in Seq(Entry)
      PROVE  TryToAppend[l][e][q] = IF l # << >> /\ Head(l) = e
                                    THEN TryToAppend[Tail(l)][e + 1][PushedOn(Message(e), q)]
                                    ELSE [expected |-> e, queue |-> q, list |-> l]
  <2>1. TryToAppend[l] = [x \in Nat \ {0} |-> [y \in Seq(Entry) |->
                            IF l # << >> /\ Head(l) = x
                            THEN TryToAppend[Tail(l)][x + 1][PushedOn(Message(x), y)]
                            ELSE [expected |-> x, queue |-> y, list |-> l]]]
    BY TryToAppendDef
  <2>2. TryToAppend[l][e] = [y \in Seq(Entry) |->
                               IF l # << >> /\ Head(l) = e
                               THEN TryToAppend[Tail(l)][e + 1][PushedOn(Message(e), y)]
                               ELSE [expected |-> e, queue |-> y, list |-> l]]
    BY <2>1
  <2> QED
    BY <2>2
<1>2. 0 \in S
  <2>1. ASSUME NEW l \in Seq(Nat), Len(l) = 0, NEW e \in Nat \ {0}, NEW q \in Seq(Entry)
        PROVE  TryToAppend[l][e][q] = Appended(l, e, q)
    <3>1. l = << >>
      BY <2>1
    <3>2. TryToAppend[l][e][q] = [expected |-> e, queue |-> q, list |-> l]
      BY <1>1, <3>1
    <3> QED
      BY <3>1, <3>2, AppendStops
  <2> QED
    BY <2>1
<1>3. ASSUME NEW k \in Nat, k \in S
      PROVE  k + 1 \in S
  <2>1. ASSUME NEW l \in Seq(Nat), Len(l) = k + 1, NEW e \in Nat \ {0}, NEW q \in Seq(Entry)
        PROVE  TryToAppend[l][e][q] = Appended(l, e, q)
    <3>1. CASE Head(l) = e
      <4>1. l # << >> /\ Tail(l) \in Seq(Nat) /\ Len(Tail(l)) = k /\ e + 1 \in Nat \ {0}
        BY <2>1
      <4>2. PushedOn(Message(e), q) \in Seq(Entry)
        <5>1. Message(e) \in Entry
          BY DEF Message, Entry
        <5> QED
          BY <5>1, PushIs
      <4>3. TryToAppend[Tail(l)][e + 1][PushedOn(Message(e), q)]
              = Appended(Tail(l), e + 1, PushedOn(Message(e), q))
        BY <1>3, <4>1, <4>2
      <4>4. TryToAppend[l][e][q] = TryToAppend[Tail(l)][e + 1][PushedOn(Message(e), q)]
        BY <1>1, <3>1, <4>1
      <4> QED
        BY <3>1, <4>1, <4>3, <4>4, AppendGoesOn
    <3>2. CASE Head(l) # e
      <4>1. TryToAppend[l][e][q] = [expected |-> e, queue |-> q, list |-> l]
        BY <1>1, <3>2
      <4> QED
        BY <3>2, <4>1, AppendStops
    <3> QED
      BY <3>1, <3>2
  <2> QED
    BY <2>1
<1> HIDE DEF S
<1>4. Nat \subseteq S
  BY <1>2, <1>3, Induction
<1>5. \A k \in Nat : \A l \in Seq(Nat) : Len(l) = k =>
        \A e \in Nat \ {0} : \A q \in Seq(Entry) : TryToAppend[l][e][q] = Appended(l, e, q)
  BY <1>4 DEF S
<1>6. \A l \in Seq(Nat) : Len(l) \in Nat
  OBVIOUS
<1> QED
  BY <1>5, <1>6

(***************************************************************************)
(* The answer of deliverMSG's walk.                                        *)
(***************************************************************************)
Answer(q, newest, nr) ==
  IF q = << >> THEN Dummy
  ELSE [nr |-> q[Stop(q, nr)].nr, terminiert |-> newest /\ Stop(q, nr) = 1]

LEMMA WalkStep ==
  ASSUME NEW q \in Seq(Entry), NEW newest \in BOOLEAN, NEW nr \in Nat
  PROVE  Answer(q, newest, nr) =
           IF q = << >> THEN Dummy
           ELSE IF Head(q).nr = nr \/ Len(q) = 1
           THEN [nr |-> Head(q).nr, terminiert |-> newest]
           ELSE Answer(Tail(q), FALSE, nr)
<1>1. CASE q = << >>
  BY <1>1 DEF Answer
<1>2. CASE q # << >> /\ (Head(q).nr = nr \/ Len(q) = 1)
  <2>1. 1 \in 1 .. Len(q) /\ Head(q) = q[1] /\ \A i \in 1 .. 1 - 1 : q[i].nr # nr
    BY <1>2
  <2>2. Stop(q, nr) = 1
    BY <1>2, <2>1, StopIs
  <2>3. (newest /\ Stop(q, nr) = 1) = newest
    BY <2>2
  <2>4. Answer(q, newest, nr) = [nr |-> q[Stop(q, nr)].nr, terminiert |-> newest /\ Stop(q, nr) = 1]
    BY <1>2 DEF Answer
  <2>5. Answer(q, newest, nr) = [nr |-> Head(q).nr, terminiert |-> newest]
    BY <2>1, <2>2, <2>3, <2>4
  <2> QED
    BY <1>2, <2>5
<1>3. CASE q # << >> /\ Head(q).nr # nr /\ Len(q) # 1
  <2> DEFINE t == Tail(q)
             f == Stop(t, nr)
  <2>1. /\ t \in Seq(Entry) /\ Len(t) = Len(q) - 1 /\ Head(q) = q[1]
        /\ \A i \in 1 .. Len(q) - 1 : t[i] = q[i + 1]
        /\ Len(q) \in Nat /\ Len(q) >= 1
    BY <1>3, TailElements
  <2> HIDE DEF t
  <2>2. t # << >>
    BY <1>3, <2>1
  <2>3. /\ f \in 1 .. Len(t)
        /\ t[f].nr = nr \/ f = Len(t)
        /\ \A i \in 1 .. f - 1 : t[i].nr # nr
    BY <2>1, <2>2, StopProperties
  <2> HIDE DEF f
  <2>4. t[f] = q[f + 1] /\ f + 1 \in 1 .. Len(q) /\ (q[f + 1].nr = nr \/ f + 1 = Len(q))
    BY <2>1, <2>3
  <2>5. ASSUME NEW i \in 1 .. (f + 1) - 1
        PROVE  q[i].nr # nr
    <3>1. CASE i = 1
      BY <1>3, <2>1, <3>1
    <3>2. CASE i # 1
      <4>1. i - 1 \in 1 .. f - 1 /\ i - 1 \in 1 .. Len(q) - 1 /\ (i - 1) + 1 = i
        BY <2>1, <2>3, <3>2
      <4> QED
        BY <2>1, <2>3, <4>1
    <3> QED
      BY <3>1, <3>2
  <2>6. Stop(q, nr) = f + 1
    BY <1>3, <2>4, <2>5, StopIs
  <2>7. Stop(q, nr) # 1
    BY <2>1, <2>3, <2>6
  <2>8. Answer(q, newest, nr) = [nr |-> q[Stop(q, nr)].nr, terminiert |-> newest /\ Stop(q, nr) = 1]
    BY <1>3 DEF Answer
  <2>9. Answer(t, FALSE, nr) = [nr |-> t[f].nr, terminiert |-> FALSE /\ f = 1]
    BY <2>2 DEF Answer, f
  <2>10. (newest /\ Stop(q, nr) = 1) = FALSE /\ (FALSE /\ f = 1) = FALSE
    BY <2>7
  <2>11. Answer(q, newest, nr) = Answer(t, FALSE, nr)
    BY <2>4, <2>6, <2>8, <2>9, <2>10
  <2> QED
    BY <1>3, <2>11 DEF t
<1> QED
  BY <1>1, <1>2, <1>3

LEMMA WalkDef ==
  Walk = [q \in Seq(Entry) |-> [newest \in BOOLEAN |-> [nr \in Nat |->
            IF q = << >> THEN Dummy
            ELSE IF Head(q).nr = nr \/ Len(q) = 1
            THEN [nr |-> Head(q).nr, terminiert |-> newest]
            ELSE Walk[Tail(q)][FALSE][nr]]]]
<1> DEFINE f == [q \in Seq(Entry) |-> [newest \in BOOLEAN |-> [nr \in Nat |-> Answer(q, newest, nr)]]]
<1>1. ASSUME NEW q \in Seq(Entry), NEW newest \in BOOLEAN, NEW nr \in Nat
      PROVE  Answer(q, newest, nr) = IF q = << >> THEN Dummy
                                     ELSE IF Head(q).nr = nr \/ Len(q) = 1
                                     THEN [nr |-> Head(q).nr, terminiert |-> newest]
                                     ELSE f[Tail(q)][FALSE][nr]
  <2>1. q # << >> => f[Tail(q)][FALSE][nr] = Answer(Tail(q), FALSE, nr)
    <3>1. q # << >> => Tail(q) \in Seq(Entry)
      OBVIOUS
    <3>2. FALSE \in BOOLEAN
      OBVIOUS
    <3> QED
      BY <3>1, <3>2
  <2> HIDE DEF f
  <2> QED
    BY <2>1, WalkStep
<1>2. f = [q \in Seq(Entry) |-> [newest \in BOOLEAN |-> [nr \in Nat |->
             IF q = << >> THEN Dummy
             ELSE IF Head(q).nr = nr \/ Len(q) = 1
             THEN [nr |-> Head(q).nr, terminiert |-> newest]
             ELSE f[Tail(q)][FALSE][nr]]]]
  BY <1>1
<1> HIDE DEF f
<1> QED
  BY <1>2 DEF Walk

LEMMA WalkAgrees ==
  \A q \in Seq(Entry) : \A newest \in BOOLEAN : \A nr \in Nat :
    Walk[q][newest][nr] = Answer(q, newest, nr)
<1> DEFINE S == {k \in Nat : \A q \in Seq(Entry) : Len(q) = k =>
                   \A newest \in BOOLEAN : \A nr \in Nat :
                     Walk[q][newest][nr] = Answer(q, newest, nr)}
<1>1. ASSUME NEW q \in Seq(Entry), NEW newest \in BOOLEAN, NEW nr \in Nat
      PROVE  Walk[q][newest][nr] = IF q = << >> THEN Dummy
                                   ELSE IF Head(q).nr = nr \/ Len(q) = 1
                                   THEN [nr |-> Head(q).nr, terminiert |-> newest]
                                   ELSE Walk[Tail(q)][FALSE][nr]
  <2>1. Walk[q] = [b \in BOOLEAN |-> [n \in Nat |->
                     IF q = << >> THEN Dummy
                     ELSE IF Head(q).nr = n \/ Len(q) = 1
                     THEN [nr |-> Head(q).nr, terminiert |-> b]
                     ELSE Walk[Tail(q)][FALSE][n]]]
    BY WalkDef
  <2>2. Walk[q][newest] = [n \in Nat |->
                             IF q = << >> THEN Dummy
                             ELSE IF Head(q).nr = n \/ Len(q) = 1
                             THEN [nr |-> Head(q).nr, terminiert |-> newest]
                             ELSE Walk[Tail(q)][FALSE][n]]
    BY <2>1
  <2> QED
    BY <2>2
<1>2. 0 \in S
  <2>1. ASSUME NEW q \in Seq(Entry), Len(q) = 0, NEW newest \in BOOLEAN, NEW nr \in Nat
        PROVE  Walk[q][newest][nr] = Answer(q, newest, nr)
    <3>1. q = << >>
      BY <2>1
    <3>2. Walk[q][newest][nr] = Dummy
      BY <1>1, <3>1
    <3> QED
      BY <3>1, <3>2 DEF Answer
  <2> QED
    BY <2>1
<1>3. ASSUME NEW k \in Nat, k \in S
      PROVE  k + 1 \in S
  <2>1. ASSUME NEW q \in Seq(Entry), Len(q) = k + 1, NEW newest \in BOOLEAN, NEW nr \in Nat
        PROVE  Walk[q][newest][nr] = Answer(q, newest, nr)
    <3>1. q # << >> /\ Tail(q) \in Seq(Entry) /\ Len(Tail(q)) = k
      BY <2>1
    <3>2. Walk[Tail(q)][FALSE][nr] = Answer(Tail(q), FALSE, nr)
      BY <1>3, <3>1
    <3>3. Walk[q][newest][nr] = IF Head(q).nr = nr \/ Len(q) = 1
                                THEN [nr |-> Head(q).nr, terminiert |-> newest]
                                ELSE Walk[Tail(q)][FALSE][nr]
      BY <1>1, <3>1
    <3>4. Answer(q, newest, nr) = IF Head(q).nr = nr \/ Len(q) = 1
                                  THEN [nr |-> Head(q).nr, terminiert |-> newest]
                                  ELSE Answer(Tail(q), FALSE, nr)
      BY <3>1, WalkStep
    <3> QED
      BY <3>2, <3>3, <3>4
  <2> QED
    BY <2>1
<1> HIDE DEF S
<1>4. Nat \subseteq S
  BY <1>2, <1>3, Induction
<1>5. \A k \in Nat : \A q \in Seq(Entry) : Len(q) = k =>
        \A newest \in BOOLEAN : \A nr \in Nat : Walk[q][newest][nr] = Answer(q, newest, nr)
  BY <1>4 DEF S
<1>6. \A q \in Seq(Entry) : Len(q) \in Nat
  OBVIOUS
<1> QED
  BY <1>5, <1>6

LEMMA DeliverIsWalk ==
  ASSUME NEW q \in Seq(Entry), NEW nr \in Nat
  PROVE  deliverMSG(nr, q) = Walk[IF nr < expectedNr(q) THEN q ELSE << >>][TRUE][nr]
<1>1. << >> \in Seq(Entry) /\ TRUE \in BOOLEAN
  OBVIOUS
<1>2. expectedNr(q) \in Nat
  <2>1. CASE q = << >>
    BY <2>1 DEF expectedNr
  <2>2. CASE q # << >>
    <3>1. q[1] \in Entry
      BY <2>2
    <3> QED
      BY <2>2, <3>1 DEF expectedNr, Entry
  <2> QED
    BY <2>1, <2>2
<1>3. CASE nr >= expectedNr(q)
  <2>1. Walk[<< >>][TRUE][nr] = Dummy
    BY <1>1, WalkAgrees DEF Answer
  <2>2. ~ (nr < expectedNr(q))
    BY <1>2, <1>3
  <2> QED
    BY <1>3, <2>1, <2>2 DEF deliverMSG
<1>4. CASE ~ (nr >= expectedNr(q))
  <2>1. nr < expectedNr(q)
    BY <1>2, <1>4
  <2>2. Walk[q][TRUE][nr] = Answer(q, TRUE, nr)
    BY <1>1, WalkAgrees
  <2>3. CASE q = << >>
    BY <1>4, <2>1, <2>2, <2>3 DEF deliverMSG, Answer
  <2>4. CASE q # << >>
    <3>1. deliverMSG(nr, q) = [nr |-> q[Stop(q, nr)].nr, terminiert |-> Stop(q, nr) = 1]
      BY <1>4, <2>4 DEF deliverMSG, Stop
    <3>2. Answer(q, TRUE, nr) = [nr |-> q[Stop(q, nr)].nr, terminiert |-> TRUE /\ Stop(q, nr) = 1]
      BY <2>4 DEF Answer
    <3>3. (TRUE /\ Stop(q, nr) = 1) = (Stop(q, nr) = 1)
      OBVIOUS
    <3> QED
      BY <2>1, <2>2, <3>1, <3>2, <3>3
  <2> QED
    BY <2>3, <2>4
<1> QED
  BY <1>3, <1>4

(***************************************************************************)
(* One pass of tryToAppend pushes a whole run, if the queue was cut before.*)
(***************************************************************************)
LEMMA RunIsTryToAppend ==
  ASSUME NEW l \in Seq(Nat), NEW e \in Nat \ {0}, NEW q \in Seq(Entry), Len(q) <= DLQSize
  PROVE  [expected |-> e + RunLength(e, l),
          queue |-> push2DLQ(Run(e, l), q),
          list |-> Rest(e, l)] = TryToAppend[l][e][q]
<1>1. RunLength(e, l) = 0 => push2DLQ(Run(e, l), q) = q
  <2> SUFFICES ASSUME RunLength(e, l) = 0
               PROVE  push2DLQ(Run(e, l), q) = q
    OBVIOUS
  <2>1. Run(e, l) = << >>
    BY RunElements
  <2>2. << >> \o q = q
    OBVIOUS
  <2>3. cutToSize(DLQSize, q) = q
    BY DEF cutToSize
  <2> QED
    BY <2>1, <2>2, <2>3 DEF push2DLQ
<1>2. TryToAppend[l][e][q] = Appended(l, e, q)
  BY TryToAppendAgrees
<1> QED
  BY <1>1, <1>2 DEF Appended

(***************************************************************************)
(* In every state of the HBQ its list and its queue are treated as the     *)
(* clauses of dlq.erl:29-78 and hbq.erl:56-82 say, although the model has  *)
(* them in closed form: that a queue is never longer than its limit makes  *)
(* one cut after all the pushes the same as one after each.                *)
(***************************************************************************)
THEOREM ClosedFormsAgree == HBQSpec => []ClausesAgree
<1>1. IInv /\ DLQWindow => ClausesAgree
  <2> SUFFICES ASSUME IInv, DLQWindow, NEW n \in Nr
               PROVE  /\ pushToHBQ(hbqList, n) = Insert[hbqList][n]
                      /\ [expected |-> n + RunLength(n, hbqList),
                          queue |-> push2DLQ(Run(n, hbqList), dlq),
                          list |-> Rest(n, hbqList)] = TryToAppend[hbqList][n][dlq]
                      /\ deliverMSG(n, dlq)
                           = Walk[IF n < expectedNr(dlq) THEN dlq ELSE << >>][TRUE][n]
    BY DEF ClausesAgree
  <2>1. /\ hbqList \in Seq(Nat) /\ dlq \in Seq(Entry) /\ Len(dlq) <= DLQSize
        /\ n \in Nat \ {0} /\ n \in Nat
    BY NrAssumption DEF IInv, HBQTypeOK, DLQWindow
  <2>2. pushToHBQ(hbqList, n) = Insert[hbqList][n]
    BY <2>1, InsertAgrees
  <2>3. [expected |-> n + RunLength(n, hbqList),
         queue |-> push2DLQ(Run(n, hbqList), dlq),
         list |-> Rest(n, hbqList)] = TryToAppend[hbqList][n][dlq]
    BY <2>1, RunIsTryToAppend
  <2>4. deliverMSG(n, dlq) = Walk[IF n < expectedNr(dlq) THEN dlq ELSE << >>][TRUE][n]
    BY <2>1, DeliverIsWalk
  <2> QED
    BY <2>2, <2>3, <2>4
<1> QED
  BY <1>1, IInvHolds, DLQIsWindow, PTL

-----------------------------------------------------------------------------
(***************************************************************************)
(* A push that is not discarded is the abstract Accept: a push of the      *)
(* expected number,                                                        *)
(***************************************************************************)
Abstract == <<expected, Held, released, gaps>>

LEMMA AcceptExpected ==
  ASSUME IInv, NEW n \in Nr \ arrived, pushHBQ(n), n = expected
  PROVE  Delivery!Accept(n)
<1> DEFINE pool == Held \cup {n}
           skipped == (expected..expected' - 1) \ pool
<1>1. /\ expected \in Nat /\ n \in Nat /\ Held \subseteq Nat
      /\ n \notin Held
      /\ \A x \in Held' : x > expected'
  <2>1. HeldAscending'
    BY PushExpectedStep DEF IInv
  <2> QED
    BY <2>1, NrAssumption, HeldList DEF IInv, HBQTypeOK, NothingLost, HeldAscending, Held
<1>2. /\ expected' \in Nat /\ expected' > expected
      /\ Held' = {x \in Held : x >= expected'}
      /\ n + 1..expected' - 1 = {x \in Held : x < expected'}
      /\ released' = released \cup {x \in Held : x < expected'} \cup {n}
      /\ gaps' = gaps
  BY PushExpectedEffect
<1>3. expected \in Nat /\ n \in Nat /\ expected' \in Nat /\ n < expected'
  BY <1>1, <1>2
<1>4. skipped = {}
  <2> SUFFICES ASSUME NEW x \in expected..expected' - 1, x # n
               PROVE  x \in Held
    OBVIOUS
  <2>1. x \in expected + 1..expected' - 1
    <3>1. expected \in Int /\ expected' \in Int /\ x # expected
      BY <1>3
    <3> QED
      BY <3>1, IntervalWithoutFirst, Zenon
  <2> QED
    BY <2>1, <1>2
<1>5. ASSUME NEW x \in pool
      PROVE  x \in Nat /\ x # expected' /\ (x \in Held' <=> x > expected')
  <2>1. x \in Nat
    BY <1>1
  <2>2. x = n => x \notin Held'
    BY <1>1, <1>2
  <2>3. x \in Held => (x \in Held' <=> x >= expected')
    BY <1>2
  <2> QED
    BY <1>1, <1>3, <2>1, <2>2, <2>3
<1>6. Held' = {x \in pool : x > expected'}
  <2>1. Held' \subseteq pool
    BY <1>2
  <2> QED
    BY <2>1, <1>5
<1>7. released' = released \cup {x \in pool : x < expected'}
  BY <1>2, <1>3
<1>8. gaps' = gaps
  BY <1>2
<1>9. n >= expected /\ n \notin Held /\ expected' >= expected
  BY <1>1, <1>3
<1> HIDE DEF pool, skipped
<1>10. expected' \notin pool
  BY <1>5
<1> QED
  BY <1>3, <1>4, <1>6, <1>7, <1>8, <1>9, <1>10 DEF Delivery!Accept, pool, skipped

(***************************************************************************)
(* ... of one that is held,                                                *)
(***************************************************************************)
LEMMA AcceptHeld ==
  ASSUME IInv, NEW n \in Nr \ arrived, pushHBQ(n), n > expected,
         ~ ThirdReached(hbqSize + 1)
  PROVE  Delivery!Accept(n)
<1> DEFINE list == pushToHBQ(hbqList, n)
           pool == Held \cup {n}
           skipped == (expected..expected' - 1) \ pool
<1>1. expected \in Nat /\ n \in Nat
  BY NrAssumption DEF IInv, HBQTypeOK
<1>2. /\ Elements(list) = pool
      /\ \A x \in pool : x \in Nat /\ x > expected
      /\ n \notin Held
  BY Inserted
<1>3. hbqList' = list /\ UNCHANGED <<expected, released, gaps>>
  <2>1. ~ (n < expected) /\ ~ (n = expected)
    BY <1>1
  <2> QED
    BY <2>1 DEF pushHBQ, tryToCloseGap
<1>4. Held' = pool
  BY <1>2, <1>3 DEF Held, Elements
<1> HIDE DEF list, pool
<1>5. skipped = {}
  BY <1>1, <1>3
<1>6. Held' = {x \in pool : x > expected'} /\ expected' \notin pool
  BY <1>1, <1>2, <1>3, <1>4
<1>7. released' = released \cup {x \in pool : x < expected'}
  BY <1>1, <1>2, <1>3
<1> QED
  BY <1>1, <1>2, <1>3, <1>5, <1>6, <1>7 DEF Delivery!Accept, pool

(***************************************************************************)
(* ... of one that closes a gap.                                           *)
(***************************************************************************)
LEMMA AcceptClosesGap ==
  ASSUME IInv, NEW n \in Nr \ arrived, pushHBQ(n), n > expected,
         ThirdReached(hbqSize + 1)
  PROVE  Delivery!Accept(n)
<1> DEFINE list == pushToHBQ(hbqList, n)
           e == list[1]
           pool == Held \cup {n}
           skipped == (expected..expected' - 1) \ pool
<1>1. /\ expected \in Nat /\ n \in Nat
      /\ \A x \in Held' : x > expected'
  <2>1. HeldAscending'
    BY PushClosesGapStep DEF IInv
  <2> QED
    BY <2>1, NrAssumption DEF IInv, HBQTypeOK, HeldAscending, Held
<1>2. /\ list \in Seq(Nat) /\ Ascending(list) /\ Len(list) = hbqSize + 1
      /\ Elements(list) = pool
  BY Inserted
<1>3. Cardinality(pool) = hbqSize + 1
  BY <1>2, ElementsCardinality
<1> HIDE DEF list
<1>4. /\ e \in pool /\ e - 1 \in Nat /\ e - 1 >= expected
      /\ \A x \in pool : x \in Nat /\ x >= e
      /\ n \notin Held
      /\ expected' \in Nat /\ expected' >= e
      /\ Held' = {x \in pool : x >= expected'}
      /\ released' = released \cup {x \in pool : x < expected'}
      /\ gaps' = gaps \cup {e - 1}
  BY PushClosesGapEffect DEF list
<1> HIDE DEF e, pool
<1>5. /\ e \in Nat /\ expected \in Nat /\ expected' \in Nat
      /\ expected <= e - 1 /\ expected' >= e
  BY <1>1, <1>4
<1>6. e - 1 \in skipped
  <2>1. e - 1 \notin pool
    BY <1>4, <1>5
  <2>2. e - 1 \in expected..expected' - 1
    <3>1. /\ expected \in Int /\ expected' \in Int /\ e \in Int
          /\ expected <= e - 1 /\ e <= expected'
      BY <1>5
    <3> QED
      BY <3>1, BeforeInInterval, Zenon
  <2> QED
    BY <2>1, <2>2
<1>7. Held' = {x \in pool : x > expected'} /\ expected' \notin pool
  BY <1>1, <1>4
<1>8. expected' >= expected /\ n >= expected /\ n # expected
  BY <1>1, <1>4, <1>5
<1>9. gaps \subseteq gaps' /\ gaps' \ gaps \subseteq skipped
  BY <1>4, <1>6
<1>10. ManyHeld(pool)
  BY <1>3 DEF ManyHeld
<1>11. /\ n \notin Held /\ expected' \in Nat
       /\ released' = released \cup {x \in pool : x < expected'}
  BY <1>4
<1> HIDE DEF skipped
<1> QED
  BY <1>7, <1>8, <1>9, <1>10, <1>11 DEF Delivery!Accept, pool, skipped

(***************************************************************************)
(* ... so each step of the HBQ is an abstract step or a stutter.           *)
(***************************************************************************)
LEMMA StepImplements ==
  IInv /\ [HBQNext]_hbqVars => [Delivery!Next]_Abstract
<1> SUFFICES ASSUME IInv, [HBQNext]_hbqVars
             PROVE  Delivery!Next \/ UNCHANGED Abstract
  OBVIOUS
<1>1. UNCHANGED <<expected, hbqList, released, gaps>> => UNCHANGED Abstract
  BY DEF Abstract, Held
<1>2. CASE initHBQ
  BY <1>1, <1>2 DEF initHBQ, expectedNr, IInv, StartupEmpty
<1>3. CASE startupOther \/ dellHBQ \/ UNCHANGED hbqVars
  BY <1>1, <1>3 DEF startupOther, dellHBQ, hbqVars, queueVars
<1>4. ASSUME NEW n \in Nr \ arrived, pushHBQ(n)
      PROVE  Delivery!Next \/ UNCHANGED Abstract
  <2>1. n \in Nat /\ expected \in Nat
    BY NrAssumption DEF IInv, HBQTypeOK
  <2>2. CASE n < expected
    BY <1>1, <1>4, <2>1, <2>2 DEF pushHBQ, queueVars
  <2>3. CASE n >= expected
    <3>1. Delivery!Accept(n)
      BY <1>4, <2>1, <2>3, AcceptExpected, AcceptHeld, AcceptClosesGap
    <3> QED
      BY <3>1 DEF Delivery!Next
  <2> QED
    BY <2>1, <2>2, <2>3
<1> QED
  BY <1>2, <1>3, <1>4 DEF HBQNext

(***************************************************************************)
(* The HBQ keeps the abstract promise: each of its runs is a run of        *)
(* OrderedDelivery.                                                        *)
(***************************************************************************)
THEOREM ImplementsOrderedDelivery == HBQSpec => DeliversInOrder
<1>1. HBQInit => Delivery!Init
  BY DEF HBQInit, Delivery!Init, Held
<1>2. IInv /\ [HBQNext]_hbqVars => [Delivery!Next]_(Delivery!vars)
  BY StepImplements DEF Abstract, Delivery!vars
<1> QED
  BY <1>1, <1>2, IInvHolds, PTL DEF HBQSpec, DeliversInOrder, Delivery!Spec
=============================================================================
