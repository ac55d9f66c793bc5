----------------------------- MODULE QueueLemmas -----------------------------
(***************************************************************************)
(* What the functions of the two queues do, for every list, every queue    *)
(* and every limit DLQSize: the facts that the proofs about the HBQ cite.  *)
(***************************************************************************)
EXTENDS Queues, FiniteSets, SequenceTheorems, FiniteSetTheorems,
        WellFoundedInduction, TLAPS

(***************************************************************************)
(* Two facts about intervals, cited where the bounds are primed variables. *)
(***************************************************************************)
LEMMA IntervalWithoutFirst ==
  ASSUME NEW a \in Int, NEW b \in Int, NEW x \in a..b - 1, x # a
  PROVE  x \in a + 1..b - 1
OBVIOUS

LEMMA BeforeInInterval ==
  ASSUME NEW a \in Int, NEW b \in Int, NEW x \in Int, a <= x - 1, x <= b
  PROVE  x - 1 \in a..b - 1
OBVIOUS

(***************************************************************************)
(* A non-empty set of natural numbers has a least element, and Min is it.  *)
(***************************************************************************)
LEMMA MinLeast ==
  ASSUME NEW S \in SUBSET Nat, S # {}
  PROVE  Min(S) \in S /\ \A x \in S : Min(S) <= x
<1> DEFINE R == OpToRel(<, Nat)
<1>0. \A x, y \in Nat : <<x, y>> \in R <=> x < y
  BY DEF OpToRel
<1>1. PICK x \in S : \A y \in S : ~ (<<y, x>> \in R)
  <2>1. IsWellFoundedOn(R, Nat)
    BY NatLessThanWellFounded
  <2> HIDE DEF R
  <2> QED
    BY <2>1, WFMin
<1>2. ASSUME NEW y \in S
      PROVE  x <= y
  <2> HIDE DEF R
  <2>1. x \in Nat /\ y \in Nat
    OBVIOUS
  <2>2. <<y, x>> \in R <=> y < x
    BY <1>0, <2>1
  <2>3. ~ (y < x)
    BY <1>1, <2>2
  <2> QED
    BY <2>1, <2>3
<1> QED
  BY <1>2 DEF Min

(***************************************************************************)
(* Where tryToAppend stops: after RunLength elements that continue the     *)
(* numbering, before the first one that does not.                          *)
(***************************************************************************)
LEMMA RunLengthProperties ==
  ASSUME NEW list \in Seq(Nat), NEW e \in Nat
  PROVE  /\ RunLength(e, list) \in 0..Len(list)
         /\ \A i \in 1..RunLength(e, list) : list[i] = e + i - 1
         /\ RunLength(e, list) < Len(list) =>
              list[RunLength(e, list) + 1] # e + RunLength(e, list)
<1> DEFINE S == {k \in 0..Len(list) : k = Len(list) \/ list[k + 1] # e + k}
           k0 == RunLength(e, list)
<1>1. S \in SUBSET Nat /\ S # {}
  <2>1. Len(list) \in S
    OBVIOUS
  <2> QED
    BY <2>1
<1>2. k0 \in S /\ \A x \in S : k0 <= x
  BY <1>1, MinLeast DEF RunLength
<1>3. ASSUME NEW i \in 1..k0
      PROVE  list[i] = e + i - 1
  <2>1. i - 1 \in 0..Len(list) /\ i - 1 < k0 /\ i - 1 # Len(list)
    BY <1>2
  <2>2. i - 1 \notin S
    <3>1. k0 \in Int /\ i - 1 \in Int
      BY <1>2, <2>1
    <3> HIDE DEF S, k0
    <3> QED
      BY <1>2, <2>1, <3>1
  <2>3. list[(i - 1) + 1] = e + (i - 1)
    BY <2>1, <2>2
  <2> QED
    BY <2>3
<1> QED
  BY <1>2, <1>3

(***************************************************************************)
(* Where a number is inserted: behind everything up to it, in front of the *)
(* first greater one.                                                      *)
(***************************************************************************)
LEMMA FirstAboveProperties ==
  ASSUME NEW list \in Seq(Nat), NEW n \in Nat
  PROVE  /\ FirstAbove(list, n) \in 1..Len(list) + 1
         /\ \A i \in 1..FirstAbove(list, n) - 1 : list[i] <= n
         /\ FirstAbove(list, n) <= Len(list) => list[FirstAbove(list, n)] > n
<1> DEFINE S == {i \in DOMAIN list : list[i] > n} \cup {Len(list) + 1}
           p == FirstAbove(list, n)
<1>1. S \in SUBSET Nat /\ S # {}
  OBVIOUS
<1>2. p \in S /\ \A x \in S : p <= x
  BY <1>1, MinLeast DEF FirstAbove
<1>3. p \in 1..Len(list) + 1
  BY <1>2
<1>4. ASSUME NEW i \in 1..p - 1
      PROVE  list[i] <= n
  <2>1. i \in DOMAIN list /\ i \notin S
    BY <1>2, <1>3
  <2>2. list[i] \in Nat
    BY <2>1
  <2> QED
    BY <2>1, <2>2
<1> QED
  BY <1>2, <1>3, <1>4

-----------------------------------------------------------------------------
(***************************************************************************)
(* The numbers of a list, and that it is strictly ascending.               *)
(***************************************************************************)
Elements(list) == {list[i] : i \in DOMAIN list}

Ascending(list) == \A i, j \in DOMAIN list : i < j => list[i] < list[j]

(***************************************************************************)
(* Inserting a new number keeps the list ascending and adds that number.   *)
(***************************************************************************)
LEMMA InsertProperties ==
  ASSUME NEW list \in Seq(Nat), Ascending(list), NEW n \in Nat, n \notin Elements(list)
  PROVE  /\ pushToHBQ(list, n) \in Seq(Nat)
         /\ Len(pushToHBQ(list, n)) = Len(list) + 1
         /\ Ascending(pushToHBQ(list, n))
         /\ Elements(pushToHBQ(list, n)) = Elements(list) \cup {n}
<1> DEFINE p == FirstAbove(list, n)
           r == pushToHBQ(list, n)
<1>2. /\ p \in 1..Len(list) + 1
      /\ \A i \in 1..p - 1 : list[i] <= n
      /\ p <= Len(list) => list[p] > n
  BY FirstAboveProperties
<1>3. r = [i \in 1..Len(list) + 1 |->
             IF i < p THEN list[i] ELSE IF i = p THEN n ELSE list[i - 1]]
  BY DEF pushToHBQ
<1> HIDE DEF p, r
<1>4. r \in Seq(Nat) /\ Len(r) = Len(list) + 1
  <2>1. r \in [1..Len(list) + 1 -> Nat]
    BY <1>2, <1>3
  <2> QED
    BY <2>1
<1>5. \A i \in 1..p - 1 : list[i] < n
  BY <1>2 DEF Elements
<1>6. \A i \in p..Len(list) : n < list[i]
  BY <1>2 DEF Ascending
<1>7. Ascending(r)
  <2> SUFFICES ASSUME NEW i \in 1..Len(list) + 1, NEW j \in 1..Len(list) + 1, i < j
               PROVE  r[i] < r[j]
    BY <1>4 DEF Ascending
  <2>1. CASE j < p
    BY <2>1, <1>2, <1>3 DEF Ascending
  <2>2. CASE j = p
    BY <2>2, <1>2, <1>3, <1>5
  <2>3. CASE j > p /\ i = p
    BY <2>3, <1>2, <1>3, <1>6
  <2>4. CASE j > p /\ i < p
    <3>1. r[i] = list[i] /\ r[j] = list[j - 1] /\ i < j - 1 /\ j - 1 \in DOMAIN list
      BY <2>4, <1>2, <1>3
    <3> QED
      BY <3>1, <1>2 DEF Ascending
  <2>5. CASE j > p /\ i > p
    <3>1. r[i] = list[i - 1] /\ r[j] = list[j - 1] /\ i - 1 \in DOMAIN list /\ j - 1 \in DOMAIN list
      BY <2>5, <1>2, <1>3
    <3> QED
      BY <3>1, <1>2 DEF Ascending
  <2> QED
    BY <2>1, <2>2, <2>3, <2>4, <2>5, <1>2
<1>8. Elements(r) \subseteq Elements(list) \cup {n}
  <2> SUFFICES ASSUME NEW i \in 1..Len(list) + 1
               PROVE  r[i] \in Elements(list) \cup {n}
    BY <1>4 DEF Elements
  <2> QED
    BY <1>2, <1>3 DEF Elements
<1>9. ASSUME NEW i \in 1..Len(list)
      PROVE  list[i] \in Elements(r)
  <2>1. CASE i < p
    <3>1. i \in DOMAIN r /\ r[i] = list[i]
      BY <2>1, <1>2, <1>3
    <3> QED
      BY <3>1 DEF Elements
  <2>2. CASE i >= p
    <3>1. i + 1 \in 1..Len(list) + 1 /\ r[i + 1] = list[i]
      BY <2>2, <1>2, <1>3
    <3> QED
      BY <3>1, <1>4 DEF Elements
  <2> QED
    BY <2>1, <2>2, <1>2
<1>10. n \in Elements(r)
  BY <1>2, <1>3, <1>4 DEF Elements
<1> QED
  <2>1. Elements(list) \subseteq Elements(r)
    BY <1>9 DEF Elements
  <2> QED
    BY <1>4, <1>7, <1>8, <1>10, <2>1 DEF r

(***************************************************************************)
(* Two elements of an ascending list.                                      *)
(***************************************************************************)
LEMMA AscendingAt ==
  ASSUME NEW list \in Seq(Nat), Ascending(list),
         NEW i \in DOMAIN list, NEW j \in DOMAIN list, i < j
  PROVE  list[i] < list[j]
BY DEF Ascending

(***************************************************************************)
(* The list that tryToAppend leaves, element by element.                   *)
(***************************************************************************)
LEMMA RestElements ==
  ASSUME NEW list \in Seq(Nat), NEW e \in Nat
  PROVE  /\ Rest(e, list) \in Seq(Nat)
         /\ Len(Rest(e, list)) = Len(list) - RunLength(e, list)
         /\ \A i \in 1..Len(list) - RunLength(e, list) :
              Rest(e, list)[i] = list[RunLength(e, list) + i]
<1> DEFINE k == RunLength(e, list)
<1>1. k \in 0..Len(list)
  BY RunLengthProperties
<1>2. Rest(e, list) = SubSeq(list, k + 1, Len(list))
  BY DEF Rest
<1> HIDE DEF k
<1> QED
  BY <1>1, <1>2 DEF k

(***************************************************************************)
(* The entries that tryToAppend moves to the DLQ, newest first.            *)
(***************************************************************************)
LEMMA RunElements ==
  ASSUME NEW list \in Seq(Nat), NEW e \in Nat \ {0}
  PROVE  /\ Run(e, list) \in Seq(Entry)
         /\ Len(Run(e, list)) = RunLength(e, list)
         /\ \A i \in 1..RunLength(e, list) :
              Run(e, list)[i] = Message(e + RunLength(e, list) - i)
<1> DEFINE k == RunLength(e, list)
<1>1. k \in 0..Len(list)
  BY RunLengthProperties
<1>2. Run(e, list) = [i \in 1..k |-> Message(e + k - i)]
  BY DEF Run
<1> HIDE DEF k
<1>3. ASSUME NEW i \in 1..k
      PROVE  Message(e + k - i) \in Entry
  BY <1>1 DEF Message, Entry
<1>4. k \in Nat /\ Run(e, list) \in [1..k -> Entry]
  BY <1>1, <1>2, <1>3
<1>5. Run(e, list) \in Seq(Entry) /\ Len(Run(e, list)) = k
  BY <1>4
<1> QED
  BY <1>2, <1>5 DEF k

(***************************************************************************)
(* What tryToAppend takes from an ascending list, no element of which is   *)
(* below e, are exactly its numbers below e + RunLength; what it leaves is *)
(* ascending and beyond e + RunLength.                                     *)
(***************************************************************************)
NoneBelow(list, e) == \A i \in DOMAIN list : list[i] >= e

LEMMA SplitAscending ==
  ASSUME NEW list \in Seq(Nat), Ascending(list), NEW e \in Nat \ {0}, NoneBelow(list, e)
  PROVE  /\ Ascending(Rest(e, list))
         /\ NoneBelow(Rest(e, list), e + RunLength(e, list) + 1)
         /\ Elements(Rest(e, list)) = {x \in Elements(list) : x >= e + RunLength(e, list)}
         /\ e..e + RunLength(e, list) - 1
              = {x \in Elements(list) : x < e + RunLength(e, list)}
<1> DEFINE k == RunLength(e, list)
           rest == Rest(e, list)
<1>1. k \in 0..Len(list)
  BY RunLengthProperties
<1>2. \A i \in 1..k : list[i] = e + i - 1
  BY RunLengthProperties
<1>3. k < Len(list) => list[k + 1] # e + k
  BY RunLengthProperties
<1>4. rest \in Seq(Nat) /\ Len(rest) = Len(list) - k
  BY RestElements
<1>5. \A i \in 1..Len(list) - k : rest[i] = list[k + i]
  BY RestElements
<1> HIDE DEF k, rest
<1>6. k \in Nat /\ k <= Len(list) /\ Len(list) \in Nat /\ DOMAIN list = 1..Len(list)
  BY <1>1
<1>7. DOMAIN rest = 1..Len(list) - k
  BY <1>4
<1>8. Ascending(rest)
  <2> SUFFICES ASSUME NEW i \in DOMAIN rest, NEW j \in DOMAIN rest, i < j
               PROVE  rest[i] < rest[j]
    BY DEF Ascending
  <2> DEFINE a == k + i
             b == k + j
  <2>1. a \in DOMAIN list /\ b \in DOMAIN list /\ a < b
    BY <1>6, <1>7
  <2>2. rest[i] = list[a] /\ rest[j] = list[b]
    BY <1>5, <1>7
  <2> HIDE DEF a, b
  <2> QED
    BY <2>1, <2>2, AscendingAt
<1>9. ASSUME NEW i \in DOMAIN list, i > k
      PROVE  list[i] > e + k
  <2> DEFINE s == k + 1
  <2>1. s \in DOMAIN list /\ s <= i /\ s > 0
    BY <1>6, <1>9
  <2>2. list[s] \in Nat /\ list[i] \in Nat /\ list[s] # e + k
    BY <1>3, <1>6, <1>9, <2>1
  <2>3. list[s] >= e + k
    <3>1. CASE k = 0
      BY <3>1, <1>6, <2>1, <2>2 DEF NoneBelow
    <3>2. CASE k > 0
      <4>1. k \in DOMAIN list /\ k < s
        BY <3>2, <1>6
      <4>2. list[k] = e + k - 1
        BY <3>2, <1>2, <1>6
      <4>3. list[k] < list[s]
        BY <4>1, <2>1, AscendingAt
      <4> QED
        BY <4>2, <4>3, <1>6, <2>2
    <3> QED
      BY <3>1, <3>2, <1>6
  <2>4. list[s] <= list[i]
    <3>1. CASE i = s
      BY <3>1, <2>2
    <3>2. CASE s < i
      <4>1. list[s] < list[i]
        BY <3>2, <2>1, AscendingAt
      <4> QED
        BY <4>1, <2>2
    <3> QED
      BY <3>1, <3>2, <2>1, <1>6
  <2> HIDE DEF s
  <2> QED
    BY <2>2, <2>3, <2>4, <1>6
<1>10. ASSUME NEW i \in DOMAIN rest
       PROVE  rest[i] \in Elements(list) /\ rest[i] > e + k /\ rest[i] \in Nat
  <2> DEFINE a == k + i
  <2>1. a \in DOMAIN list /\ a > k
    BY <1>6, <1>7
  <2>2. rest[i] = list[a]
    BY <1>5, <1>7
  <2> HIDE DEF a
  <2>3. list[a] > e + k
    BY <2>1, <1>9
  <2> QED
    BY <2>1, <2>2, <2>3 DEF Elements
<1>11. NoneBelow(rest, e + k + 1)
  <2> SUFFICES ASSUME NEW i \in DOMAIN rest
               PROVE  rest[i] >= e + k + 1
    BY DEF NoneBelow
  <2> QED
    BY <1>6, <1>10
<1>12. ASSUME NEW x \in Elements(list), x >= e + k
       PROVE  x \in Elements(rest)
  <2>1. PICK i \in DOMAIN list : x = list[i]
    BY DEF Elements
  <2>2. i > k
    <3>1. i <= k => i \in 1..k /\ e + i - 1 < e + k
      BY <1>6
    <3> QED
      BY <3>1, <2>1, <1>2, <1>6, <1>12
  <2> DEFINE a == i - k
  <2>3. a \in DOMAIN rest /\ k + a = i
    BY <2>2, <1>6, <1>7
  <2>4. rest[a] = list[i]
    BY <2>3, <1>5, <1>7
  <2> HIDE DEF a
  <2> QED
    BY <2>1, <2>3, <2>4 DEF Elements
<1>13. ASSUME NEW x \in e..e + k - 1
       PROVE  x \in Elements(list) /\ x < e + k
  <2> DEFINE a == x - e + 1
  <2>1. a \in 1..k /\ e + a - 1 = x /\ a \in DOMAIN list /\ x < e + k
    BY <1>6
  <2> HIDE DEF a
  <2>2. list[a] = x
    BY <2>1, <1>2
  <2> QED
    BY <2>1, <2>2 DEF Elements
<1>14. ASSUME NEW x \in Elements(list), x < e + k
       PROVE  x \in e..e + k - 1
  <2>1. PICK i \in DOMAIN list : x = list[i]
    BY DEF Elements
  <2>2. x \in Nat /\ x >= e
    BY <2>1 DEF NoneBelow
  <2> QED
    BY <2>2, <1>14, <1>6
<1>15. ASSUME NEW x \in Elements(rest)
       PROVE  x \in Elements(list) /\ x >= e + k
  <2>1. PICK i \in DOMAIN rest : x = rest[i]
    BY DEF Elements
  <2> QED
    BY <2>1, <1>10, <1>6
<1> QED
  BY <1>8, <1>11, <1>12, <1>13, <1>14, <1>15 DEF k, rest

-----------------------------------------------------------------------------
(***************************************************************************)
(* Entries pushed to the DLQ: the newest of them becomes its head.         *)
(***************************************************************************)
LEMMA PushProperties ==
  ASSUME NEW new \in Seq(Entry), new # << >>, NEW queue \in Seq(Entry)
  PROVE  /\ push2DLQ(new, queue) \in Seq(Entry)
         /\ push2DLQ(new, queue) # << >>
         /\ push2DLQ(new, queue)[1] = new[1]
<1> DEFINE all == new \o queue
           m == IF Len(all) <= DLQSize THEN Len(all) ELSE DLQSize
<1>1. all \in Seq(Entry) /\ Len(all) = Len(new) + Len(queue) /\ all[1] = new[1]
  OBVIOUS
<1>2. push2DLQ(new, queue) = SubSeq(all, 1, m)
  BY DEF push2DLQ, cutToSize
<1>3. Len(new) > 0 /\ Len(new) \in Nat /\ Len(queue) \in Nat /\ Len(all) \in Nat
  BY <1>1
<1>4. m \in 1..Len(all)
  BY <1>1, <1>3, DLQSizeAssumption
<1> HIDE DEF all, m
<1> QED
  BY <1>1, <1>2, <1>4

(***************************************************************************)
(* The entries that one call of tryToAppend stores: those of the numbers   *)
(* that follow, and the entry before them.                                 *)
(***************************************************************************)
LEMMA StoredEntries ==
  ASSUME NEW list \in Seq(Nat), NEW e \in Nat \ {0},
         NEW entry \in Entry, entry.nr = e - 1
  PROVE  LET new == Run(e, list) \o <<entry>>
             followers == e..e + RunLength(e, list) - 1
         IN  /\ new \in Seq(Entry) /\ new # << >>
             /\ new[1].nr = e + RunLength(e, list) - 1
             /\ NumbersOf(new, FALSE) = followers \cup (IF entry.gap THEN {} ELSE {e - 1})
             /\ NumbersOf(new, TRUE) = IF entry.gap THEN {e - 1} ELSE {}
<1> DEFINE k == RunLength(e, list)
           run == Run(e, list)
           new == run \o <<entry>>
<1>1. k \in Nat
  BY RunLengthProperties
<1>2. run \in Seq(Entry) /\ Len(run) = k
  BY RunElements
<1>3. \A i \in 1..k : run[i] = Message(e + k - i)
  BY RunElements
<1> HIDE DEF k, run
<1>4. /\ new \in Seq(Entry) /\ new # << >> /\ Len(new) = k + 1
      /\ DOMAIN new = 1..k + 1
      /\ new[k + 1] = entry
      /\ \A i \in 1..k : new[i] = run[i]
  BY <1>1, <1>2
<1>5. \A i \in 1..k : new[i] = Message(e + k - i)
  BY <1>3, <1>4
<1> HIDE DEF new
<1>5a. ASSUME NEW i \in 1..k
       PROVE  new[i].nr = e + k - i /\ new[i].gap = FALSE
  <2>1. new[i] = Message(e + k - i)
    BY <1>5
  <2> QED
    BY <2>1 DEF Message
<1>6. new[1].nr = e + k - 1
  <2>1. CASE k = 0
    BY <2>1, <1>4
  <2>2. CASE k > 0
    <3>1. 1 \in 1..k /\ e + k - 1 \in Int
      BY <2>2, <1>1
    <3> QED
      BY <3>1, <1>5a
  <2> QED
    BY <2>1, <2>2, <1>1
<1>7. ASSUME NEW x \in NumbersOf(new, FALSE)
      PROVE  x \in e..e + k - 1 \/ (~ entry.gap /\ x = e - 1)
  <2>1. PICK i \in 1..k + 1 : x = new[i].nr /\ new[i].gap = FALSE
    BY <1>4 DEF NumbersOf
  <2>2. CASE i = k + 1
    BY <2>1, <2>2, <1>4
  <2>3. CASE i # k + 1
    <3>1. i \in 1..k /\ e + k - i \in e..e + k - 1
      BY <2>3, <1>1
    <3> QED
      BY <3>1, <2>1, <1>5a
  <2> QED
    BY <2>2, <2>3
<1>8. ASSUME NEW x \in e..e + k - 1
      PROVE  x \in NumbersOf(new, FALSE)
  <2> DEFINE i == e + k - x
  <2>1. i \in 1..k /\ e + k - i = x /\ i \in DOMAIN new
    BY <1>1, <1>4
  <2> HIDE DEF i
  <2>2. new[i] = Message(x)
    BY <2>1, <1>5
  <2> QED
    BY <2>1, <2>2 DEF NumbersOf, Message
<1>9. k + 1 \in DOMAIN new
  BY <1>1, <1>4
<1>10. ~ entry.gap => e - 1 \in NumbersOf(new, FALSE)
  <2>1. entry.gap \in BOOLEAN
    BY DEF Entry
  <2> QED
    BY <1>4, <1>9, <2>1 DEF NumbersOf
<1>11. entry.gap => e - 1 \in NumbersOf(new, TRUE)
  <2>1. entry.gap \in BOOLEAN
    BY DEF Entry
  <2> QED
    BY <1>4, <1>9, <2>1 DEF NumbersOf
<1>12. ASSUME NEW x \in NumbersOf(new, TRUE)
       PROVE  entry.gap /\ x = e - 1
  <2>1. PICK i \in 1..k + 1 : x = new[i].nr /\ new[i].gap = TRUE
    BY <1>4 DEF NumbersOf
  <2>2. i = k + 1
    <3>1. i \in 1..k \/ i = k + 1
      BY <1>1
    <3> QED
      BY <3>1, <2>1, <1>5a
  <2> QED
    BY <2>1, <2>2, <1>4
<1>13. NumbersOf(new, FALSE) = e..e + k - 1 \cup (IF entry.gap THEN {} ELSE {e - 1})
  BY <1>7, <1>8, <1>10
<1>14. NumbersOf(new, TRUE) = IF entry.gap THEN {e - 1} ELSE {}
  BY <1>11, <1>12
<1> QED
  BY <1>4, <1>6, <1>13, <1>14 DEF k, run, new

(***************************************************************************)
(* A shorter list has not reached a third of the limit either.             *)
(***************************************************************************)
LEMMA ThirdMonotone ==
  ASSUME NEW a \in Nat, NEW b \in Nat, a <= b, ~ ThirdReached(b)
  PROVE  ~ ThirdReached(a)
<1>1. DLQSize \in Nat
  BY DLQSizeAssumption
<1> QED
  BY <1>1 DEF ThirdReached

-----------------------------------------------------------------------------
(***************************************************************************)
(* The DLQ: the newest entry first, so its numbers descend.                *)
(***************************************************************************)
Descending(queue) == \A i, j \in DOMAIN queue : i < j => queue[i].nr > queue[j].nr

AllNumbers(queue) == NumbersOf(queue, FALSE) \cup NumbersOf(queue, TRUE)

(***************************************************************************)
(* The numbers of the messages and of the gaps are all the numbers.        *)
(***************************************************************************)
LEMMA AllNumbersAre ==
  ASSUME NEW queue \in Seq(Entry)
  PROVE  /\ AllNumbers(queue) = {queue[i].nr : i \in DOMAIN queue}
         /\ \A i \in DOMAIN queue : queue[i].nr \in Nat
<1>1. ASSUME NEW i \in DOMAIN queue
      PROVE  queue[i].nr \in Nat /\ queue[i].gap \in BOOLEAN
  <2>1. queue[i] \in Entry
    OBVIOUS
  <2> QED
    BY <2>1 DEF Entry
<1> QED
  BY <1>1 DEF AllNumbers, NumbersOf

(***************************************************************************)
(* Two entries of a descending queue.                                      *)
(***************************************************************************)
LEMMA DescendingAt ==
  ASSUME NEW queue \in Seq(Entry), Descending(queue),
         NEW i \in DOMAIN queue, NEW j \in DOMAIN queue, i < j
  PROVE  queue[i].nr > queue[j].nr
BY DEF Descending

(***************************************************************************)
(* A queue in front of an older one: still descending, with the numbers of *)
(* both.                                                                   *)
(***************************************************************************)
Newer(new, queue) ==
  \A i \in DOMAIN new, j \in DOMAIN queue : new[i].nr > queue[j].nr

LEMMA JoinProperties ==
  ASSUME NEW new \in Seq(Entry), Descending(new),
         NEW queue \in Seq(Entry), Descending(queue), Newer(new, queue)
  PROVE  LET all == new \o queue
         IN  /\ all \in Seq(Entry)
             /\ Len(all) = Len(new) + Len(queue)
             /\ Descending(all)
             /\ \A g \in BOOLEAN :
                  NumbersOf(all, g) = NumbersOf(new, g) \cup NumbersOf(queue, g)
<1> DEFINE all == new \o queue
<1>1. /\ all \in Seq(Entry) /\ Len(all) = Len(new) + Len(queue)
      /\ DOMAIN all = 1..Len(new) + Len(queue)
      /\ DOMAIN new = 1..Len(new) /\ DOMAIN queue = 1..Len(queue)
      /\ Len(new) \in Nat /\ Len(queue) \in Nat
  OBVIOUS
<1>2. \A i \in 1..Len(new) : all[i] = new[i]
  OBVIOUS
<1>3. \A i \in 1..Len(queue) : all[Len(new) + i] = queue[i]
  OBVIOUS
<1> HIDE DEF all
<1>4. ASSUME NEW i \in DOMAIN all, i > Len(new)
      PROVE  i - Len(new) \in DOMAIN queue /\ all[i] = queue[i - Len(new)]
  <2>1. i - Len(new) \in 1..Len(queue) /\ Len(new) + (i - Len(new)) = i
    BY <1>1, <1>4
  <2> QED
    BY <2>1, <1>1, <1>3
<1>5. ASSUME NEW i \in DOMAIN all, i <= Len(new)
      PROVE  i \in DOMAIN new /\ all[i] = new[i]
  BY <1>1, <1>2, <1>5
<1>6. Descending(all)
  <2> SUFFICES ASSUME NEW i \in DOMAIN all, NEW j \in DOMAIN all, i < j
               PROVE  all[i].nr > all[j].nr
    BY DEF Descending
  <2>1. i \in Nat /\ j \in Nat
    BY <1>1
  <2>2. CASE j <= Len(new)
    <3>1. i \in DOMAIN new /\ all[i] = new[i] /\ j \in DOMAIN new /\ all[j] = new[j]
      BY <2>1, <2>2, <1>1, <1>5
    <3> QED
      BY <3>1, DescendingAt
  <2>3. CASE i <= Len(new) /\ j > Len(new)
    BY <2>3, <1>4, <1>5 DEF Newer
  <2>4. CASE i > Len(new)
    <3>1. j > Len(new)
      BY <2>1, <2>4, <1>1
    <3>2. i - Len(new) < j - Len(new)
      BY <2>1, <1>1
    <3> QED
      BY <3>1, <3>2, <2>4, <1>4, DescendingAt
  <2> QED
    BY <2>1, <2>2, <2>3, <2>4, <1>1
<1>7. ASSUME NEW g \in BOOLEAN
      PROVE  NumbersOf(all, g) = NumbersOf(new, g) \cup NumbersOf(queue, g)
  <2>1. ASSUME NEW x \in NumbersOf(all, g)
        PROVE  x \in NumbersOf(new, g) \cup NumbersOf(queue, g)
    <3>1. PICK i \in DOMAIN all : x = all[i].nr /\ all[i].gap = g
      BY DEF NumbersOf
    <3>2. CASE i <= Len(new)
      BY <3>1, <3>2, <1>5 DEF NumbersOf
    <3>3. CASE i > Len(new)
      BY <3>1, <3>3, <1>4 DEF NumbersOf
    <3> QED
      BY <3>2, <3>3, <1>1
  <2>2. ASSUME NEW x \in NumbersOf(new, g)
        PROVE  x \in NumbersOf(all, g)
    <3>1. PICK i \in DOMAIN new : x = new[i].nr /\ new[i].gap = g
      BY DEF NumbersOf
    <3>2. i \in DOMAIN all /\ all[i] = new[i]
      BY <1>1, <1>2
    <3> QED
      BY <3>1, <3>2 DEF NumbersOf
  <2>3. ASSUME NEW x \in NumbersOf(queue, g)
        PROVE  x \in NumbersOf(all, g)
    <3>1. PICK i \in DOMAIN queue : x = queue[i].nr /\ queue[i].gap = g
      BY DEF NumbersOf
    <3>2. Len(new) + i \in DOMAIN all /\ all[Len(new) + i] = queue[i]
      BY <1>1, <1>3
    <3> QED
      BY <3>1, <3>2 DEF NumbersOf
  <2> QED
    BY <2>1, <2>2, <2>3
<1> QED
  BY <1>1, <1>6, <1>7 DEF all

(***************************************************************************)
(* What the cut leaves of a descending queue: its newest entries; what it  *)
(* takes away is older than the last one left, which is number DLQSize.    *)
(***************************************************************************)
LEMMA CutProperties ==
  ASSUME NEW all \in Seq(Entry), Descending(all), all # << >>
  PROVE  LET left == cutToSize(DLQSize, all)
         IN  /\ left \in Seq(Entry)
             /\ Len(left) \in Nat /\ Len(left) <= DLQSize /\ Len(left) <= Len(all)
             /\ Len(left) > 0
             /\ Len(all) >= DLQSize => Len(left) = DLQSize
             /\ \A i \in 1..Len(left) : left[i] = all[i]
             /\ Descending(left)
             /\ \A g \in BOOLEAN : NumbersOf(left, g) \subseteq NumbersOf(all, g)
             /\ \A n \in AllNumbers(all) \ AllNumbers(left) :
                  Len(left) = DLQSize /\ n < left[Len(left)].nr
<1> DEFINE m == IF Len(all) <= DLQSize THEN Len(all) ELSE DLQSize
           left == cutToSize(DLQSize, all)
<1>1. left = SubSeq(all, 1, m)
  BY DEF cutToSize
<1>2. /\ m \in 1..Len(all) /\ m <= DLQSize /\ m \in Nat
      /\ Len(all) >= DLQSize => m = DLQSize
      /\ DOMAIN all = 1..Len(all) /\ Len(all) \in Nat
      /\ Len(all) > m => m = DLQSize
  BY DLQSizeAssumption
<1> HIDE DEF m, left
<1>3. left \in Seq(Entry) /\ Len(left) = m /\ \A i \in 1..m : left[i] = all[i]
  BY <1>1, <1>2
<1>4. DOMAIN left = 1..m
  BY <1>2, <1>3
<1>5. Descending(left)
  <2> SUFFICES ASSUME NEW i \in DOMAIN left, NEW j \in DOMAIN left, i < j
               PROVE  left[i].nr > left[j].nr
    BY DEF Descending
  <2>1. i \in DOMAIN all /\ j \in DOMAIN all /\ left[i] = all[i] /\ left[j] = all[j]
    BY <1>2, <1>3, <1>4
  <2> QED
    BY <2>1, DescendingAt
<1>6. ASSUME NEW g \in BOOLEAN, NEW x \in NumbersOf(left, g)
      PROVE  x \in NumbersOf(all, g)
  <2>1. PICK i \in DOMAIN left : x = left[i].nr /\ left[i].gap = g
    BY DEF NumbersOf
  <2>2. i \in DOMAIN all /\ left[i] = all[i]
    BY <1>2, <1>3, <1>4
  <2> QED
    BY <2>1, <2>2 DEF NumbersOf
<1>7. ASSUME NEW x \in AllNumbers(all) \ AllNumbers(left)
      PROVE  m = DLQSize /\ x < left[m].nr
  <2>1. PICK i \in DOMAIN all : x = all[i].nr
    BY AllNumbersAre
  <2>2. i \notin DOMAIN left
    <3>1. ASSUME i \in DOMAIN left
          PROVE  x \in AllNumbers(left)
      <4>1. left[i] = all[i]
        BY <3>1, <1>3, <1>4
      <4> QED
        BY <4>1, <3>1, <2>1, <1>3, AllNumbersAre
    <3> QED
      BY <3>1
  <2>3. m < i
    BY <2>2, <1>2, <1>4
  <2>4. m \in DOMAIN all /\ all[m] = left[m]
    BY <1>2, <1>3
  <2>5. all[m].nr > all[i].nr
    BY <2>3, <2>4, DescendingAt
  <2>6. all[m].nr \in Nat /\ all[i].nr \in Nat
    BY <2>4, AllNumbersAre
  <2>7. m = DLQSize
    BY <2>3, <1>2
  <2> QED
    BY <2>1, <2>4, <2>5, <2>6, <2>7
<1> QED
  BY <1>2, <1>3, <1>5, <1>6, <1>7 DEF left

(***************************************************************************)
(* Each entry that tryToAppend stores has the number before the next one's. *)
(***************************************************************************)
LEMMA StoredNumbers ==
  ASSUME NEW list \in Seq(Nat), NEW e \in Nat \ {0},
         NEW entry \in Entry, entry.nr = e - 1
  PROVE  LET new == Run(e, list) \o <<entry>>
         IN  /\ Len(new) = RunLength(e, list) + 1
             /\ \A i \in DOMAIN new : new[i].nr = e + RunLength(e, list) - i
             /\ Descending(new)
<1> DEFINE k == RunLength(e, list)
           run == Run(e, list)
           new == run \o <<entry>>
<1>1. k \in Nat
  BY RunLengthProperties
<1>2. run \in Seq(Entry) /\ Len(run) = k
  BY RunElements
<1>3. \A i \in 1..k : run[i] = Message(e + k - i)
  BY RunElements
<1> HIDE DEF k, run
<1>4. /\ Len(new) = k + 1 /\ DOMAIN new = 1..k + 1
      /\ new[k + 1] = entry
      /\ \A i \in 1..k : new[i] = run[i]
  BY <1>1, <1>2
<1> HIDE DEF new
<1>5. ASSUME NEW i \in DOMAIN new
      PROVE  new[i].nr = e + k - i
  <2>1. CASE i = k + 1
    BY <2>1, <1>1, <1>4
  <2>2. CASE i # k + 1
    <3>1. i \in 1..k
      BY <2>2, <1>1, <1>4
    <3>2. new[i] = Message(e + k - i)
      BY <3>1, <1>3, <1>4
    <3> QED
      BY <3>2 DEF Message
  <2> QED
    BY <2>1, <2>2
<1>6. Descending(new)
  <2> SUFFICES ASSUME NEW i \in DOMAIN new, NEW j \in DOMAIN new, i < j
               PROVE  new[i].nr > new[j].nr
    BY DEF Descending
  <2>1. i \in Int /\ j \in Int
    BY <1>4
  <2> QED
    BY <2>1, <1>1, <1>5
<1> QED
  BY <1>4, <1>5, <1>6 DEF k, run, new

(***************************************************************************)
(* An ascending list has as many numbers as elements.                      *)
(***************************************************************************)
LEMMA ElementsCardinality ==
  ASSUME NEW list \in Seq(Nat), Ascending(list)
  PROVE  Cardinality(Elements(list)) = Len(list)
<1> DEFINE S == 1..Len(list)
           f == [i \in S |-> list[i]]
<1>1. Len(list) \in Nat /\ DOMAIN list = S
  OBVIOUS
<1>2. f \in [S -> Elements(list)]
  BY <1>1 DEF Elements
<1>3. ASSUME NEW i \in S, NEW j \in S, f[i] = f[j]
      PROVE  i = j
  <2>1. i \in Int /\ j \in Int /\ list[i] \in Nat /\ list[j] \in Nat /\ list[i] = list[j]
    BY <1>1, <1>3
  <2>2. ~ (i < j)
    BY <2>1, <1>1, AscendingAt
  <2>3. ~ (j < i)
    BY <2>1, <1>1, AscendingAt
  <2> QED
    BY <2>1, <2>2, <2>3
<1>4. ASSUME NEW x \in Elements(list)
      PROVE  \E i \in S : f[i] = x
  BY <1>1 DEF Elements
<1> HIDE DEF f
<1>5. f \in Bijection(S, Elements(list))
  BY <1>2, <1>3, <1>4 DEF Bijection, Injection, Surjection, IsInjective
<1>6. ExistsBijection(S, Elements(list))
  BY <1>5 DEF ExistsBijection
<1>7. IsFiniteSet(S) /\ Cardinality(S) = Len(list)
  BY <1>1, FS_Interval
<1> QED
  BY <1>6, <1>7, FS_Bijection

(***************************************************************************)
(* The answer to a reader: found in a descending queue, the entry asked    *)
(* for is the only one of its number, and the walk that finds none ends at *)
(* the least number.                                                       *)
(***************************************************************************)
LEMMA AnswerOf ==
  ASSUME NEW queue \in Seq(Entry), Descending(queue), NEW n \in Nat
  PROVE  LET answer == deliverMSG(n, queue)
             stored == AllNumbers(queue)
         IN  /\ n \in stored => answer.nr = n
             /\ n >= expectedNr(queue) => answer = Dummy
             /\ (\A m \in stored : n < m) /\ stored # {} => answer.nr = Min(stored)
             /\ answer.nr # 0 => (answer.terminiert <=> answer.nr = expectedNr(queue) - 1)
<1> DEFINE answer == deliverMSG(n, queue)
           stored == AllNumbers(queue)
<1>1. /\ stored = {queue[i].nr : i \in DOMAIN queue}
      /\ \A i \in DOMAIN queue : queue[i].nr \in Nat
  BY AllNumbersAre
<1>2. DOMAIN queue = 1..Len(queue) /\ Len(queue) \in Nat
  OBVIOUS
<1>3. queue # << >> => Len(queue) >= 1 /\ expectedNr(queue) = queue[1].nr + 1 /\ queue[1].nr \in Nat
  BY <1>1, <1>2 DEF expectedNr
<1>4. \A i, j \in 1..Len(queue) : i < j => queue[i].nr > queue[j].nr
  BY <1>2 DEF Descending
<1> HIDE DEF stored
<1>5. CASE queue = << >>
  <2>1. answer = Dummy /\ stored = {}
    BY <1>1, <1>5 DEF deliverMSG
  <2> QED
    BY <2>1 DEF Dummy, stored
<1>6. CASE queue # << >> /\ n >= expectedNr(queue)
  <2>1. answer = Dummy
    BY <1>6 DEF deliverMSG
  <2>2. queue[1].nr \in stored /\ queue[1].nr \in Nat /\ n >= queue[1].nr + 1
    BY <1>1, <1>2, <1>3, <1>6
  <2>3. n \notin stored
    <3> SUFFICES ASSUME NEW k \in 1..Len(queue), queue[k].nr = n
                 PROVE  FALSE
      BY <1>1, <1>2
    <3>1. k = 1 \/ queue[1].nr > queue[k].nr
      BY <1>2, <1>4
    <3> QED
      BY <1>1, <1>2, <2>2, <3>1
  <2>4. ~ (n < queue[1].nr)
    BY <2>2
  <2> HIDE DEF answer
  <2> QED
    BY <2>1, <2>2, <2>3, <2>4 DEF Dummy, answer, stored
<1>7. CASE queue # << >> /\ ~ (n >= expectedNr(queue))
  <2> DEFINE last == Len(queue)
             S == {j \in DOMAIN queue : queue[j].nr = n} \cup {last}
             i == Min(S)
  <2>1. answer = [nr |-> queue[i].nr, terminiert |-> i = 1]
    BY <1>7 DEF deliverMSG
  <2>2. last \in 1..last /\ last \in Nat
    BY <1>2, <1>3, <1>7
  <2>3. S \in SUBSET Nat /\ S # {} /\ S \subseteq 1..last
    BY <1>2, <2>2
  <2>4. i \in S /\ \A x \in S : i <= x
    <3> HIDE DEF S
    <3> QED
      BY <2>3, MinLeast
  <2>5. i \in 1..last /\ (queue[i].nr = n \/ i = last)
    BY <2>3, <2>4
  <2>6. \A j \in 1..last : queue[j].nr = n => i <= j
    BY <1>2, <2>4
  <2> HIDE DEF i, S
  <2>7. n \in stored => queue[i].nr = n
    <3> SUFFICES ASSUME NEW j \in 1..last, queue[j].nr = n
                 PROVE  queue[i].nr = n
      BY <1>1, <1>2
    <3>1. i = last => j = i
      BY <2>2, <2>6
    <3> QED
      BY <2>5, <3>1
  <2>8. (\A m \in stored : n < m) => queue[i].nr = Min(stored)
    <3> SUFFICES ASSUME \A m \in stored : n < m
                 PROVE  queue[i].nr = Min(stored)
      OBVIOUS
    <3>1. i = last
      <4>1. queue[i].nr \in stored /\ queue[i].nr \in Nat
        BY <1>1, <1>2, <2>5
      <4> QED
        BY <2>5, <4>1
    <3>2. stored \in SUBSET Nat /\ queue[last].nr \in stored
      BY <1>1, <1>2, <2>2
    <3>3. Min(stored) \in stored /\ Min(stored) <= queue[last].nr
      BY <3>2, MinLeast
    <3>4. PICK k \in 1..last : Min(stored) = queue[k].nr
      BY <1>1, <1>2, <3>3
    <3>5. k = last \/ queue[k].nr > queue[last].nr
      BY <1>4, <2>2
    <3>6. queue[k].nr \in Nat /\ queue[last].nr \in Nat
      BY <1>1, <1>2, <2>2
    <3> QED
      BY <3>1, <3>3, <3>4, <3>5, <3>6
  <2>9. i = 1 <=> queue[i].nr = expectedNr(queue) - 1
    <3>1. i = 1 \/ queue[1].nr > queue[i].nr
      BY <1>4, <2>2, <2>5
    <3>2. queue[1].nr \in Nat /\ queue[i].nr \in Nat /\ expectedNr(queue) = queue[1].nr + 1
      BY <1>1, <1>2, <1>3, <1>7, <2>5
    <3> QED
      BY <3>1, <3>2
  <2>10. answer.nr = queue[i].nr /\ answer.terminiert = (i = 1)
    BY <2>1
  <2> HIDE DEF answer
  <2> QED
    BY <1>7, <2>7, <2>8, <2>9, <2>10 DEF answer, stored
<1> QED
  BY <1>5, <1>6, <1>7

-----------------------------------------------------------------------------
(***************************************************************************)
(* Induction on the natural numbers, and sequences taken apart at their    *)
(* head.                                                                   *)
(***************************************************************************)
LEMMA Induction ==
  ASSUME NEW S, 0 \in S, \A k \in Nat : k \in S => k + 1 \in S
  PROVE  Nat \subseteq S
<1> SUFFICES ASSUME Nat \ S # {}
             PROVE  FALSE
  OBVIOUS
<1>1. PICK x \in Nat \ S : \A y \in Nat \ S : x <= y
  <2>1. Nat \ S \in SUBSET Nat
    OBVIOUS
  <2> QED
    BY <2>1, MinLeast
<1>2. x \in Nat /\ x # 0
  OBVIOUS
<1>3. x - 1 \in Nat /\ ~ (x <= x - 1) /\ (x - 1) + 1 = x
  BY <1>2
<1>4. x - 1 \in S
  BY <1>1, <1>3
<1> QED
  BY <1>3, <1>4

LEMMA SameSequence ==
  ASSUME NEW T, NEW a \in Seq(T), NEW b \in Seq(T), Len(a) = Len(b),
         \A i \in 1 .. Len(a) : a[i] = b[i]
  PROVE  a = b
OBVIOUS

LEMMA ConsIs ==
  ASSUME NEW T, NEW c \in Seq(T), NEW h \in T, NEW d \in Seq(T),
         Len(c) = Len(d) + 1, c[1] = h, \A i \in 1 .. Len(d) : c[i + 1] = d[i]
  PROVE  c = <<h>> \o d
<1> DEFINE r == <<h>> \o d
<1>1. /\ r \in Seq(T) /\ Len(r) = 1 + Len(d) /\ r[1] = h
      /\ \A i \in 2 .. 1 + Len(d) : r[i] = d[i - 1]
  OBVIOUS
<1> HIDE DEF r
<1>2. ASSUME NEW i \in 1 .. Len(c)
      PROVE  r[i] = c[i]
  <2>1. CASE i = 1
    BY <1>1, <2>1
  <2>2. CASE i # 1
    <3>1. Len(d) \in Nat
      OBVIOUS
    <3>2. i \in 2 .. 1 + Len(d) /\ i - 1 \in 1 .. Len(d) /\ (i - 1) + 1 = i
      BY <2>2, <3>1
    <3>3. c[(i - 1) + 1] = d[i - 1]
      BY <3>2
    <3> QED
      BY <1>1, <3>2, <3>3
  <2> QED
    BY <2>1, <2>2
<1>3. Len(r) = Len(c)
  BY <1>1
<1>4. r = c
  BY <1>1, <1>2, <1>3
<1> QED
  BY <1>4 DEF r

LEMMA TailElements ==
  ASSUME NEW T, NEW l \in Seq(T), l # << >>
  PROVE  /\ Tail(l) \in Seq(T) /\ Len(Tail(l)) = Len(l) - 1 /\ Head(l) \in T /\ Head(l) = l[1]
         /\ \A i \in 1 .. Len(l) - 1 : Tail(l)[i] = l[i + 1]
         /\ Len(l) \in Nat /\ Len(l) >= 1
OBVIOUS

-----------------------------------------------------------------------------
(***************************************************************************)
(* The clauses of the recursive functions, stated of the closed forms. A   *)
(* cut leaves the head and a shorter cut of the rest, and what is pushed   *)
(* on a cut before the next one makes no difference.                       *)
(***************************************************************************)
LEMMA CutElements ==
  ASSUME NEW T, NEW q \in Seq(T), NEW n \in Nat
  PROVE  /\ cutToSize(n, q) \in Seq(T)
         /\ Len(cutToSize(n, q)) = IF Len(q) <= n THEN Len(q) ELSE n
         /\ \A i \in 1 .. Len(cutToSize(n, q)) : cutToSize(n, q)[i] = q[i]
BY DEF cutToSize

LEMMA CutStep ==
  ASSUME NEW T, NEW q \in Seq(T), NEW n \in Nat
  PROVE  /\ n = 0 \/ q = << >> => cutToSize(n, q) = << >>
         /\ n # 0 /\ q # << >> => cutToSize(n, q) = <<Head(q)>> \o cutToSize(n - 1, Tail(q))
<1> DEFINE c == cutToSize(n, q)
           len == IF Len(q) <= n THEN Len(q) ELSE n
<1>1. c \in Seq(T) /\ Len(c) = len /\ \A i \in 1 .. len : c[i] = q[i]
  BY DEF cutToSize
<1>2. CASE n = 0 \/ q = << >>
  <2>1. Len(c) = 0
    BY <1>1, <1>2
  <2> QED
    BY <1>1, <1>2, <2>1
<1>3. CASE n # 0 /\ q # << >>
  <2> DEFINE d == cutToSize(n - 1, Tail(q))
             r == <<Head(q)>> \o d
  <2>1. /\ Tail(q) \in Seq(T) /\ Len(Tail(q)) = Len(q) - 1 /\ n - 1 \in Nat /\ Head(q) \in T
        /\ \A i \in 1 .. Len(q) - 1 : Tail(q)[i] = q[i + 1]
        /\ Head(q) = q[1] /\ Len(q) \in Nat /\ Len(q) >= 1
    BY <1>3
  <2>2. d \in Seq(T) /\ Len(d) = len - 1 /\ \A i \in 1 .. len - 1 : d[i] = q[i + 1]
    <3> DEFINE t == Tail(q)
               m == IF Len(t) <= n - 1 THEN Len(t) ELSE n - 1
    <3>1. t \in Seq(T) /\ n - 1 \in Nat
      BY <2>1
    <3> HIDE DEF t
    <3>2. d \in Seq(T) /\ Len(d) = m /\ \A i \in 1 .. m : d[i] = t[i]
      BY <3>1 DEF cutToSize, t
    <3>3. m = len - 1 /\ m <= Len(q) - 1
      BY <1>3, <2>1 DEF t
    <3> HIDE DEF m, d, len
    <3> QED
      BY <2>1, <3>2, <3>3 DEF t
  <2> HIDE DEF d
  <2>3. /\ r \in Seq(T) /\ Len(r) = 1 + Len(d) /\ r[1] = Head(q)
        /\ \A i \in 2 .. 1 + Len(d) : r[i] = d[i - 1]
    BY <2>1, <2>2
  <2> HIDE DEF r
  <2>4. len \in Nat /\ len >= 1
    BY <1>3, <2>1
  <2> HIDE DEF c, len
  <2>5. Len(r) = Len(c) /\ Len(r) = len
    BY <1>1, <2>2, <2>3, <2>4
  <2>6. ASSUME NEW i \in 1 .. len
        PROVE  r[i] = c[i]
    <3>1. CASE i = 1
      BY <1>1, <2>1, <2>3, <2>4, <3>1
    <3>2. CASE i # 1
      <4>1. i \in 2 .. 1 + Len(d) /\ i - 1 \in 1 .. len - 1 /\ (i - 1) + 1 = i
        BY <2>2, <2>4, <3>2
      <4>2. r[i] = d[i - 1]
        BY <2>3, <4>1
      <4>3. d[i - 1] = q[i]
        BY <2>2, <4>1
      <4> QED
        BY <1>1, <4>2, <4>3
    <3> QED
      BY <3>1, <3>2
  <2>7. r = c
    BY <1>1, <2>3, <2>5, <2>6
  <2> QED
    BY <1>3, <2>7 DEF r, c, d
<1> QED
  BY <1>2, <1>3

LEMMA CutTwice ==
  ASSUME NEW T, NEW a \in Seq(T), NEW b \in Seq(T), NEW n \in Nat
  PROVE  cutToSize(n, a \o cutToSize(n, b)) = cutToSize(n, a \o b)
<1> DEFINE d == cutToSize(n, b)
           ab == a \o b
           ad == a \o d
           c == cutToSize(n, ab)
           e == cutToSize(n, ad)
<1>1. /\ d \in Seq(T) /\ Len(d) = IF Len(b) <= n THEN Len(b) ELSE n
      /\ \A i \in 1 .. Len(d) : d[i] = b[i]
  BY CutElements
<1> HIDE DEF d
<1>2. /\ ab \in Seq(T) /\ Len(ab) = Len(a) + Len(b)
      /\ \A i \in 1 .. Len(a) : ab[i] = a[i]
      /\ \A i \in Len(a) + 1 .. Len(a) + Len(b) : ab[i] = b[i - Len(a)]
  OBVIOUS
<1>3. /\ ad \in Seq(T) /\ Len(ad) = Len(a) + Len(d)
      /\ \A i \in 1 .. Len(a) : ad[i] = a[i]
      /\ \A i \in Len(a) + 1 .. Len(a) + Len(d) : ad[i] = d[i - Len(a)]
  BY <1>1
<1> HIDE DEF ab, ad
<1>4. /\ c \in Seq(T) /\ Len(c) = IF Len(ab) <= n THEN Len(ab) ELSE n
      /\ \A i \in 1 .. Len(c) : c[i] = ab[i]
  BY <1>2, CutElements
<1>5. /\ e \in Seq(T) /\ Len(e) = IF Len(ad) <= n THEN Len(ad) ELSE n
      /\ \A i \in 1 .. Len(e) : e[i] = ad[i]
  BY <1>3, CutElements
<1> HIDE DEF c, e
<1>6. Len(a) \in Nat /\ Len(b) \in Nat /\ Len(d) \in Nat
  BY <1>1
<1>7. Len(c) = Len(e) /\ Len(c) \in Nat /\ Len(c) <= Len(a) + Len(d)
  BY <1>1, <1>2, <1>3, <1>4, <1>5, <1>6
<1>8. ASSUME NEW i \in 1 .. Len(c)
      PROVE  c[i] = e[i]
  <2>1. c[i] = ab[i] /\ e[i] = ad[i]
    BY <1>4, <1>5, <1>7
  <2>2. CASE i <= Len(a)
    <3>1. i \in 1 .. Len(a)
      BY <1>6, <1>7, <2>2
    <3> QED
      BY <1>2, <1>3, <2>1, <3>1
  <2>3. CASE i > Len(a)
    <3>1. /\ i \in Len(a) + 1 .. Len(a) + Len(d) /\ i - Len(a) \in 1 .. Len(d)
          /\ i \in Len(a) + 1 .. Len(a) + Len(b)
      BY <1>1, <1>6, <1>7, <2>3
    <3>2. ab[i] = b[i - Len(a)] /\ ad[i] = d[i - Len(a)]
      BY <1>2, <1>3, <3>1
    <3>3. d[i - Len(a)] = b[i - Len(a)]
      BY <1>1, <3>1
    <3> QED
      BY <2>1, <3>2, <3>3
  <2> QED
    BY <1>6, <1>7, <2>2, <2>3
<1>9. c = e
  BY <1>4, <1>5, <1>7, <1>8
<1> QED
  BY <1>9 DEF c, e, ab, ad, d

(***************************************************************************)
(* A number goes in front of a greater head, else behind the head into the *)
(* rest.                                                                   *)
(***************************************************************************)
LEMMA FirstAboveIs ==
  ASSUME NEW list \in Seq(Nat), NEW n \in Nat, NEW p \in 1 .. Len(list) + 1,
         \A i \in 1 .. p - 1 : list[i] <= n, p <= Len(list) => list[p] > n
  PROVE  FirstAbove(list, n) = p
<1> DEFINE f == FirstAbove(list, n)
<1>1. /\ f \in 1 .. Len(list) + 1
      /\ \A i \in 1 .. f - 1 : list[i] <= n
      /\ f <= Len(list) => list[f] > n
  BY FirstAboveProperties
<1> HIDE DEF f
<1>2. \A i \in 1 .. Len(list) : list[i] \in Nat
  OBVIOUS
<1>3. ~ (f < p)
  <2> SUFFICES ASSUME f < p
               PROVE  FALSE
    OBVIOUS
  <2>1. f \in 1 .. p - 1 /\ f <= Len(list) /\ f \in 1 .. Len(list)
    BY <1>1
  <2>2. list[f] <= n /\ list[f] > n /\ list[f] \in Nat
    BY <1>1, <1>2, <2>1
  <2> QED
    BY <2>2
<1>4. ~ (p < f)
  <2> SUFFICES ASSUME p < f
               PROVE  FALSE
    OBVIOUS
  <2>1. p \in 1 .. f - 1 /\ p <= Len(list) /\ p \in 1 .. Len(list)
    BY <1>1
  <2>2. list[p] <= n /\ list[p] > n /\ list[p] \in Nat
    BY <1>1, <1>2, <2>1
  <2> QED
    BY <2>2
<1>5. f = p
  BY <1>1, <1>3, <1>4
<1> QED
  BY <1>5 DEF f

LEMMA InsertElements ==
  ASSUME NEW list \in Seq(Nat), NEW n \in Nat
  PROVE  /\ pushToHBQ(list, n) \in Seq(Nat)
         /\ Len(pushToHBQ(list, n)) = Len(list) + 1
         /\ \A i \in 1 .. Len(list) + 1 :
              pushToHBQ(list, n)[i] =
                IF i < FirstAbove(list, n) THEN list[i]
                ELSE IF i = FirstAbove(list, n) THEN n ELSE list[i - 1]
<1> DEFINE p == FirstAbove(list, n)
           r == pushToHBQ(list, n)
<1>1. p \in 1 .. Len(list) + 1
  BY FirstAboveProperties
<1>2. r = [i \in 1 .. Len(list) + 1 |->
             IF i < p THEN list[i] ELSE IF i = p THEN n ELSE list[i - 1]]
  BY DEF pushToHBQ
<1> HIDE DEF p, r
<1>3. r \in [1 .. Len(list) + 1 -> Nat]
  BY <1>1, <1>2
<1>4. r \in Seq(Nat) /\ Len(r) = Len(list) + 1
  BY <1>3
<1> QED
  BY <1>2, <1>4 DEF p, r

LEMMA InsertStep ==
  ASSUME NEW l \in Seq(Nat), NEW n \in Nat
  PROVE  pushToHBQ(l, n) = IF l = << >> THEN <<n>>
                           ELSE IF Head(l) > n THEN <<n>> \o l
                           ELSE <<Head(l)>> \o pushToHBQ(Tail(l), n)
<1> DEFINE c == pushToHBQ(l, n)
           p == FirstAbove(l, n)
<1>1. /\ c \in Seq(Nat) /\ Len(c) = Len(l) + 1
      /\ \A i \in 1 .. Len(l) + 1 :
           c[i] = IF i < p THEN l[i] ELSE IF i = p THEN n ELSE l[i - 1]
  BY InsertElements
<1>2. Len(l) \in Nat
  OBVIOUS
<1>3. p \in 1 .. Len(l) + 1
  BY FirstAboveProperties
<1> HIDE DEF c
<1>4. CASE l = << >>
  <2>1. p = 1 /\ Len(l) = 0
    BY <1>3, <1>4
  <2>2. Len(c) = 1 /\ c[1] = n
    BY <1>1, <2>1
  <2>3. c = <<n>>
    BY <1>1, <2>2
  <2> QED
    BY <1>4, <2>3 DEF c
<1>5. CASE l # << >> /\ Head(l) > n
  <2>1. p = 1
    <3>1. 1 \in 1 .. Len(l) + 1 /\ l[1] > n
      BY <1>2, <1>5
    <3>2. \A i \in 1 .. 1 - 1 : l[i] <= n
      OBVIOUS
    <3> QED
      BY <3>1, <3>2, FirstAboveIs
  <2>2. c[1] = n
    BY <1>1, <1>2, <2>1
  <2>3. \A i \in 1 .. Len(l) : c[i + 1] = l[i]
    BY <1>1, <1>2, <2>1
  <2>4. c = <<n>> \o l
    BY <1>1, <2>2, <2>3, ConsIs
  <2> QED
    BY <1>5, <2>4 DEF c
<1>6. CASE l # << >> /\ ~ (Head(l) > n)
  <2> DEFINE t == Tail(l)
             d == pushToHBQ(t, n)
             f == FirstAbove(t, n)
  <2>1. /\ t \in Seq(Nat) /\ Len(t) = Len(l) - 1 /\ Head(l) \in Nat /\ Head(l) = l[1]
        /\ \A i \in 1 .. Len(l) - 1 : t[i] = l[i + 1]
        /\ Len(l) >= 1
    BY <1>6, TailElements
  <2> HIDE DEF t
  <2>2. /\ d \in Seq(Nat) /\ Len(d) = Len(t) + 1
        /\ \A i \in 1 .. Len(t) + 1 :
             d[i] = IF i < f THEN t[i] ELSE IF i = f THEN n ELSE t[i - 1]
    BY <2>1, InsertElements
  <2>3. /\ f \in 1 .. Len(t) + 1
        /\ \A i \in 1 .. f - 1 : t[i] <= n
        /\ f <= Len(t) => t[f] > n
    BY <2>1, FirstAboveProperties
  <2> HIDE DEF d, f
  <2>4. p = f + 1
    <3>1. f + 1 \in 1 .. Len(l) + 1
      BY <1>2, <2>1, <2>3
    <3>2. ASSUME NEW i \in 1 .. (f + 1) - 1
          PROVE  l[i] <= n
      <4>1. CASE i = 1
        BY <1>6, <2>1, <4>1
      <4>2. CASE i # 1
        <5>1. i - 1 \in 1 .. f - 1 /\ i - 1 \in 1 .. Len(l) - 1 /\ (i - 1) + 1 = i
          BY <1>2, <2>1, <2>3, <4>2
        <5> QED
          BY <2>1, <2>3, <5>1
      <4> QED
        BY <4>1, <4>2
    <3>3. ASSUME f + 1 <= Len(l)
          PROVE  l[f + 1] > n
      <4>1. f <= Len(t) /\ f \in 1 .. Len(l) - 1
        BY <1>2, <2>1, <2>3, <3>3
      <4> QED
        BY <2>1, <2>3, <4>1
    <3> QED
      BY <3>1, <3>2, <3>3, FirstAboveIs
  <2>5. c[1] = Head(l)
    <3>1. 1 \in 1 .. Len(l) + 1 /\ 1 < p
      BY <1>2, <2>3, <2>4
    <3> QED
      BY <1>1, <2>1, <3>1
  <2>6. ASSUME NEW i \in 1 .. Len(d)
        PROVE  c[i + 1] = d[i]
    <3>1. i \in 1 .. Len(t) + 1 /\ i + 1 \in 1 .. Len(l) + 1 /\ f \in Nat /\ i \in Nat
      BY <1>2, <2>1, <2>2, <2>3
    <3>2. CASE i < f
      <4>1. i + 1 < p /\ i \in 1 .. Len(l) - 1
        BY <1>2, <2>1, <2>3, <2>4, <3>1, <3>2
      <4> QED
        BY <1>1, <2>1, <2>2, <3>1, <3>2, <4>1
    <3>3. CASE i = f
      <4>1. i + 1 = p
        BY <2>4, <3>3
      <4>2. c[i + 1] = n
        BY <1>1, <1>3, <3>1, <4>1
      <4>3. d[i] = n
        BY <2>2, <3>1, <3>3
      <4> QED
        BY <4>2, <4>3
    <3>4. CASE i > f
      <4>1. i + 1 > p /\ i - 1 \in 1 .. Len(l) - 1 /\ (i - 1) + 1 = i /\ (i + 1) - 1 = i
        BY <1>2, <2>1, <2>3, <2>4, <3>1, <3>4
      <4>2. c[i + 1] = l[i]
        <5>1. ~ (i + 1 < p) /\ i + 1 # p
          BY <1>3, <3>1, <4>1
        <5>2. c[i + 1] = l[(i + 1) - 1]
          BY <1>1, <3>1, <5>1
        <5> QED
          BY <4>1, <5>2
      <4>3. d[i] = t[i - 1]
        BY <2>2, <3>1, <3>4
      <4>4. t[i - 1] = l[(i - 1) + 1]
        BY <2>1, <4>1
      <4> QED
        BY <4>1, <4>2, <4>3, <4>4
    <3> QED
      BY <3>1, <3>2, <3>3, <3>4
  <2>7. Len(c) = Len(d) + 1
    BY <1>1, <1>2, <2>1, <2>2
  <2>8. c = <<Head(l)>> \o d
    BY <1>1, <2>1, <2>2, <2>5, <2>6, <2>7, ConsIs
  <2> QED
    BY <1>6, <2>8 DEF c, d, t
<1> QED
  BY <1>4, <1>5, <1>6

(***************************************************************************)
(* A run that begins with the head goes on in the rest.                    *)
(***************************************************************************)
LEMMA RunLengthIs ==
  ASSUME NEW list \in Seq(Nat), NEW e \in Nat, NEW k \in 0 .. Len(list),
         \A i \in 1 .. k : list[i] = e + i - 1, k < Len(list) => list[k + 1] # e + k
  PROVE  RunLength(e, list) = k
<1> DEFINE f == RunLength(e, list)
<1>1. /\ f \in 0 .. Len(list)
      /\ \A i \in 1 .. f : list[i] = e + i - 1
      /\ f < Len(list) => list[f + 1] # e + f
  BY RunLengthProperties
<1> HIDE DEF f
<1>2. ~ (f < k)
  <2> SUFFICES ASSUME f < k
               PROVE  FALSE
    OBVIOUS
  <2>1. f + 1 \in 1 .. k /\ f < Len(list) /\ e + (f + 1) - 1 = e + f
    BY <1>1
  <2> QED
    BY <1>1, <2>1
<1>3. ~ (k < f)
  <2> SUFFICES ASSUME k < f
               PROVE  FALSE
    OBVIOUS
  <2>1. k + 1 \in 1 .. f /\ k < Len(list) /\ e + (k + 1) - 1 = e + k
    BY <1>1
  <2> QED
    BY <1>1, <2>1
<1>4. f = k
  BY <1>1, <1>2, <1>3
<1> QED
  BY <1>4 DEF f

LEMMA RunStep ==
  ASSUME NEW l \in Seq(Nat), NEW e \in Nat \ {0}, l # << >>, Head(l) = e
  PROVE  /\ Tail(l) \in Seq(Nat)
         /\ RunLength(e, l) = RunLength(e + 1, Tail(l)) + 1
         /\ Run(e, l) = Run(e + 1, Tail(l)) \o <<Message(e)>>
         /\ Rest(e, l) = Rest(e + 1, Tail(l))
<1> DEFINE t == Tail(l)
           f == RunLength(e + 1, t)
<1>1. /\ t \in Seq(Nat) /\ Len(t) = Len(l) - 1 /\ Head(l) = l[1]
      /\ \A i \in 1 .. Len(l) - 1 : t[i] = l[i + 1]
      /\ Len(l) \in Nat /\ Len(l) >= 1
  BY TailElements
<1>2. e + 1 \in Nat \ {0}
  OBVIOUS
<1> HIDE DEF t
<1>3. /\ f \in 0 .. Len(t)
      /\ \A i \in 1 .. f : t[i] = (e + 1) + i - 1
      /\ f < Len(t) => t[f + 1] # (e + 1) + f
  BY <1>1, <1>2, RunLengthProperties
<1> HIDE DEF f
<1>4. RunLength(e, l) = f + 1
  <2>1. f + 1 \in 0 .. Len(l)
    BY <1>1, <1>3
  <2>2. ASSUME NEW i \in 1 .. f + 1
        PROVE  l[i] = e + i - 1
    <3>1. CASE i = 1
      BY <1>1, <3>1
    <3>2. CASE i # 1
      <4>1. i - 1 \in 1 .. f /\ i - 1 \in 1 .. Len(l) - 1 /\ (i - 1) + 1 = i
            /\ (e + 1) + (i - 1) - 1 = e + i - 1
        BY <1>1, <1>3, <3>2
      <4>2. t[i - 1] = l[(i - 1) + 1] /\ t[i - 1] = (e + 1) + (i - 1) - 1
        BY <1>1, <1>3, <4>1
      <4> QED
        BY <4>1, <4>2
    <3> QED
      BY <3>1, <3>2
  <2>3. ASSUME f + 1 < Len(l)
        PROVE  l[(f + 1) + 1] # e + (f + 1)
    <3>1. f < Len(t) /\ f + 1 \in 1 .. Len(l) - 1 /\ (e + 1) + f = e + (f + 1)
      BY <1>1, <1>3, <2>3
    <3> QED
      BY <1>1, <1>3, <3>1
  <2> QED
    BY <2>1, <2>2, <2>3, RunLengthIs
<1>5. Run(e, l) = Run(e + 1, t) \o <<Message(e)>>
  <2> DEFINE r == Run(e, l)
             s == Run(e + 1, t)
             g == s \o <<Message(e)>>
  <2>1. /\ r \in Seq(Entry) /\ Len(r) = f + 1
        /\ \A i \in 1 .. f + 1 : r[i] = Message(e + (f + 1) - i)
    BY <1>4, RunElements
  <2>2. /\ s \in Seq(Entry) /\ Len(s) = f
        /\ \A i \in 1 .. f : s[i] = Message((e + 1) + f - i)
    BY <1>1, <1>2, RunElements DEF f
  <2>3. Message(e) \in Entry
    BY DEF Message, Entry
  <2> HIDE DEF r, s
  <2>4. /\ g \in Seq(Entry) /\ Len(g) = f + 1 /\ g[f + 1] = Message(e)
        /\ \A i \in 1 .. f : g[i] = s[i]
    BY <2>2, <2>3
  <2> HIDE DEF g
  <2>5. ASSUME NEW i \in 1 .. f + 1
        PROVE  r[i] = g[i]
    <3>1. CASE i = f + 1
      <4>1. e + (f + 1) - i = e
        BY <1>3, <3>1
      <4> QED
        BY <2>1, <2>4, <3>1, <4>1
    <3>2. CASE i # f + 1
      <4>1. i \in 1 .. f /\ e + (f + 1) - i = (e + 1) + f - i
        BY <1>3, <3>2
      <4> QED
        BY <2>1, <2>2, <2>4, <4>1
    <3> QED
      BY <3>1, <3>2
  <2>6. r = g
    BY <2>1, <2>4, <2>5
  <2> QED
    BY <2>6 DEF r, g, s
<1>6. Rest(e, l) = Rest(e + 1, t)
  <2> DEFINE r == Rest(e, l)
             s == Rest(e + 1, t)
  <2>1. /\ r \in Seq(Nat) /\ Len(r) = Len(l) - (f + 1)
        /\ \A i \in 1 .. Len(l) - (f + 1) : r[i] = l[(f + 1) + i]
    <3>1. /\ r \in Seq(Nat) /\ Len(r) = Len(l) - RunLength(e, l)
          /\ \A i \in 1 .. Len(l) - RunLength(e, l) : r[i] = l[RunLength(e, l) + i]
      BY RestElements
    <3> HIDE DEF r
    <3> QED
      BY <1>4, <3>1
  <2>2. /\ s \in Seq(Nat) /\ Len(s) = Len(t) - f
        /\ \A i \in 1 .. Len(t) - f : s[i] = t[f + i]
    BY <1>1, <1>2, RestElements DEF f
  <2> HIDE DEF r, s
  <2>3. Len(r) = Len(s)
    BY <1>1, <1>3, <2>1, <2>2
  <2>4. ASSUME NEW i \in 1 .. Len(r)
        PROVE  r[i] = s[i]
    <3>1. /\ i \in 1 .. Len(l) - (f + 1) /\ i \in 1 .. Len(t) - f /\ f + i \in 1 .. Len(l) - 1
          /\ (f + i) + 1 = (f + 1) + i
      BY <1>1, <1>3, <2>1
    <3>2. r[i] = l[(f + 1) + i] /\ s[i] = t[f + i] /\ t[f + i] = l[(f + i) + 1]
      BY <1>1, <2>1, <2>2, <3>1
    <3> QED
      BY <3>1, <3>2
  <2>5. r = s
    BY <2>1, <2>2, <2>3, <2>4, SameSequence
  <2> QED
    BY <2>5 DEF r, s
<1> QED
  BY <1>1, <1>4, <1>5, <1>6 DEF t, f

(***************************************************************************)
(* Where the walk of deliverMSG stops, and that only the head ends it at   *)
(* once.                                                                   *)
(***************************************************************************)
Stop(q, nr) == Min({j \in DOMAIN q : q[j].nr = nr} \cup {Len(q)})

LEMMA StopProperties ==
  ASSUME NEW q \in Seq(Entry), q # << >>, NEW nr \in Nat
  PROVE  /\ Stop(q, nr) \in 1 .. Len(q)
         /\ q[Stop(q, nr)].nr = nr \/ Stop(q, nr) = Len(q)
         /\ \A i \in 1 .. Stop(q, nr) - 1 : q[i].nr # nr
<1> DEFINE S == {j \in DOMAIN q : q[j].nr = nr} \cup {Len(q)}
           i == Stop(q, nr)
<1>1. Len(q) \in Nat /\ Len(q) >= 1 /\ DOMAIN q = 1 .. Len(q)
  OBVIOUS
<1>2. S \in SUBSET Nat /\ S # {} /\ S \subseteq 1 .. Len(q)
  BY <1>1
<1>3. i \in S /\ \A x \in S : i <= x
  <2>1. i = Min(S)
    BY DEF Stop
  <2> HIDE DEF S, i
  <2> QED
    BY <1>2, <2>1, MinLeast
<1> HIDE DEF i
<1>4. i \in 1 .. Len(q) /\ (q[i].nr = nr \/ i = Len(q))
  BY <1>2, <1>3
<1>5. ASSUME NEW k \in 1 .. i - 1
      PROVE  q[k].nr # nr
  <2>1. k \in 1 .. Len(q) /\ ~ (i <= k)
    BY <1>1, <1>4
  <2> QED
    BY <1>1, <1>3, <2>1
<1> QED
  BY <1>4, <1>5 DEF i

LEMMA StopIs ==
  ASSUME NEW q \in Seq(Entry), q # << >>, NEW nr \in Nat, NEW k \in 1 .. Len(q),
         q[k].nr = nr \/ k = Len(q), \A i \in 1 .. k - 1 : q[i].nr # nr
  PROVE  Stop(q, nr) = k
<1> DEFINE f == Stop(q, nr)
<1>1. /\ f \in 1 .. Len(q)
      /\ q[f].nr = nr \/ f = Len(q)
      /\ \A i \in 1 .. f - 1 : q[i].nr # nr
  BY StopProperties
<1> HIDE DEF f
<1>2. Len(q) \in Nat
  OBVIOUS
<1>3. ~ (f < k)
  <2> SUFFICES ASSUME f < k
               PROVE  FALSE
    OBVIOUS
  <2>1. f \in 1 .. k - 1 /\ f # Len(q)
    BY <1>1, <1>2
  <2> QED
    BY <1>1, <2>1
<1>4. ~ (k < f)
  <2> SUFFICES ASSUME k < f
               PROVE  FALSE
    OBVIOUS
  <2>1. k \in 1 .. f - 1 /\ k # Len(q)
    BY <1>1, <1>2
  <2> QED
    BY <1>1, <2>1
<1>5. f = k
  BY <1>1, <1>2, <1>3, <1>4
<1> QED
  BY <1>5 DEF f

=============================================================================
