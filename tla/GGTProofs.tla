----------------------------- MODULE GGTProofs -----------------------------
(***************************************************************************)
(* Proofs about the distributed gcd, for every set of processes, every     *)
(* draw of values, every order of messages, and any number of resets.      *)
(*                                                                         *)
(* Types and multiples are the same argument: the values belong to a set V *)
(* that has what calc starts with and that a reduction does not leave.     *)
(*                                                                         *)
(* On one node the messages come in order (OrderInv), and calculations     *)
(* that are started at rest keep the gcd, end where nothing is left to     *)
(* reduce, and end at multiples of the gcd wished for (CalcInv).           *)
(*                                                                         *)
(* In any order the end of a calculation is reported (VoteInv).            *)
(***************************************************************************)
EXTENDS GGT, FiniteSetTheorems, WellFoundedInduction, TLAPS

Reduces(V) ==
  /\ V \subseteq Nat \ {0}
  /\ \A m \in V, y \in V : calc(m, y) \in V

Closed(V) == Reduces(V) /\ \A w \in Wish, f \in Factor : w * f \in V

Carrying(V) == {m \in Messages : m.type \in {"setpm", "sendy"} => m.nr \in V}

Letter(V) == [to : Process, message : Carrying(V)]

CoordinatorOK(V) ==
  /\ phase \in {"init", "calc", "resetting", "down", "crashed"}
  /\ clientList \in Seq(Process) /\ IsInjective(clientList)
  /\ phase = "calc" => Len(clientList) >= 2
  /\ minMi \in V \cup {0}
  /\ outbox \in Seq(Letter(V))
  /\ wish \in Wish \cup {0} /\ calcs \in 0..MaxCalcs

HelloOK(V) ==
  /\ greetings \subseteq Process /\ briefs \subseteq V
  /\ greetings \cap Ring = {}
  /\ \A p \in greetings \cup Ring : state[p] # "new"

ProcessesOK(V) ==
  /\ state \in [Process -> {"new", "work", "dead", "crashed"}]
  /\ neighbors \in [Process -> Seq(Process)]
  /\ mi \in [Process -> V \cup {0}]
  /\ consense \in [Process -> BOOLEAN]
  /\ timers \in [Process -> Nat]
  /\ calculated \subseteq Process

MailboxOK(V) == mailbox \in [Process -> Seq(Carrying(V))]

Ballot(V) == [mi : V \cup {0}, needed : 0..Quota, asked : BOOLEAN]

VotesOK(V) == votes \in Seq(Ballot(V))

ValuesIn(V) ==
  CoordinatorOK(V) /\ HelloOK(V) /\ ProcessesOK(V) /\ MailboxOK(V) /\ VotesOK(V)

-----------------------------------------------------------------------------
(***************************************************************************)
(* Sequences and sets of numbers.                                          *)
(***************************************************************************)
LEMMA RemoveAtType ==
  ASSUME NEW S, NEW s \in Seq(S), NEW i \in DOMAIN s
  PROVE  RemoveAt(s, i) \in Seq(S)
<1>1. i \in 1..Len(s)
  OBVIOUS
<1>2. SubSeq(s, 1, i - 1) \in Seq(S) /\ SubSeq(s, i + 1, Len(s)) \in Seq(S)
  BY <1>1
<1> QED
  BY <1>2 DEF RemoveAt

LEMMA UpdateType ==
  ASSUME NEW S, NEW s \in Seq(S), NEW i \in DOMAIN s, NEW e \in S
  PROVE  [s EXCEPT ![i] = e] \in Seq(S)
OBVIOUS

LEMMA ConsElements ==
  ASSUME NEW S, NEW e \in S, NEW s \in Seq(S)
  PROVE  (<<e>> \o s)[1] = e /\ \A i \in 2..Len(s) + 1 : (<<e>> \o s)[i] = s[i - 1]
<1>1. <<e>> \in Seq(S) /\ Len(<<e>>) = 1 /\ <<e>>[1] = e /\ Len(s) \in Nat
  OBVIOUS
<1>2. ASSUME NEW t \in Seq(S), Len(t) = 1
      PROVE  (t \o s)[1] = t[1] /\ \A i \in 2..Len(s) + 1 : (t \o s)[i] = s[i - 1]
  <2>1. (t \o s)[1] = t[1]
    BY <1>1, <1>2
  <2>2. ASSUME NEW i \in 2..Len(s) + 1
        PROVE  (t \o s)[i] = s[i - 1]
    <3>1. i \in 1..Len(t) + Len(s) /\ ~ (i <= Len(t)) /\ i - Len(t) = i - 1
      BY <1>1, <1>2
    <3>2. i \in Int /\ Len(s) \in Nat /\ i \in 1..Len(t) + Len(s) /\ ~ (i <= Len(t))
      BY <1>1, <1>2, <3>1
    <3>3. (t \o s)[i] = s[i - Len(t)]
      BY <3>2
    <3> QED
      BY <3>1, <3>3
  <2> QED
    BY <2>1, <2>2
<1> QED
  BY <1>1, <1>2

LEMMA MinLeast ==
  ASSUME NEW S \in SUBSET Nat, S # {}
  PROVE  Min(S) \in S /\ \A x \in S : Min(S) <= x
<1> DEFINE R == OpToRel(<, Nat)
<1>0. \A x, y \in Nat : <<x, y>> \in R <=> x < y
  BY DEF OpToRel
<1>1. PICK x \in S : \A y \in S : ~ (<<y, x>> \in R)
  <2>1. IsWellFoundedOn(R, Nat)
    BY NatLessThanWellFounded
  <2> HIDE DEF R
  <2> QED
    BY <2>1, WFMin
<1>2. ASSUME NEW y \in S
      PROVE  x <= y
  <2> HIDE DEF R
  <2>1. x \in Nat /\ y \in Nat
    OBVIOUS
  <2>2. <<y, x>> \in R <=> y < x
    BY <1>0, <2>1
  <2>3. ~ (y < x)
    BY <1>1, <2>2
  <2> QED
    BY <2>1, <2>3
<1> QED
  BY <1>2 DEF Min

LEMMA MaxOfTwo ==
  ASSUME NEW a \in Int, NEW b \in Int
  PROVE  Max({a, b}) \in {a, b} /\ Max({a, b}) >= a /\ Max({a, b}) >= b
<1>1. \E x \in {a, b} : \A y \in {a, b} : x >= y
  OBVIOUS
<1> QED
  BY <1>1 DEF Max

LEMMA RingSize ==
  ASSUME NEW list \in Seq(Process), IsInjective(list)
  PROVE  Cardinality({list[i] : i \in DOMAIN list}) = Len(list)
<1> DEFINE set == {list[i] : i \in DOMAIN list}
<1>1. IsFiniteSet(1..Len(list)) /\ Cardinality(1..Len(list)) = Len(list)
  <2>1. Len(list) \in Nat /\ 1 \in Int /\ Len(list) \in Int
    OBVIOUS
  <2>2. /\ IsFiniteSet(1..Len(list))
        /\ Cardinality(1..Len(list)) = IF 1 > Len(list) THEN 0 ELSE Len(list) - 1 + 1
    BY <2>1, FS_Interval
  <2> QED
    BY <2>1, <2>2
<1>2. list \in Bijection(1..Len(list), set)
  BY DEF IsInjective, Bijection, Injection, Surjection
<1>3. ExistsBijection(1..Len(list), set)
  BY <1>2 DEF ExistsBijection
<1> QED
  BY <1>1, <1>3, FS_Bijection

(***************************************************************************)
(* Messages.                                                               *)
(***************************************************************************)
LEMMA MessageTypes ==
  ASSUME NEW V, V \subseteq Nat
  PROVE  /\ \A l \in Process, r \in Process : setneighbors(l, r) \in Carrying(V)
         /\ \A n \in V : setpm(n) \in Carrying(V)
         /\ \A p \in Process \cup {Coordinator}, n \in V : sendy(p, n) \in Carrying(V)
         /\ kill \in Carrying(V) /\ timeout \in Carrying(V)
         /\ \A h \in Nat : vote(h) \in Carrying(V)
<1>1. ASSUME NEW from \in Process \cup {Coordinator, NameService, Timer},
             NEW type \in {"setneighbors", "setpm", "sendy", "kill", "vote", "timeout"},
             NEW nr \in Nat, NEW ring \in Seq(Process),
             type \in {"setpm", "sendy"} => nr \in V
      PROVE  Message(from, type, nr, ring) \in Carrying(V)
  BY <1>1 DEF Message, Messages, Carrying
<1>2. << >> \in Seq(Process) /\ \A l \in Process, r \in Process : <<l, r>> \in Seq(Process)
  OBVIOUS
<1>3. \A l \in Process, r \in Process : setneighbors(l, r) \in Carrying(V)
  BY <1>1, <1>2 DEF setneighbors
<1>4. \A n \in V : setpm(n) \in Carrying(V)
  BY <1>1, <1>2 DEF setpm
<1>5. \A p \in Process \cup {Coordinator}, n \in V : sendy(p, n) \in Carrying(V)
  BY <1>1, <1>2 DEF sendy
<1>6. kill \in Carrying(V) /\ timeout \in Carrying(V) /\ \A h \in Nat : vote(h) \in Carrying(V)
  BY <1>1, <1>2 DEF kill, timeout, vote
<1> QED
  BY <1>3, <1>4, <1>5, <1>6

LEMMA MessageFields ==
  ASSUME NEW V, NEW m \in Carrying(V)
  PROVE  /\ m.nr \in Nat /\ m.ring \in Seq(Process)
         /\ m.type \in {"setpm", "sendy"} => m.nr \in V
BY DEF Carrying, Messages

LEMMA SendType ==
  ASSUME NEW V, NEW box \in [Process -> Seq(Carrying(V))],
         NEW out \in [Process -> Seq(Carrying(V))], Send(box, out)
  PROVE  MailboxOK(V)'
<1>1. \A q \in Process : box[q] \o out[q] \in Seq(Carrying(V))
  OBVIOUS
<1> QED
  BY <1>1 DEF Send, MailboxOK, Carrying

LEMMA TakenType ==
  ASSUME NEW V, MailboxOK(V), NEW p \in Process, NEW i \in DOMAIN mailbox[p]
  PROVE  /\ Taken(p, i) \in [Process -> Seq(Carrying(V))]
         /\ mailbox[p][i] \in Carrying(V)
<1>1. mailbox[p] \in Seq(Carrying(V))
  BY DEF MailboxOK
<1>2. RemoveAt(mailbox[p], i) \in Seq(Carrying(V))
  BY <1>1, RemoveAtType
<1>3. Taken(p, i) = [mailbox EXCEPT ![p] = RemoveAt(mailbox[p], i)]
  BY DEF Taken
<1>4. Taken(p, i) \in [Process -> Seq(Carrying(V))]
  BY <1>2, <1>3 DEF MailboxOK
<1> QED
  BY <1>1, <1>4

-----------------------------------------------------------------------------
(***************************************************************************)
(* What a step leaves alone.                                               *)
(***************************************************************************)
LEMMA CoordinatorStays ==
  ASSUME NEW V, CoordinatorOK(V), UNCHANGED coordVars
  PROVE  CoordinatorOK(V)'
BY DEF CoordinatorOK, coordVars, IsInjective

LEMMA HelloStays ==
  ASSUME NEW V, HelloOK(V), UNCHANGED <<greetings, briefs, clientList, state>>
  PROVE  HelloOK(V)'
BY DEF HelloOK, Ring

LEMMA ProcessesStay ==
  ASSUME NEW V, ProcessesOK(V), UNCHANGED procVars
  PROVE  ProcessesOK(V)'
BY DEF ProcessesOK, procVars

LEMMA MailboxStays ==
  ASSUME NEW V, MailboxOK(V), UNCHANGED mailbox
  PROVE  MailboxOK(V)'
BY DEF MailboxOK, Carrying

LEMMA VotesStay ==
  ASSUME NEW V, VotesOK(V), UNCHANGED votes
  PROVE  VotesOK(V)'
BY DEF VotesOK

-----------------------------------------------------------------------------
(***************************************************************************)
(* The coordinator's steps.                                                *)
(***************************************************************************)
LEMMA SendNextValues ==
  ASSUME NEW V, ValuesIn(V), SendNext
  PROVE  ValuesIn(V)'
<1>1. outbox \in Seq(Letter(V)) /\ outbox # << >>
  BY DEF SendNext, ValuesIn, CoordinatorOK
<1>2. Head(outbox) \in Letter(V) /\ Tail(outbox) \in Seq(Letter(V))
  BY <1>1
<1>3. CoordinatorOK(V)'
  BY <1>2 DEF SendNext, ValuesIn, CoordinatorOK, Letter, Carrying
<1>4. MailboxOK(V)'
  <2> DEFINE out == [q \in Process |->
               IF Head(outbox).to = q THEN <<Head(outbox).message>> ELSE << >>]
  <2>1. Head(outbox).message \in Carrying(V)
    BY <1>2 DEF Letter
  <2>2. out \in [Process -> Seq(Carrying(V))]
    BY <2>1
  <2>3. Send(mailbox, out)
    BY DEF SendNext
  <2> HIDE DEF out
  <2> QED
    BY <2>2, <2>3, SendType DEF ValuesIn, MailboxOK
<1>5. HelloOK(V)' /\ ProcessesOK(V)' /\ VotesOK(V)'
  BY HelloStays, ProcessesStay, VotesStay DEF SendNext, ValuesIn, procVars
<1> QED
  BY <1>3, <1>4, <1>5 DEF ValuesIn

LEMMA HelloValues ==
  ASSUME NEW V, ValuesIn(V), NEW p \in Process, Hello(p)
  PROVE  ValuesIn(V)'
<1>1. clientList \in Seq(Process) /\ IsInjective(clientList) /\ p \notin Ring
  BY DEF Hello, ValuesIn, CoordinatorOK, HelloOK
<1>2. CASE phase = "init"
  <2> DEFINE list == <<p>> \o clientList
  <2>0. <<p>> \in Seq(Process) /\ list \in Seq(Process) /\ Len(list) = Len(clientList) + 1
    BY <1>1
  <2>1. /\ list \in Seq(Process)
        /\ \A i \in DOMAIN list :
             \/ i = 1 /\ list[i] = p
             \/ i - 1 \in DOMAIN clientList /\ list[i] = clientList[i - 1]
    <3>1. list[1] = p /\ \A i \in 2..Len(clientList) + 1 : list[i] = clientList[i - 1]
      <4>1. p \in Process /\ clientList \in Seq(Process)
        BY <1>1
      <4> QED
        BY <4>1, ConsElements
    <3>2. Len(clientList) \in Nat /\ DOMAIN clientList = 1..Len(clientList)
      BY <1>1
    <3> HIDE DEF list
    <3>3. DOMAIN list = 1..Len(list)
      BY <2>0
    <3>4. ASSUME NEW i \in DOMAIN list, i # 1
          PROVE  i \in 2..Len(clientList) + 1 /\ i - 1 \in DOMAIN clientList
      BY <2>0, <3>2, <3>3, <3>4
    <3> QED
      BY <2>0, <3>1, <3>4
  <2>2. clientList' = list
    BY <1>2 DEF Hello
  <2> HIDE DEF list
  <2>3. IsInjective(list)
    <3> SUFFICES ASSUME NEW i \in DOMAIN list, NEW j \in DOMAIN list, list[i] = list[j]
                 PROVE  i = j
      BY DEF IsInjective
    <3>1. i \in Int /\ j \in Int
      BY <2>1
    <3> QED
      BY <1>1, <2>1, <3>1 DEF IsInjective, Ring
  <2>4. Ring' \subseteq Ring \cup {p}
    BY <2>1, <2>2 DEF Ring
  <2>5. CoordinatorOK(V)'
    BY <1>2, <2>1, <2>2, <2>3 DEF Hello, ValuesIn, CoordinatorOK, Letter, Carrying
  <2>6. HelloOK(V)'
    BY <2>4 DEF Hello, ValuesIn, HelloOK, procVars
  <2> QED
    BY <2>5, <2>6, ProcessesStay, MailboxStays, VotesStay DEF Hello, ValuesIn
<1>3. CASE phase # "init"
  <2>1. UNCHANGED coordVars
    BY <1>3 DEF Hello, coordVars
  <2>2. HelloOK(V)'
    BY <1>3 DEF Hello, ValuesIn, HelloOK, Ring, procVars
  <2> QED
    BY <2>1, <2>2, CoordinatorStays, ProcessesStay, MailboxStays, VotesStay
    DEF Hello, ValuesIn
<1> QED
  BY <1>2, <1>3

LEMMA NeighborhoodType ==
  ASSUME NEW V, V \subseteq Nat, NEW ring \in Seq(Process), NEW i \in 1..Len(ring)
  PROVE  Neighborhood(ring, i) \in Letter(V)
<1> DEFINE left == ring[IF i = 1 THEN Len(ring) ELSE i - 1]
           right == ring[IF i = Len(ring) THEN 1 ELSE i + 1]
<1>1. left \in Process /\ right \in Process /\ ring[i] \in Process
  OBVIOUS
<1>2. Neighborhood(ring, i) = [to |-> ring[i], message |-> setneighbors(left, right)]
  BY DEF Neighborhood
<1> HIDE DEF left, right
<1>3. setneighbors(left, right) \in Carrying(V)
  BY <1>1, MessageTypes
<1> QED
  BY <1>1, <1>2, <1>3 DEF Letter

LEMMA StepValues ==
  ASSUME NEW V, V \subseteq Nat, ValuesIn(V), Step
  PROVE  ValuesIn(V)'
<1>1. HelloOK(V)' /\ ProcessesOK(V)' /\ MailboxOK(V)' /\ VotesOK(V)'
  BY HelloStays, ProcessesStay, MailboxStays, VotesStay DEF Step, ValuesIn, procVars
<1>2. CASE phase' = "crashed" /\ UNCHANGED outbox
  BY <1>1, <1>2 DEF Step, ValuesIn, CoordinatorOK, Letter, Carrying
<1>3. CASE ~ (phase' = "crashed" /\ UNCHANGED outbox)
  <2> DEFINE n == Len(clientList)
  <2>1. PICK ring \in SetToSeqs(Ring) :
          outbox' = [i \in 1..n - 2 |-> Neighborhood(ring, i + 1)]
                      \o <<Neighborhood(ring, 1), Neighborhood(ring, n)>>
    BY <1>3 DEF Step
  <2>2. n \in Nat /\ n >= 2 /\ phase' = "calc"
    BY <1>3 DEF Step, ValuesIn, CoordinatorOK
  <2>3. ring \in [1..Cardinality(Ring) -> Ring]
    BY DEF SetToSeqs
  <2>4. Cardinality(Ring) = n /\ Ring \subseteq Process
    BY RingSize DEF ValuesIn, CoordinatorOK, Ring
  <2> HIDE DEF n
  <2>5. ring \in Seq(Process) /\ Len(ring) = n
    BY <2>2, <2>3, <2>4
  <2>6. \A i \in 1..n : Neighborhood(ring, i) \in Letter(V)
    BY <2>5, NeighborhoodType
  <2>7. [i \in 1..n - 2 |-> Neighborhood(ring, i + 1)] \in Seq(Letter(V))
    <3>1. \A i \in 1..n - 2 : i + 1 \in 1..n
      BY <2>2
    <3>2. n - 2 \in Nat
      BY <2>2
    <3> QED
      BY <2>6, <3>1, <3>2
  <2>8. Neighborhood(ring, 1) \in Letter(V) /\ Neighborhood(ring, n) \in Letter(V)
    BY <2>2, <2>6
  <2>9. outbox' \in Seq(Letter(V))
    BY <2>1, <2>7, <2>8
  <2>10. CoordinatorOK(V)'
    BY <2>2, <2>9 DEF Step, ValuesIn, CoordinatorOK, Letter, Carrying, n
  <2> QED
    BY <1>1, <2>10 DEF ValuesIn
<1> QED
  BY <1>2, <1>3

LEMMA HowMannyBound ==
  ASSUME NEW n \in Nat, n >= 2
  PROVE  HowManny(n) \in Nat /\ HowManny(n) <= n
<1>1. (2 * n + 5) \div 10 \in Int /\ (2 * n + 5) \div 10 <= n
  OBVIOUS
<1>2. HowManny(n) \in {2, (2 * n + 5) \div 10} /\ HowManny(n) >= 2
  BY <1>1, MaxOfTwo DEF HowManny
<1> QED
  BY <1>1, <1>2

LEMMA CalcValues ==
  ASSUME NEW V, Closed(V), ValuesIn(V), NEW w \in Wish, Calc(w)
  PROVE  ValuesIn(V)'
<1>1. HelloOK(V)' /\ ProcessesOK(V)' /\ MailboxOK(V)' /\ VotesOK(V)'
  BY HelloStays, ProcessesStay, MailboxStays, VotesStay DEF Calc, ValuesIn, procVars
<1> DEFINE n == Len(clientList)
           k == HowManny(n)
<1>2. PICK factor \in Injection(1..n, Factor), started \in Injection(1..k, Ring) :
        /\ minMi' = Min({w * factor[i] : i \in 1..n})
        /\ outbox' =
             [i \in 1..n |-> [to |-> clientList[i], message |-> setpm(w * factor[i])]]
             \o [i \in 1..k |->
                   [to |-> started[i], message |-> sendy(Coordinator, w * factor[i])]]
  BY DEF Calc
<1>3. n \in Nat /\ n >= 2 /\ clientList \in Seq(Process) /\ calcs' \in 0..MaxCalcs /\ wish' \in Wish
  BY GGTAssumption DEF Calc, Receiving, ValuesIn, CoordinatorOK
<1>4. k \in Nat /\ k <= n
  <2> HIDE DEF n
  <2> QED
    BY <1>3, HowMannyBound
<1>5. \A i \in 1..n : w * factor[i] \in V
  BY DEF Closed, Reduces, Injection
<1>6. \A i \in 1..n : clientList[i] \in Process
  BY <1>3
<1>7. \A i \in 1..k : started[i] \in Process
  BY <1>6 DEF Injection, Ring
<1> HIDE DEF n, k
<1>8. minMi' \in V
  <2> DEFINE values == {w * factor[i] : i \in 1..n}
  <2>1. values \in SUBSET Nat /\ values \subseteq V /\ values # {}
    <3>1. values \subseteq V
      BY <1>5
    <3>2. w * factor[1] \in values
      BY <1>3
    <3>3. V \subseteq Nat
      BY DEF Closed, Reduces
    <3> HIDE DEF values
    <3> QED
      BY <3>1, <3>2, <3>3
  <2> QED
    BY <1>2, <2>1, MinLeast
<1>9. outbox' \in Seq(Letter(V))
  <2> DEFINE first == [i \in 1..n |-> [to |-> clientList[i], message |-> setpm(w * factor[i])]]
             second == [i \in 1..k |->
                          [to |-> started[i], message |-> sendy(Coordinator, w * factor[i])]]
  <2>1. \A i \in 1..n : [to |-> clientList[i], message |-> setpm(w * factor[i])] \in Letter(V)
    BY <1>5, <1>6, MessageTypes DEF Letter, Closed, Reduces
  <2>2. \A i \in 1..k :
          [to |-> started[i], message |-> sendy(Coordinator, w * factor[i])] \in Letter(V)
    <3> TAKE i \in 1..k
    <3>1. i \in 1..n
      BY <1>3, <1>4
    <3> QED
      BY <1>5, <1>7, <3>1, MessageTypes DEF Letter, Closed, Reduces
  <2>3. first \in Seq(Letter(V)) /\ second \in Seq(Letter(V))
    BY <1>3, <1>4, <2>1, <2>2
  <2>4. outbox' = first \o second
    BY <1>2
  <2> HIDE DEF first, second
  <2> QED
    BY <2>3, <2>4
<1>10. CoordinatorOK(V)'
  BY <1>3, <1>8, <1>9 DEF Calc, ValuesIn, CoordinatorOK, IsInjective, Letter, Carrying
<1> QED
  BY <1>1, <1>10 DEF ValuesIn

LEMMA BriefMiValues ==
  ASSUME NEW V, ValuesIn(V), NEW v \in briefs, BriefMi(v)
  PROVE  ValuesIn(V)'
<1>1. v \in V
  BY DEF ValuesIn, HelloOK
<1>2. CoordinatorOK(V)'
  BY <1>1 DEF BriefMi, ValuesIn, CoordinatorOK, IsInjective, Letter, Carrying
<1>3. HelloOK(V)'
  BY DEF BriefMi, ValuesIn, HelloOK, Ring, procVars
<1> QED
  BY <1>2, <1>3, ProcessesStay, MailboxStays, VotesStay DEF BriefMi, ValuesIn

LEMMA KillsType ==
  ASSUME NEW V, V \subseteq Nat, clientList \in Seq(Process)
  PROVE  Kills \in Seq(Letter(V))
<1>1. kill \in Carrying(V) /\ \A i \in DOMAIN clientList : clientList[i] \in Process
  <2>1. kill \in Carrying(V)
    BY MessageTypes
  <2>2. \A i \in DOMAIN clientList : clientList[i] \in Process
    OBVIOUS
  <2> QED
    BY <2>1, <2>2
<1>2. \A q \in Process : [to |-> q, message |-> kill] \in Letter(V)
  BY <1>1 DEF Letter
<1> QED
  BY <1>1, <1>2 DEF Kills

LEMMA CommandValues ==
  ASSUME NEW V, V \subseteq Nat, ValuesIn(V), Toggle \/ Reset \/ Kill
  PROVE  ValuesIn(V)'
<1>1. /\ phase' \in {"crashed", "resetting", "down"}
      /\ outbox' \in {outbox, Kills}
      /\ UNCHANGED <<clientList, minMi, wish, calcs, greetings, briefs>>
      /\ UNCHANGED procVars /\ UNCHANGED mailbox /\ UNCHANGED votes
  BY DEF Toggle, Reset, Kill
<1>2. Kills \in Seq(Letter(V))
  BY KillsType DEF ValuesIn, CoordinatorOK
<1>3. outbox' \in Seq(Letter(V))
  BY <1>1, <1>2 DEF ValuesIn, CoordinatorOK
<1>4. CoordinatorOK(V)'
  BY <1>1, <1>3 DEF ValuesIn, CoordinatorOK, IsInjective, Letter, Carrying
<1> QED
  BY <1>1, <1>4, HelloStays, ProcessesStay, MailboxStays, VotesStay DEF ValuesIn, procVars

LEMMA StartAgainValues ==
  ASSUME NEW V, ValuesIn(V), StartAgain
  PROVE  ValuesIn(V)'
<1>1. << >> \in Seq(Process) /\ IsInjective(<< >>)
  BY DEF IsInjective
<1>2. CoordinatorOK(V)'
  BY <1>1 DEF StartAgain, ValuesIn, CoordinatorOK, IsInjective, Letter, Carrying
<1>3. HelloOK(V)'
  BY DEF StartAgain, ValuesIn, HelloOK, Ring, procVars
<1> QED
  BY <1>2, <1>3, ProcessesStay, MailboxStays, VotesStay DEF StartAgain, ValuesIn

-----------------------------------------------------------------------------
(***************************************************************************)
(* The processes' steps.                                                   *)
(***************************************************************************)
LEMMA StartProcessValues ==
  ASSUME NEW V, ValuesIn(V), NEW p \in Process, StartProcess(p)
  PROVE  ValuesIn(V)'
<1>1. CoordinatorOK(V)' /\ MailboxOK(V)' /\ VotesOK(V)'
  BY CoordinatorStays, MailboxStays, VotesStay DEF StartProcess, ValuesIn
<1>2. p \notin Ring
  BY DEF StartProcess, ValuesIn, HelloOK
<1>3. HelloOK(V)'
  BY <1>2 DEF StartProcess, ValuesIn, HelloOK, ProcessesOK, Ring, coordVars
<1>4. ProcessesOK(V)'
  BY DEF StartProcess, ValuesIn, ProcessesOK
<1> QED
  BY <1>1, <1>3, <1>4 DEF ValuesIn

LEMMA TakenMailbox ==
  ASSUME NEW V, ValuesIn(V), NEW p \in Process, NEW i \in DOMAIN mailbox[p],
         mailbox' = Taken(p, i)
  PROVE  MailboxOK(V)'
<1>1. mailbox' \in [Process -> Seq(Carrying(V))]
  BY TakenType DEF ValuesIn
<1> QED
  BY <1>1 DEF MailboxOK, Carrying

LEMMA ReceiveSetneighborsValues ==
  ASSUME NEW V, ValuesIn(V), NEW p \in Process, NEW i \in DOMAIN mailbox[p],
         ReceiveSetneighbors(p, i)
  PROVE  ValuesIn(V)'
<1>1. CoordinatorOK(V)' /\ HelloOK(V)' /\ VotesOK(V)'
  BY CoordinatorStays, HelloStays, VotesStay DEF ReceiveSetneighbors, ValuesIn, coordVars
<1>2. MailboxOK(V)'
  BY TakenMailbox DEF ReceiveSetneighbors
<1>3. mailbox[p][i].ring \in Seq(Process)
  BY TakenType, MessageFields DEF ValuesIn
<1>4. ProcessesOK(V)'
  BY <1>3 DEF ReceiveSetneighbors, ValuesIn, ProcessesOK
<1> QED
  BY <1>1, <1>2, <1>4 DEF ValuesIn

LEMMA ReceiveSetpmValues ==
  ASSUME NEW V, ValuesIn(V), NEW p \in Process, NEW i \in DOMAIN mailbox[p], ReceiveSetpm(p, i)
  PROVE  ValuesIn(V)'
<1>1. CoordinatorOK(V)' /\ HelloOK(V)' /\ VotesOK(V)'
  BY CoordinatorStays, HelloStays, VotesStay DEF ReceiveSetpm, ValuesIn, coordVars
<1>2. MailboxOK(V)'
  BY TakenMailbox DEF ReceiveSetpm
<1>3. mailbox[p][i].nr \in V
  BY TakenType, MessageFields DEF ReceiveSetpm, Receives, ValuesIn
<1>4. ProcessesOK(V)'
  BY <1>3 DEF ReceiveSetpm, Restart, ValuesIn, ProcessesOK
<1> QED
  BY <1>1, <1>2, <1>4 DEF ValuesIn

LEMMA ReduceValues ==
  ASSUME NEW V, Reduces(V), ValuesIn(V), NEW p \in Process, NEW i \in DOMAIN mailbox[p],
         mailbox[p][i].type = "sendy", mi[p] # 0, Reduce(p, i)
  PROVE  /\ MailboxOK(V)' /\ briefs' \subseteq V
         /\ mi' \in [Process -> V \cup {0}] /\ calculated' \subseteq Process
<1> DEFINE new == calc(mi[p], mailbox[p][i].nr)
<1>1. new \in V
  <2>1. mailbox[p][i].nr \in V /\ mi[p] \in V
    BY TakenType, MessageFields DEF ValuesIn, ProcessesOK
  <2> QED
    BY <2>1 DEF Reduces
<1>2. /\ mi' = [mi EXCEPT ![p] = new]
      /\ calculated' = calculated \cup {p}
      /\ briefs' = briefs \cup {new}
      /\ Send(Taken(p, i), [q \in Process |->
           [k \in 1..Cardinality({s \in 1..2 : neighbors[p][s] = q}) |-> sendy(p, new)]])
  BY DEF Reduce
<1> HIDE DEF new
<1>3. sendy(p, new) \in Carrying(V)
  BY <1>1, MessageTypes DEF Reduces
<1>4. \A q \in Process : Cardinality({s \in 1..2 : neighbors[p][s] = q}) \in Nat
  <2> TAKE q \in Process
  <2>1. IsFiniteSet(1..2)
    <3>1. 1 \in Int /\ 2 \in Int
      OBVIOUS
    <3> QED
      BY <3>1, FS_Interval
  <2>2. IsFiniteSet({s \in 1..2 : neighbors[p][s] = q})
    BY <2>1, FS_Subset
  <2> QED
    BY <2>2, FS_CardinalityType
<1>5. [q \in Process |->
        [k \in 1..Cardinality({s \in 1..2 : neighbors[p][s] = q}) |-> sendy(p, new)]]
          \in [Process -> Seq(Carrying(V))]
  BY <1>3, <1>4
<1>6. MailboxOK(V)'
  BY <1>2, <1>5, TakenType, SendType DEF ValuesIn
<1> QED
  BY <1>1, <1>2, <1>6 DEF ValuesIn, HelloOK, ProcessesOK

LEMMA ReceiveSendyValues ==
  ASSUME NEW V, Reduces(V), ValuesIn(V), NEW p \in Process, NEW i \in DOMAIN mailbox[p],
         ReceiveSendy(p, i)
  PROVE  ValuesIn(V)'
<1>1. mailbox[p][i].type = "sendy" /\ mi[p] # 0
  BY DEF ReceiveSendy, Receives
<1>2. /\ MailboxOK(V)' /\ briefs' \subseteq V
      /\ mi' \in [Process -> V \cup {0}] /\ calculated' \subseteq Process
  <2>1. CASE Reduce(p, i)
    BY <1>1, <2>1, ReduceValues
  <2>2. CASE mailbox' = Taken(p, i) /\ UNCHANGED <<mi, calculated, briefs>>
    BY <2>2, TakenMailbox DEF ValuesIn, HelloOK, ProcessesOK
  <2> QED
    BY <2>1, <2>2 DEF ReceiveSendy
<1>3. CoordinatorOK(V)' /\ VotesOK(V)'
  BY CoordinatorStays, VotesStay DEF ReceiveSendy, ValuesIn
<1>4. HelloOK(V)'
  BY <1>2 DEF ReceiveSendy, ValuesIn, HelloOK, Ring, coordVars
<1>5. ProcessesOK(V)'
  <2>1. consense' \in [Process -> BOOLEAN] /\ timers' \in [Process -> Nat]
    BY DEF ReceiveSendy, Restart, ValuesIn, ProcessesOK
  <2>2. UNCHANGED <<state, neighbors>>
    BY DEF ReceiveSendy
  <2> QED
    BY <1>2, <2>1, <2>2 DEF ValuesIn, ProcessesOK
<1> QED
  BY <1>2, <1>3, <1>4, <1>5 DEF ValuesIn

LEMMA EndValues ==
  ASSUME NEW V, ValuesIn(V), NEW p \in Process, NEW how \in {"dead", "crashed"}, End(p, how)
  PROVE  ValuesIn(V)'
<1>1. CoordinatorOK(V)' /\ VotesOK(V)'
  BY CoordinatorStays, VotesStay DEF End, ValuesIn
<1>2. HelloOK(V)'
  BY DEF End, ValuesIn, HelloOK, ProcessesOK, Ring, coordVars
<1>3. ProcessesOK(V)'
  BY DEF End, ValuesIn, ProcessesOK
<1>4. MailboxOK(V)'
  <2>1. << >> \in Seq(Carrying(V))
    OBVIOUS
  <2>2. mailbox' \in [Process -> Seq(Carrying(V))]
    BY <2>1 DEF End, ValuesIn, MailboxOK
  <2> QED
    BY <2>2 DEF MailboxOK, Carrying
<1> QED
  BY <1>1, <1>2, <1>3, <1>4 DEF ValuesIn

-----------------------------------------------------------------------------
(***************************************************************************)
(* Timers and votes.                                                       *)
(***************************************************************************)
LEMMA TimerFiresValues ==
  ASSUME NEW V, V \subseteq Nat, ValuesIn(V), NEW p \in Process, TimerFires(p)
  PROVE  ValuesIn(V)'
<1>1. CoordinatorOK(V)' /\ HelloOK(V)' /\ VotesOK(V)'
  BY CoordinatorStays, HelloStays, VotesStay DEF TimerFires, ValuesIn, coordVars
<1>2. ProcessesOK(V)'
  BY DEF TimerFires, ValuesIn, ProcessesOK
<1>3. MailboxOK(V)'
  <2>1. timeout \in Carrying(V) /\ mailbox[p] \in Seq(Carrying(V))
    BY MessageTypes DEF ValuesIn, MailboxOK
  <2>2. Append(mailbox[p], timeout) \in Seq(Carrying(V))
    BY <2>1
  <2>3. mailbox' \in [Process -> Seq(Carrying(V))]
    BY <2>2 DEF TimerFires, ValuesIn, MailboxOK
  <2> QED
    BY <2>3 DEF MailboxOK, Carrying
<1> QED
  BY <1>1, <1>2, <1>3 DEF ValuesIn

LEMMA ReceiveTimeoutValues ==
  ASSUME NEW V, ValuesIn(V), NEW p \in Process, NEW i \in DOMAIN mailbox[p], ReceiveTimeout(p, i)
  PROVE  ValuesIn(V)'
<1>1. CoordinatorOK(V)' /\ HelloOK(V)'
  BY CoordinatorStays, HelloStays DEF ReceiveTimeout, ValuesIn, coordVars
<1>2. MailboxOK(V)'
  BY TakenMailbox DEF ReceiveTimeout
<1>3. ProcessesOK(V)'
  <2>1. consense' \in [Process -> BOOLEAN]
    BY DEF ReceiveTimeout, ValuesIn, ProcessesOK
  <2>2. timers' \in [Process -> Nat]
    <3>1. timers \in [Process -> Nat] /\ timers[p] + 1 \in Nat
      BY DEF ValuesIn, ProcessesOK
    <3> QED
      BY <3>1 DEF ReceiveTimeout
  <2>3. UNCHANGED <<state, neighbors, mi, calculated>>
    BY DEF ReceiveTimeout
  <2> QED
    BY <2>1, <2>2, <2>3 DEF ValuesIn, ProcessesOK
<1>4. VotesOK(V)'
  <2> DEFINE new == [mi |-> mi[p], needed |-> Quota, asked |-> FALSE]
  <2>1. new \in Ballot(V)
    <3>1. mi[p] \in V \cup {0} /\ Quota \in 0..Quota
      BY GGTAssumption DEF ValuesIn, ProcessesOK
    <3> QED
      BY <3>1 DEF Ballot
  <2>2. votes' = votes \/ votes' = Append(votes, new)
    BY DEF ReceiveTimeout
  <2> HIDE DEF new
  <2>3. votes' \in Seq(Ballot(V))
    <3>1. votes \in Seq(Ballot(V))
      BY DEF ValuesIn, VotesOK, Ballot
    <3> QED
      BY <2>1, <2>2, <3>1
  <2> QED
    BY <2>3 DEF VotesOK, Ballot
<1> QED
  BY <1>1, <1>2, <1>3, <1>4 DEF ValuesIn

LEMMA MulticastValues ==
  ASSUME NEW V, V \subseteq Nat, ValuesIn(V), NEW h \in DOMAIN votes, Multicast(h)
  PROVE  ValuesIn(V)'
<1>1. CoordinatorOK(V)' /\ HelloOK(V)' /\ ProcessesOK(V)'
  BY CoordinatorStays, HelloStays, ProcessesStay DEF Multicast, ValuesIn, coordVars, procVars
<1>2. votes \in Seq(Ballot(V)) /\ h \in Nat /\ votes[h] \in Ballot(V)
  <2>1. votes \in Seq(Ballot(V))
    BY DEF ValuesIn, VotesOK, Ballot
  <2> QED
    BY <2>1
<1>3. VotesOK(V)'
  <2> DEFINE asked == [votes[h] EXCEPT !.asked = TRUE]
  <2>1. asked \in Ballot(V)
    BY <1>2 DEF Ballot
  <2>2. votes' = [votes EXCEPT ![h] = asked]
    BY DEF Multicast
  <2> HIDE DEF asked
  <2>3. votes' \in Seq(Ballot(V))
    BY <1>2, <2>1, <2>2, UpdateType
  <2> QED
    BY <2>3 DEF VotesOK, Ballot
<1>4. MailboxOK(V)'
  <2>1. vote(h) \in Carrying(V)
    BY <1>2, MessageTypes
  <2>2. [q \in Process |-> <<vote(h)>>] \in [Process -> Seq(Carrying(V))]
    BY <2>1
  <2> QED
    BY <2>2, SendType DEF Multicast, ValuesIn, MailboxOK
<1> QED
  BY <1>1, <1>3, <1>4 DEF ValuesIn

LEMMA ReceiveVoteValues ==
  ASSUME NEW V, ValuesIn(V), NEW p \in Process, NEW i \in DOMAIN mailbox[p], ReceiveVote(p, i)
  PROVE  ValuesIn(V)'
<1>1. CoordinatorOK(V)' /\ HelloOK(V)'
  BY CoordinatorStays, HelloStays DEF ReceiveVote, ValuesIn, coordVars
<1>2. MailboxOK(V)'
  BY TakenMailbox DEF ReceiveVote
<1>3. ProcessesOK(V)'
  BY DEF ReceiveVote, ValuesIn, ProcessesOK
<1>4. VotesOK(V)'
  <2> DEFINE h == mailbox[p][i].nr
             counted == [votes[h] EXCEPT !.needed = voteHandler(votes[h].needed)]
  <2>1. votes \in Seq(Ballot(V))
    BY DEF ValuesIn, VotesOK, Ballot
  <2>2. votes' = votes \/ votes' = [votes EXCEPT ![h] = counted]
    BY DEF ReceiveVote
  <2>3. h \in DOMAIN votes => counted \in Ballot(V)
    <3> SUFFICES ASSUME h \in DOMAIN votes
                 PROVE  counted \in Ballot(V)
      OBVIOUS
    <3>1. votes[h] \in Ballot(V)
      BY <2>1
    <3>2. votes[h].needed \in 0..Quota
      BY <3>1 DEF Ballot
    <3>3. voteHandler(votes[h].needed) \in 0..Quota
      <4>1. votes[h].needed - 1 \in Int /\ votes[h].needed - 1 <= Quota /\ Quota \in Nat
        BY <3>2, GGTAssumption
      <4>2. /\ voteHandler(votes[h].needed) \in {0, votes[h].needed - 1}
            /\ voteHandler(votes[h].needed) >= 0
        <5>1. 0 \in Int
          OBVIOUS
        <5> QED
          BY <4>1, <5>1, MaxOfTwo DEF voteHandler
      <4> QED
        BY <4>1, <4>2
    <3> QED
      BY <3>1, <3>3 DEF Ballot
  <2> HIDE DEF h, counted
  <2>4. votes' \in Seq(Ballot(V))
    <3>1. CASE h \in DOMAIN votes
      BY <2>1, <2>2, <2>3, <3>1, UpdateType
    <3>2. CASE h \notin DOMAIN votes
      BY <2>1, <2>2, <3>2
    <3> QED
      BY <3>1, <3>2
  <2> QED
    BY <2>4 DEF VotesOK, Ballot
<1> QED
  BY <1>1, <1>2, <1>3, <1>4 DEF ValuesIn

-----------------------------------------------------------------------------
(***************************************************************************)
(* The invariant.                                                          *)
(***************************************************************************)
LEMMA ValuesStay ==
  ASSUME NEW V, ValuesIn(V), UNCHANGED vars
  PROVE  ValuesIn(V)'
BY CoordinatorStays, HelloStays, ProcessesStay, MailboxStays, VotesStay
DEF ValuesIn, vars, coordVars, procVars

LEMMA ValuesInit ==
  ASSUME NEW V, Init
  PROVE  ValuesIn(V)
<1>1. << >> \in Seq(Process) /\ IsInjective(<< >>) /\ << >> \in Seq(Letter(V))
      /\ << >> \in Seq(Carrying(V)) /\ << >> \in Seq(Ballot(V))
  BY DEF IsInjective
<1>2. CoordinatorOK(V)
  BY <1>1, GGTAssumption DEF Init, CoordinatorOK
<1>3. HelloOK(V)
  BY DEF Init, HelloOK, Ring
<1>4. ProcessesOK(V) /\ MailboxOK(V) /\ VotesOK(V)
  BY <1>1 DEF Init, ProcessesOK, MailboxOK, VotesOK, Ballot
<1> QED
  BY <1>2, <1>3, <1>4 DEF ValuesIn

LEMMA ProcessStepValues ==
  ASSUME NEW V, Reduces(V), ValuesIn(V), NEW p \in Process, ProcessStep(p)
  PROVE  ValuesIn(V)'
<1>1. PICK i \in DOMAIN mailbox[p] :
        \/ ReceiveSetneighbors(p, i) \/ ReceiveSetpm(p, i) \/ ReceiveSendy(p, i)
        \/ SendyTooEarly(p, i) \/ ReceiveKill(p, i)
        \/ ReceiveTimeout(p, i) \/ ReceiveVote(p, i)
  BY DEF ProcessStep
<1>2. CASE SendyTooEarly(p, i) \/ ReceiveKill(p, i)
  BY <1>2, EndValues DEF SendyTooEarly, ReceiveKill
<1> QED
  BY <1>1, <1>2, ReceiveSetneighborsValues, ReceiveSetpmValues, ReceiveSendyValues,
     ReceiveTimeoutValues, ReceiveVoteValues

LEMMA ValuesNextButCalc ==
  ASSUME NEW V, Reduces(V), ValuesIn(V), [Next]_vars, ~ \E w \in Wish : Calc(w)
  PROVE  ValuesIn(V)'
<1>0. V \subseteq Nat
  BY DEF Reduces
<1>1. CASE CoordinatorStep
  BY <1>1, SendNextValues, StartAgainValues, HelloValues, BriefMiValues DEF CoordinatorStep
<1>2. CASE OperatorCommand
  BY <1>0, <1>2, StepValues, CommandValues DEF OperatorCommand
<1>3. CASE \E h \in DOMAIN votes : Multicast(h)
  BY <1>0, <1>3, MulticastValues
<1>4. CASE \E p \in Process : StartProcess(p) \/ ProcessStep(p) \/ TimerFires(p)
  BY <1>0, <1>4, StartProcessValues, ProcessStepValues, TimerFiresValues
<1>5. CASE UNCHANGED vars
  BY <1>5, ValuesStay
<1> QED
  BY <1>1, <1>2, <1>3, <1>4, <1>5 DEF Next

LEMMA ValuesNext ==
  ASSUME NEW V, Closed(V), ValuesIn(V), [Next]_vars
  PROVE  ValuesIn(V)'
<1>1. Reduces(V)
  BY DEF Closed, Reduces
<1> QED
  BY <1>1, CalcValues, ValuesNextButCalc

-----------------------------------------------------------------------------
(***************************************************************************)
(* Types: every value is a positive number.                                *)
(***************************************************************************)
LEMMA RemainderBounds ==
  ASSUME NEW m \in Nat, NEW y \in Nat \ {0}
  PROVE  m % y \in 0..y - 1 /\ m \div y \in Nat /\ m = y * (m \div y) + (m % y)
OBVIOUS

LEMMA ClosedPositive == Closed(Nat \ {0})
<1>1. ASSUME NEW w \in Wish, NEW f \in Factor
      PROVE  w * f \in Nat \ {0}
  BY GGTAssumption
<1>2. ASSUME NEW m \in Nat \ {0}, NEW y \in Nat \ {0}
      PROVE  calc(m, y) \in Nat \ {0}
  <2>1. m - 1 \in Nat
    OBVIOUS
  <2>2. (m - 1) % y \in 0..y - 1
    BY <2>1, RemainderBounds
  <2> QED
    BY <2>2 DEF calc
<1> QED
  BY <1>1, <1>2 DEF Closed, Reduces

LEMMA ValuesTyped ==
  ASSUME NEW V, V \subseteq Nat, ValuesIn(V)
  PROVE  GGTTypeOK
<1>1. \A S, T : S \subseteq T => Seq(S) \subseteq Seq(T)
  OBVIOUS
<1>2. Seq(Letter(V)) \subseteq Seq([to : Process, message : Messages])
  <2>1. Letter(V) \subseteq [to : Process, message : Messages]
    BY DEF Letter, Carrying
  <2> QED
    BY <1>1, <2>1
<1>3. Seq(Carrying(V)) \subseteq Seq(Messages)
  <2>1. Carrying(V) \subseteq Messages
    BY DEF Carrying
  <2> QED
    BY <1>1, <2>1
<1>4. Seq(Ballot(V)) \subseteq Seq([mi : Nat, needed : 0..Quota, asked : BOOLEAN])
  <2>1. Ballot(V) \subseteq [mi : Nat, needed : 0..Quota, asked : BOOLEAN]
    <3>1. V \cup {0} \subseteq Nat
      OBVIOUS
    <3> QED
      BY <3>1 DEF Ballot
  <2> QED
    BY <1>1, <2>1
<1>5. V \cup {0} \subseteq Nat
  OBVIOUS
<1>6. mailbox \in [Process -> Seq(Messages)]
  BY <1>3 DEF ValuesIn, MailboxOK
<1>7. votes \in Seq([mi : Nat, needed : 0..Quota, asked : BOOLEAN])
  BY <1>4 DEF ValuesIn, VotesOK, Ballot
<1>8. outbox \in Seq([to : Process, message : Messages])
  BY <1>2 DEF ValuesIn, CoordinatorOK
<1>9. mi \in [Process -> Nat]
  BY <1>5 DEF ValuesIn, ProcessesOK
<1> QED
  BY <1>5, <1>6, <1>7, <1>8, <1>9 DEF ValuesIn, CoordinatorOK, HelloOK, ProcessesOK, GGTTypeOK

(***************************************************************************)
(* The coordinator's and the processes' states have their types.           *)
(***************************************************************************)
THEOREM GGTTypeCorrect == Spec => []GGTTypeOK
<1> DEFINE Inv == ValuesIn(Nat \ {0})
<1>1. Init => Inv
  BY ClosedPositive, ValuesInit
<1>2. Inv /\ [Next]_vars => Inv'
  BY ClosedPositive, ValuesNext
<1>3. Inv => GGTTypeOK
  BY ValuesTyped
<1> HIDE DEF Inv
<1> QED
  BY <1>1, <1>2, <1>3, PTL DEF Spec

-----------------------------------------------------------------------------
(***************************************************************************)
(* Multiples: the values of the first Y and of every reduction are         *)
(* multiples of whatever divides all the values of setpm.                  *)
(***************************************************************************)
Multiples(w) == {a * w : a \in Nat \ {0}}

LEMMA MultipleRemainder ==
  ASSUME NEW w \in Nat \ {0}, NEW a \in Nat
  PROVE  (a * w) % w = 0
OBVIOUS

LEMMA ReducedMultiple ==
  ASSUME NEW w \in Nat \ {0}, NEW a \in Nat \ {0}, NEW b \in Nat \ {0}
  PROVE  calc(a * w, b * w) \in Multiples(w)
<1> DEFINE m == a * w
           y == b * w
           q == (m - 1) \div y
           c == a - q * b
<1>1. m \in Nat \ {0} /\ y \in Nat \ {0}
  OBVIOUS
<1> HIDE DEF m, y
<1>2. m - 1 = y * q + ((m - 1) % y) /\ q \in Nat /\ (m - 1) % y \in 0..y - 1
  <2>1. m - 1 \in Nat
    BY <1>1
  <2> QED
    BY <1>1, <2>1, RemainderBounds
<1> HIDE DEF q
<1>3. y * q = (q * b) * w
  BY <1>1, <1>2 DEF y
<1>4. c * w = a * w - (q * b) * w
  BY <1>2
<1>5. ((m - 1) % y) + 1 = c * w
  BY <1>1, <1>2, <1>3, <1>4 DEF m
<1>6. c \in Int /\ c * w > 0
  BY <1>1, <1>2, <1>5
<1> HIDE DEF c
<1>7. c \in Nat \ {0}
  BY <1>6
<1> QED
  BY <1>5, <1>7 DEF calc, Multiples, m, y

LEMMA ClosedMultiples ==
  ASSUME NEW w, Wish = {w}
  PROVE  Closed(Multiples(w))
<1>1. w \in Nat \ {0}
  BY GGTAssumption
<1>2. Multiples(w) \subseteq Nat \ {0}
  BY <1>1 DEF Multiples
<1>3. ASSUME NEW f \in Factor
      PROVE  w * f \in Multiples(w)
  <2>1. f \in Nat \ {0} /\ w * f = f * w
    BY <1>1, GGTAssumption
  <2> QED
    BY <2>1 DEF Multiples
<1>4. ASSUME NEW m \in Multiples(w), NEW y \in Multiples(w)
      PROVE  calc(m, y) \in Multiples(w)
  <2>1. PICK a \in Nat \ {0}, b \in Nat \ {0} : m = a * w /\ y = b * w
    BY DEF Multiples
  <2> QED
    BY <1>1, <2>1, ReducedMultiple
<1> QED
  BY <1>2, <1>3, <1>4 DEF Closed, Reduces

LEMMA ComingIn ==
  ASSUME NEW V, ValuesIn(V), NEW p \in Process
  PROVE  ComingValues(p, {"setpm", "sendy"}) \subseteq V
<1>1. ASSUME NEW j \in DOMAIN mailbox[p], mailbox[p][j].type \in {"setpm", "sendy"}
      PROVE  mailbox[p][j].nr \in V
  <2>1. mailbox[p][j] \in Carrying(V)
    BY TakenType DEF ValuesIn
  <2> QED
    BY <1>1, <2>1, MessageFields
<1>2. ASSUME NEW j \in DOMAIN outbox, outbox[j].message.type \in {"setpm", "sendy"}
      PROVE  outbox[j].message.nr \in V
  <2>1. outbox[j].message \in Carrying(V)
    <3>1. outbox \in Seq(Letter(V))
      BY DEF ValuesIn, CoordinatorOK
    <3>2. outbox[j] \in Letter(V)
      BY <3>1
    <3> QED
      BY <3>2 DEF Letter
  <2> QED
    BY <1>2, <2>1, MessageFields
<1> QED
  BY <1>1, <1>2 DEF ComingValues

(***************************************************************************)
(* As long as the operator wishes for one gcd only, every value that a     *)
(* process has or is going to receive is its multiple.                     *)
(***************************************************************************)
THEOREM MultiplesStay ==
  ASSUME NEW w, Wish = {w}
  PROVE  Spec => []MultiplesOfWish
<1> DEFINE Inv == ValuesIn(Multiples(w))
<1>1. Init => Inv
  BY ClosedMultiples, ValuesInit
<1>2. Inv /\ [Next]_vars => Inv'
  BY ClosedMultiples, ValuesNext
<1>3. Inv => MultiplesOfWish
  <2> SUFFICES ASSUME Inv, wish # 0, NEW p \in Ring,
                      NEW v \in {mi[p]} \cup ComingValues(p, {"setpm", "sendy"})
               PROVE  v % wish = 0
    BY DEF MultiplesOfWish
  <2>1. wish = w /\ w \in Nat \ {0} /\ p \in Process
    BY GGTAssumption DEF ValuesIn, CoordinatorOK, Ring
  <2>2. v \in Multiples(w) \cup {0}
    BY <2>1, ComingIn DEF ValuesIn, ProcessesOK
  <2>3. PICK a \in Nat : v = a * w
    BY <2>1, <2>2 DEF Multiples
  <2> QED
    BY <2>1, <2>3, MultipleRemainder
<1> HIDE DEF Inv
<1> QED
  BY <1>1, <1>2, <1>3, PTL DEF Spec

-----------------------------------------------------------------------------
(***************************************************************************)
(* The order of the messages in a mailbox.  Has: one of M is in it.        *)
(* NoneBefore: none of M comes before one of N.  Follows: before every one *)
(* of M comes one of N.                                                    *)
(***************************************************************************)
Has(s, M) == \E i \in DOMAIN s : s[i] \in M

NoneBefore(s, M, N) == \A i, j \in DOMAIN s : s[i] \in N /\ j < i => s[j] \notin M

Follows(s, M, N) == \A i \in DOMAIN s : s[i] \in M => \E j \in DOMAIN s : j < i /\ s[j] \in N

(***************************************************************************)
(* t is s without its first message, or with messages of M at its end.     *)
(***************************************************************************)
Drops(s, t) ==
  /\ 1 \in DOMAIN s
  /\ \A i \in DOMAIN t : i + 1 \in DOMAIN s /\ t[i] = s[i + 1]
  /\ \A i \in DOMAIN s : i = 1 \/ (i - 1 \in DOMAIN t /\ t[i - 1] = s[i])

Grows(s, t, M) ==
  /\ \A i \in DOMAIN s : i \in DOMAIN t /\ t[i] = s[i]
  /\ \A i \in DOMAIN t : i \in DOMAIN s \/ (t[i] \in M /\ \A j \in DOMAIN s : j < i)

LEMMA FirstRemoved ==
  ASSUME NEW S, NEW s \in Seq(S), 1 \in DOMAIN s
  PROVE  Drops(s, RemoveAt(s, 1))
<1> DEFINE t == RemoveAt(s, 1)
<1>1. Len(s) \in Nat /\ Len(s) >= 1 /\ DOMAIN s = 1..Len(s)
  OBVIOUS
<1>2. t = SubSeq(s, 1, 0) \o SubSeq(s, 2, Len(s))
  BY DEF RemoveAt
<1>3. SubSeq(s, 1, 0) = << >> /\ SubSeq(s, 2, Len(s)) \in Seq(S)
  BY <1>1
<1>4. t = SubSeq(s, 2, Len(s))
  BY <1>2, <1>3
<1> HIDE DEF t
<1>5. Len(t) = Len(s) - 1 /\ \A i \in 1..Len(s) - 1 : t[i] = s[i + 1]
  BY <1>1, <1>4
<1>6. DOMAIN t = 1..Len(s) - 1
  BY <1>1, <1>3, <1>4, <1>5
<1>7. ASSUME NEW i \in DOMAIN s, i # 1
      PROVE  i - 1 \in DOMAIN t /\ t[i - 1] = s[i]
  BY <1>1, <1>5, <1>6, <1>7
<1>8. ASSUME NEW i \in DOMAIN t
      PROVE  i + 1 \in DOMAIN s /\ t[i] = s[i + 1]
  BY <1>1, <1>5, <1>6
<1>9. Drops(s, t)
  BY <1>7, <1>8 DEF Drops
<1> QED
  BY <1>9 DEF t

LEMMA ConcatGrows ==
  ASSUME NEW S, NEW s \in Seq(S), NEW e \in Seq(S), NEW M, \A i \in DOMAIN e : e[i] \in M
  PROVE  Grows(s, s \o e, M)
<1> DEFINE t == s \o e
<1>1. Len(s) \in Nat /\ Len(e) \in Nat /\ DOMAIN s = 1..Len(s) /\ DOMAIN e = 1..Len(e)
  OBVIOUS
<1>2. /\ DOMAIN t = 1..Len(s) + Len(e)
      /\ \A i \in 1..Len(s) + Len(e) : t[i] = IF i <= Len(s) THEN s[i] ELSE e[i - Len(s)]
  OBVIOUS
<1> HIDE DEF t
<1>3. ASSUME NEW i \in DOMAIN s
      PROVE  i \in DOMAIN t /\ t[i] = s[i]
  BY <1>1, <1>2
<1>4. ASSUME NEW i \in DOMAIN t, i \notin DOMAIN s
      PROVE  t[i] \in M /\ \A j \in DOMAIN s : j < i
  <2>1. i \in Nat /\ i > Len(s) /\ i - Len(s) \in DOMAIN e
    BY <1>1, <1>2, <1>4
  <2> QED
    BY <1>1, <1>2, <2>1
<1>5. Grows(s, t, M)
  BY <1>3, <1>4 DEF Grows
<1> QED
  BY <1>5 DEF t

LEMMA DropsOrder ==
  ASSUME NEW S, NEW s \in Seq(S), NEW t \in Seq(S), Drops(s, t)
  PROVE  /\ \A M : Has(t, M) => Has(s, M)
         /\ \A M : Has(s, M) /\ s[1] \notin M => Has(t, M)
         /\ \A M, N : NoneBefore(s, M, N) => NoneBefore(t, M, N)
         /\ \A M, N : NoneBefore(s, M, N) /\ s[1] \in M => ~ Has(t, N)
         /\ \A M, N : Follows(s, M, N) /\ s[1] \notin N => Follows(t, M, N)
<1>1. DOMAIN s \subseteq Int /\ DOMAIN t \subseteq Int /\ 1 \in DOMAIN s
  BY DEF Drops
<1>2. \A i \in DOMAIN t : i + 1 \in DOMAIN s /\ t[i] = s[i + 1]
  BY DEF Drops
<1>3. \A i \in DOMAIN s : i = 1 \/ (i - 1 \in DOMAIN t /\ t[i - 1] = s[i])
  BY DEF Drops
<1>4. ASSUME NEW M, Has(t, M)
      PROVE  Has(s, M)
  BY <1>2, <1>4 DEF Has
<1>5. ASSUME NEW M, Has(s, M), s[1] \notin M
      PROVE  Has(t, M)
  <2>1. PICK i \in DOMAIN s : s[i] \in M
    BY <1>5 DEF Has
  <2> QED
    BY <1>3, <1>5, <2>1 DEF Has
<1>6. ASSUME NEW M, NEW N, NoneBefore(s, M, N)
      PROVE  NoneBefore(t, M, N)
  <2> SUFFICES ASSUME NEW i \in DOMAIN t, NEW j \in DOMAIN t, t[i] \in N, j < i
               PROVE  t[j] \notin M
    BY DEF NoneBefore
  <2>1. i + 1 \in DOMAIN s /\ j + 1 \in DOMAIN s /\ j + 1 < i + 1 /\ s[i + 1] \in N
    BY <1>1, <1>2
  <2>2. s[j + 1] \notin M
    BY <1>6, <2>1 DEF NoneBefore
  <2> QED
    BY <1>2, <2>2
<1>7. ASSUME NEW M, NEW N, NoneBefore(s, M, N), s[1] \in M, Has(t, N)
      PROVE  FALSE
  <2>1. PICK i \in DOMAIN t : t[i] \in N
    BY <1>7 DEF Has
  <2>2. i \in 1..Len(t)
    OBVIOUS
  <2>3. i + 1 \in DOMAIN s /\ 1 < i + 1 /\ s[i + 1] \in N
    BY <1>1, <1>2, <2>1, <2>2
  <2> QED
    BY <1>1, <1>7, <2>3 DEF NoneBefore
<1>8. ASSUME NEW M, NEW N, Follows(s, M, N), s[1] \notin N
      PROVE  Follows(t, M, N)
  <2> SUFFICES ASSUME NEW i \in DOMAIN t, t[i] \in M
               PROVE  \E j \in DOMAIN t : j < i /\ t[j] \in N
    BY DEF Follows
  <2>1. i + 1 \in DOMAIN s /\ s[i + 1] \in M
    BY <1>2
  <2>2. PICK j \in DOMAIN s : j < i + 1 /\ s[j] \in N
    BY <1>8, <2>1 DEF Follows
  <2>3. j - 1 \in DOMAIN t /\ t[j - 1] = s[j] /\ j - 1 < i
    BY <1>1, <1>3, <1>8, <2>2
  <2> QED
    BY <2>2, <2>3
<1> QED
  BY <1>4, <1>5, <1>6, <1>7, <1>8

LEMMA GrowsOrder ==
  ASSUME NEW S, NEW s \in Seq(S), NEW t \in Seq(S), NEW L, Grows(s, t, L)
  PROVE  /\ \A M : Has(s, M) => Has(t, M)
         /\ \A M : Has(t, M) => Has(s, M) \/ M \cap L # {}
         /\ \A M, N : NoneBefore(s, M, N) /\ (N \cap L = {} \/ (~ Has(s, M) /\ M \cap L = {}))
                        => NoneBefore(t, M, N)
         /\ \A M, N : Follows(s, M, N) /\ (Has(s, N) \/ M \cap L = {}) => Follows(t, M, N)
<1>1. DOMAIN s \subseteq Int /\ DOMAIN t \subseteq Int
  OBVIOUS
<1>2. \A i \in DOMAIN s : i \in DOMAIN t /\ t[i] = s[i]
  BY DEF Grows
<1>3. \A i \in DOMAIN t : i \in DOMAIN s \/ (t[i] \in L /\ \A j \in DOMAIN s : j < i)
  BY DEF Grows
<1>4. ASSUME NEW M, Has(s, M)
      PROVE  Has(t, M)
  BY <1>2, <1>4 DEF Has
<1>5. ASSUME NEW M, Has(t, M), M \cap L = {}
      PROVE  Has(s, M)
  <2>1. PICK i \in DOMAIN t : t[i] \in M
    BY <1>5 DEF Has
  <2>2. i \in DOMAIN s
    BY <1>3, <1>5, <2>1
  <2> QED
    BY <1>2, <2>1, <2>2 DEF Has
<1>6. ASSUME NEW M, NEW N, NoneBefore(s, M, N), N \cap L = {} \/ (~ Has(s, M) /\ M \cap L = {})
      PROVE  NoneBefore(t, M, N)
  <2> SUFFICES ASSUME NEW i \in DOMAIN t, NEW j \in DOMAIN t, t[i] \in N, j < i, t[j] \in M
               PROVE  FALSE
    BY DEF NoneBefore
  <2>1. CASE N \cap L = {}
    <3>1. i \in DOMAIN s
      BY <1>3, <2>1
    <3>2. j \in DOMAIN s
      BY <1>1, <1>3, <3>1
    <3> QED
      BY <1>2, <1>6, <3>1, <3>2 DEF NoneBefore
  <2>2. CASE ~ Has(s, M) /\ M \cap L = {}
    <3>1. Has(t, M)
      BY DEF Has
    <3> QED
      BY <1>5, <2>2, <3>1
  <2> QED
    BY <1>6, <2>1, <2>2
<1>7. ASSUME NEW M, NEW N, Follows(s, M, N), Has(s, N) \/ M \cap L = {}
      PROVE  Follows(t, M, N)
  <2> SUFFICES ASSUME NEW i \in DOMAIN t, t[i] \in M
               PROVE  \E j \in DOMAIN t : j < i /\ t[j] \in N
    BY DEF Follows
  <2>1. CASE i \in DOMAIN s
    <3>1. PICK j \in DOMAIN s : j < i /\ s[j] \in N
      BY <1>2, <1>7, <2>1 DEF Follows
    <3> QED
      BY <1>2, <3>1
  <2>2. CASE i \notin DOMAIN s
    <3>1. t[i] \in L /\ \A j \in DOMAIN s : j < i
      BY <1>3, <2>2
    <3>2. PICK j \in DOMAIN s : s[j] \in N
      BY <1>7, <3>1 DEF Has
    <3> QED
      BY <1>2, <3>1, <3>2
  <2> QED
    BY <2>1, <2>2
<1> QED
  BY <1>4, <1>5, <1>6, <1>7

-----------------------------------------------------------------------------
(***************************************************************************)
(* The order in which a process hears from the coordinator and from its    *)
(* neighbors: first who these are, then its Mi, then a Y.                  *)
(***************************************************************************)
Positive == Nat \ {0}

Rings == {m \in Messages : m.type = "setneighbors"}
Mis == {m \in Messages : m.type = "setpm"}
Ys == {m \in Messages : m.type = "sendy"}
Naming(q) == {m \in Rings : q \in Range(m.ring)}
NotTwo == {m \in Rings : Len(m.ring) # 2}
Others == {m \in Messages : m.type \in {"kill", "vote", "timeout"}}

Letters == [to : Process, message : Messages]

ToSend(M) == {k \in DOMAIN outbox : outbox[k].message \in M}

ToTell(p, M) == {k \in ToSend(M) : outbox[k].to = p}

(***************************************************************************)
(* q is a neighbor of p or is going to be one.                             *)
(***************************************************************************)
Linked(p, q) == q \in Range(neighbors[p]) \/ Has(mailbox[p], Naming(q))

(***************************************************************************)
(* A process that is not yet in a ring; one that has got its first value   *)
(* or will have it before a Y; and one that has got none.                  *)
(***************************************************************************)
Newcomer(p) == p \in greetings \/ state[p] = "new" \/ (phase = "init" /\ p \in Ring)

Started(p) == mi[p] # 0 \/ Has(mailbox[p], Mis)

Told(p) == state[p] = "work" => Started(p)

Untouched(p) == mi[p] = 0 /\ ~ Has(mailbox[p], Mis \cup Ys)

OutboxInv ==
  /\ outbox # << >> => phase \in {"calc", "resetting", "down"}
  /\ ToSend(Rings \cup Mis \cup Ys) # {} => phase = "calc"
  /\ ToSend(NotTwo) = {}
  /\ \A k \in DOMAIN outbox : outbox[k].to \in Ring
  /\ \A k \in ToSend(Rings) : Range(outbox[k].message.ring) \subseteq Ring
  /\ ToSend(Rings) = {} \/ ToSend(Rings) = DOMAIN outbox
  /\ \A k \in ToSend(Mis), l \in ToSend(Ys) : k < l

NeighborsOK(p) == Len(neighbors[p]) \in {0, 2} /\ ~ Has(mailbox[p], NotTwo)

Joined(p) == Len(neighbors[p]) = 2 \/ Has(mailbox[p], Rings) \/ ToTell(p, Rings) # {}

LinksInv ==
  /\ \A p \in Process : NeighborsOK(p)
  /\ \A p \in Process : state[p] = "work" /\ (Started(p) \/ (phase = "calc" /\ p \in Ring)) =>
                         Joined(p)
  /\ \A p \in Process : Newcomer(p) => Untouched(p)
  /\ \A p, q \in Process :
       Linked(p, q) => ~ Newcomer(p) /\ ~ Newcomer(q) /\ (q \in Ring <=> p \in Ring)

MailOK(p) ==
  /\ Has(mailbox[p], Rings) => mi[p] = 0
  /\ NoneBefore(mailbox[p], Mis \cup Ys, Rings)
  /\ mi[p] # 0 \/ Follows(mailbox[p], Ys, Mis)

(***************************************************************************)
(* The stages of a ring: no value before all have their neighbors, no Y    *)
(* before all have their first Mi on its way, also in a ring that an       *)
(* earlier coordinator has left.                                           *)
(***************************************************************************)
AllTold == \A p \in Ring : Told(p)

StageInv ==
  /\ ToSend(Rings) # {} => \A p \in Ring : Untouched(p)
  /\ \/ \A p \in Ring : Told(p) \/ ToTell(p, Mis) # {}
     \/ (\A p \in Ring : Untouched(p)) /\ ToSend(Mis \cup Ys) = {}
  /\ \A p \in Ring : Has(mailbox[p], Ys) => AllTold
  /\ \A p, q \in Process :
       state[p] = "work" /\ Started(p) /\ p \notin Ring /\ Linked(p, q) => Told(q)

OrderInv == OutboxInv /\ LinksInv /\ (\A p \in Process : MailOK(p)) /\ StageInv

Base == ValuesIn(Positive)

-----------------------------------------------------------------------------
(***************************************************************************)
(* What a step does to a mailbox.                                          *)
(***************************************************************************)
LEMMA Kinds ==
  /\ Rings \cap Mis = {} /\ Rings \cap Ys = {} /\ Mis \cap Ys = {}
  /\ Others \cap (Rings \cup Mis \cup Ys) = {}
  /\ NotTwo \subseteq Rings /\ \A q : Naming(q) \subseteq Rings
  /\ Messages = Rings \cup Mis \cup Ys \cup Others
BY DEF Rings, Mis, Ys, Naming, NotTwo, Others, Messages

LEMMA BaseFacts ==
  ASSUME Base
  PROVE  /\ mailbox \in [Process -> Seq(Messages)]
         /\ mi \in [Process -> Nat] /\ neighbors \in [Process -> Seq(Process)]
         /\ state \in [Process -> {"new", "work", "dead", "crashed"}]
         /\ outbox \in Seq(Letters)
         /\ clientList \in Seq(Process) /\ Ring \subseteq Process
         /\ phase \in {"init", "calc", "resetting", "down", "crashed"}
         /\ \A p \in greetings \cup Ring : state[p] # "new"
         /\ greetings \cap Ring = {} /\ greetings \subseteq Process
<1>1. GGTTypeOK
  BY ValuesTyped DEF Base, Positive
<1> QED
  BY <1>1 DEF GGTTypeOK, Base, ValuesIn, HelloOK, Letters, Ring

LEMMA OutboxEntries ==
  ASSUME Base
  PROVE  \A k \in DOMAIN outbox : outbox[k].to \in Process /\ outbox[k].message \in Messages
<1>1. outbox \in Seq(Letters)
  BY BaseFacts
<1>2. \A k \in DOMAIN outbox : outbox[k] \in Letters
  BY <1>1
<1> QED
  BY <1>2 DEF Letters

LEMMA TakesFirst ==
  ASSUME Base, OneNode, NEW p \in Process, NEW i \in DOMAIN mailbox[p],
         NEW type, Receives(p, i, type)
  PROVE  /\ i = 1 /\ 1 \in DOMAIN mailbox[p] /\ state[p] = "work"
         /\ mailbox[p] \in Seq(Messages) /\ RemoveAt(mailbox[p], 1) \in Seq(Messages)
         /\ Drops(mailbox[p], RemoveAt(mailbox[p], 1))
         /\ mailbox[p][1] \in Messages /\ mailbox[p][1].type = type
         /\ Taken(p, i) = [mailbox EXCEPT ![p] = RemoveAt(mailbox[p], 1)]
         /\ \A q \in Process : Taken(p, i)[q] = IF q = p THEN RemoveAt(mailbox[p], 1) ELSE mailbox[q]
<1>1. mailbox \in [Process -> Seq(Messages)]
  BY BaseFacts
<1>2. mailbox[p] \in Seq(Messages)
  BY <1>1
<1>3. i = 1 /\ state[p] = "work" /\ mailbox[p][1].type = type
  BY DEF Receives
<1>4. RemoveAt(mailbox[p], 1) \in Seq(Messages) /\ Drops(mailbox[p], RemoveAt(mailbox[p], 1))
  <2> DEFINE s == mailbox[p]
  <2>1. s \in Seq(Messages) /\ 1 \in DOMAIN s
    BY <1>2, <1>3
  <2> HIDE DEF s
  <2>2. RemoveAt(s, 1) \in Seq(Messages) /\ Drops(s, RemoveAt(s, 1))
    BY <2>1, FirstRemoved, RemoveAtType
  <2> QED
    BY <2>2 DEF s
<1>5. mailbox[p][1] \in Messages
  BY <1>2, <1>3
<1>6. Taken(p, i) = [mailbox EXCEPT ![p] = RemoveAt(mailbox[p], 1)]
  BY <1>3 DEF Taken
<1>7. \A q \in Process : Taken(p, i)[q] = IF q = p THEN RemoveAt(mailbox[p], 1) ELSE mailbox[q]
  BY <1>1, <1>6
<1> QED
  BY <1>2, <1>3, <1>4, <1>5, <1>6, <1>7

(***************************************************************************)
(* A mailbox in which only messages of timers, of the name service or a    *)
(* kill have come or gone.                                                 *)
(***************************************************************************)
SameLetters(s, t) == t = s \/ Grows(s, t, Others) \/ (Drops(s, t) /\ s[1] \in Others)

LEMMA SameLettersOrder ==
  ASSUME NEW s \in Seq(Messages), NEW t \in Seq(Messages), SameLetters(s, t)
  PROVE  /\ \A M : M \subseteq Rings \cup Mis \cup Ys => (Has(t, M) <=> Has(s, M))
         /\ \A M, N : /\ M \subseteq Rings \cup Mis \cup Ys /\ N \subseteq Rings \cup Mis \cup Ys
                      => /\ NoneBefore(s, M, N) => NoneBefore(t, M, N)
                         /\ Follows(s, M, N) => Follows(t, M, N)
<1>0. \A M : M \subseteq Rings \cup Mis \cup Ys => M \cap Others = {}
  BY Kinds
<1>1. CASE t = s
  BY <1>1
<1>2. CASE Grows(s, t, Others)
  BY <1>0, <1>2, GrowsOrder
<1>3. CASE Drops(s, t) /\ s[1] \in Others
  <2>1. \A M : M \subseteq Rings \cup Mis \cup Ys => s[1] \notin M
    BY <1>0, <1>3
  <2>2. /\ \A M : Has(t, M) => Has(s, M)
        /\ \A M : Has(s, M) /\ s[1] \notin M => Has(t, M)
        /\ \A M, N : NoneBefore(s, M, N) => NoneBefore(t, M, N)
        /\ \A M, N : Follows(s, M, N) /\ s[1] \notin N => Follows(t, M, N)
    BY <1>3, DropsOrder
  <2> QED
    BY <2>1, <2>2
<1> QED
  BY <1>1, <1>2, <1>3 DEF SameLetters

LEMMA Parts ==
  /\ Rings \subseteq Rings \cup Mis \cup Ys /\ Mis \subseteq Rings \cup Mis \cup Ys
  /\ Ys \subseteq Rings \cup Mis \cup Ys /\ Mis \cup Ys \subseteq Rings \cup Mis \cup Ys
  /\ NotTwo \subseteq Rings \cup Mis \cup Ys
  /\ \A q : Naming(q) \subseteq Rings \cup Mis \cup Ys
BY DEF Naming, NotTwo

LEMMA BaseFactsNext ==
  ASSUME Base'
  PROVE  /\ mailbox' \in [Process -> Seq(Messages)]
         /\ mi' \in [Process -> Nat]
<1>1. mailbox' \in [Process -> Seq(Carrying(Positive))] /\ mi' \in [Process -> Positive \cup {0}]
  BY DEF Base, ValuesIn, MailboxOK, ProcessesOK, Carrying, Messages, Positive
<1>2. Carrying(Positive) \subseteq Messages /\ Positive \cup {0} \subseteq Nat
  BY DEF Carrying, Positive
<1>3. Seq(Carrying(Positive)) \subseteq Seq(Messages)
  BY <1>2
<1> QED
  BY <1>1, <1>2, <1>3
(***************************************************************************)
(* A step that changes no process's part in the order: the mailboxes hold  *)
(* no more than before, and who was told remains told.                     *)
(***************************************************************************)
Continues ==
  /\ UNCHANGED <<phase, clientList, outbox>>
  /\ \A p \in Process : Newcomer(p)' => Newcomer(p)
  /\ \A p \in Process : Untouched(p) => Untouched(p)'
  /\ \A p, q \in Process : Linked(p, q)' => Linked(p, q)
  /\ \A p \in Process : Told(p) /\ (p \in Ring \/ ~ Newcomer(p)) => Told(p)'
  /\ \A p \in Process : (state[p] = "work" /\ Started(p))' => state[p] = "work" /\ Started(p)
  /\ \A p \in Ring : state'[p] = "work" => state[p] = "work"
  /\ \A p \in Process : state'[p] = "work" /\ Joined(p) => Joined(p)'
  /\ \A p \in Process : MailOK(p)' /\ NeighborsOK(p)'

LEMMA ContinuesOrder ==
  ASSUME Base, OrderInv, Continues,
         \A p \in Process : Has(mailbox[p], Ys)' =>
           \E q \in Process : Has(mailbox[q], Ys) /\ (p \in Ring => q \in Ring)
  PROVE  OrderInv'
<1>0. Ring \subseteq Process
  BY BaseFacts
<1>1. Ring' = Ring /\ phase' = phase /\ outbox' = outbox
  BY DEF Continues, Ring
<1>2. \A M : ToSend(M)' = ToSend(M)
  BY <1>1 DEF ToSend
<1>3. \A p \in Process : ToTell(p, Mis)' = ToTell(p, Mis)
  BY <1>1 DEF ToTell, ToSend, Mis, Messages
<1>3a. /\ ToSend(Rings)' = ToSend(Rings) /\ ToSend(Mis)' = ToSend(Mis) /\ ToSend(Ys)' = ToSend(Ys)
       /\ ToSend(Mis \cup Ys)' = ToSend(Mis \cup Ys) /\ ToSend(NotTwo)' = ToSend(NotTwo)
       /\ ToSend(Rings \cup Mis \cup Ys)' = ToSend(Rings \cup Mis \cup Ys)
  BY <1>1 DEF ToSend, Rings, Mis, Ys, NotTwo, Messages
<1>4. OutboxInv'
  BY <1>1, <1>3a DEF OrderInv, OutboxInv
<1>5. LinksInv'
  <2>1. /\ \A p \in Process : Newcomer(p) => Untouched(p)
        /\ \A p \in Process : NeighborsOK(p)
        /\ \A p, q \in Process :
             Linked(p, q) => ~ Newcomer(p) /\ ~ Newcomer(q) /\ (q \in Ring <=> p \in Ring)
        /\ \A p \in Process : state[p] = "work" /\ (Started(p) \/ (phase = "calc" /\ p \in Ring)) =>
                         Joined(p)
    BY DEF OrderInv, LinksInv
  <2>2. ASSUME NEW p \in Process, state'[p] = "work",
               Started(p)' \/ (phase' = "calc" /\ p \in Ring')
        PROVE  Joined(p)'
    BY <1>1, <2>1, <2>2 DEF Continues
  <2>3. \A p \in Process : Newcomer(p)' => Untouched(p)'
    BY <2>1 DEF Continues
  <2>4. \A p, q \in Process :
          Linked(p, q)' => ~ Newcomer(p)' /\ ~ Newcomer(q)' /\ (q \in Ring' <=> p \in Ring')
    BY <1>1, <2>1 DEF Continues
  <2> QED
    BY <2>2, <2>3, <2>4 DEF Continues, LinksInv
<1>6. AllTold => AllTold'
  BY <1>0, <1>1 DEF Continues, AllTold
<1>7. StageInv'
  <2>1. ToSend(Rings)' # {} => \A p \in Ring' : Untouched(p)'
    BY <1>0, <1>1, <1>3a DEF Continues, OrderInv, StageInv
  <2>2. \/ \A p \in Ring' : Told(p)' \/ ToTell(p, Mis)' # {}
        \/ (\A p \in Ring' : Untouched(p)') /\ ToSend(Mis \cup Ys)' = {}
    BY <1>0, <1>1, <1>3, <1>3a DEF Continues, OrderInv, StageInv
  <2>3. ASSUME NEW p \in Ring', Has(mailbox[p], Ys)'
        PROVE  AllTold'
    BY <1>0, <1>1, <1>6, <2>3 DEF OrderInv, StageInv
  <2>4. ASSUME NEW p \in Process, NEW q \in Process,
               (state[p] = "work" /\ Started(p) /\ p \notin Ring /\ Linked(p, q))'
        PROVE  Told(q)'
    BY <1>1, <2>4 DEF Continues, OrderInv, StageInv, LinksInv
  <2> QED
    BY <2>1, <2>2, <2>3, <2>4 DEF StageInv
<1> QED
  BY <1>4, <1>5, <1>7 DEF OrderInv, Continues

LEMMA SameLettersContinue ==
  ASSUME Base, OrderInv, Base', \A p \in Process : SameLetters(mailbox[p], mailbox'[p]),
         UNCHANGED <<phase, clientList, outbox, mi, neighbors, state>>, greetings' \subseteq greetings
  PROVE  OrderInv'
<1>0. \A p \in Process : mailbox[p] \in Seq(Messages) /\ mailbox'[p] \in Seq(Messages)
  BY BaseFacts, BaseFactsNext
<1>1. ASSUME NEW p \in Process
      PROVE  /\ Newcomer(p)' => Newcomer(p)
             /\ Untouched(p) => Untouched(p)'
             /\ Started(p)' <=> Started(p)
             /\ Has(mailbox[p], Ys)' => Has(mailbox[p], Ys)
             /\ MailOK(p)' /\ NeighborsOK(p)'
             /\ Joined(p) => Joined(p)'
  <2>1. /\ \A M : M \subseteq Rings \cup Mis \cup Ys => (Has(mailbox'[p], M) <=> Has(mailbox[p], M))
        /\ \A M, N : /\ M \subseteq Rings \cup Mis \cup Ys /\ N \subseteq Rings \cup Mis \cup Ys
                      => /\ NoneBefore(mailbox[p], M, N) => NoneBefore(mailbox'[p], M, N)
                         /\ Follows(mailbox[p], M, N) => Follows(mailbox'[p], M, N)
    <3>1. SameLetters(mailbox[p], mailbox'[p])
      OBVIOUS
    <3> QED
      BY <1>0, <3>1, SameLettersOrder
  <2>2. mi' = mi /\ Rings' = Rings /\ Mis' = Mis /\ Ys' = Ys
    BY DEF Rings, Mis, Ys, Messages
  <2>3. MailOK(p)
    BY DEF OrderInv
  <2>4. MailOK(p)'
    BY <2>1, <2>2, <2>3, Parts DEF MailOK
  <2>5. Newcomer(p)' => Newcomer(p)
    BY DEF Newcomer, Ring
  <2>6. (Untouched(p) => Untouched(p)') /\ (Started(p)' <=> Started(p))
        /\ (Has(mailbox[p], Ys)' => Has(mailbox[p], Ys))
    BY <2>1, <2>2, Parts DEF Untouched, Started
  <2>7. NotTwo' = NotTwo /\ NeighborsOK(p) /\ neighbors' = neighbors
    BY DEF NotTwo, Rings, Messages, OrderInv, LinksInv
  <2>8. NeighborsOK(p)'
    BY <2>1, <2>7, Parts DEF NeighborsOK
  <2>9. Joined(p) => Joined(p)'
    BY <2>1, <2>2, <2>7, Parts DEF Joined, ToTell, ToSend
  <2> QED
    BY <2>4, <2>5, <2>6, <2>8, <2>9
<1>2. ASSUME NEW p \in Process, NEW q \in Process, Linked(p, q)'
      PROVE  Linked(p, q)
  <2>1. Has(mailbox'[p], Naming(q)) => Has(mailbox[p], Naming(q))
    BY <1>0, SameLettersOrder, Parts
  <2>2. Naming(q)' = Naming(q) /\ neighbors' = neighbors
    BY DEF Naming, Rings, Messages
  <2> QED
    BY <1>2, <2>1, <2>2 DEF Linked
<1>3. Continues
  BY <1>1, <1>2 DEF Continues, Told
<1> QED
  BY <1>1, <1>3, ContinuesOrder

-----------------------------------------------------------------------------
(***************************************************************************)
(* The processes' steps keep the order.                                    *)
(***************************************************************************)
LEMMA StartProcessOrder ==
  ASSUME Base, OrderInv, NEW p \in Process, StartProcess(p)
  PROVE  OrderInv'
<1>1. /\ state' = [state EXCEPT ![p] = "work"] /\ greetings' = greetings \cup {p}
      /\ state[p] = "new" /\ UNCHANGED <<phase, clientList, outbox, mi, neighbors, mailbox>>
  BY DEF StartProcess, coordVars
<1>2. Newcomer(p) /\ p \notin Ring
  BY <1>1, BaseFacts DEF Newcomer
<1>3. \A q \in Process : Newcomer(q)' => Newcomer(q)
  BY <1>1, <1>2, BaseFacts DEF Newcomer, Ring
<1>4. /\ \A q \in Process : Untouched(q)' <=> Untouched(q)
      /\ \A q, r \in Process : Linked(q, r)' <=> Linked(q, r)
      /\ \A q \in Process : Started(q)' <=> Started(q)
      /\ \A q \in Process : MailOK(q)' <=> MailOK(q)
      /\ \A q \in Process : NeighborsOK(q)' <=> NeighborsOK(q)
      /\ \A q \in Process : Joined(q)' <=> Joined(q)
      /\ \A q \in Process : Has(mailbox[q], Ys)' <=> Has(mailbox[q], Ys)
  BY <1>1 DEF NeighborsOK, Joined, NotTwo, ToTell, ToSend, Untouched, Linked, Started, MailOK, Has, NoneBefore, Follows, Rings, Mis, Ys,
              Naming, Messages
<1>5. \A q \in Process : q # p => state'[q] = state[q]
  BY <1>1
<1>6. ~ Started(p)
  <2>1. Untouched(p)
    BY <1>2 DEF OrderInv, LinksInv
  <2> QED
    BY <2>1 DEF Untouched, Started, Has
<1>7. Continues
  <2>1. \A q \in Process : Told(q) /\ (q \in Ring \/ ~ Newcomer(q)) => Told(q)'
    BY <1>2, <1>4, <1>5 DEF Told
  <2>2. \A q \in Process : (state[q] = "work" /\ Started(q))' => state[q] = "work" /\ Started(q)
    BY <1>4, <1>5, <1>6
  <2> QED
    BY <1>1, <1>2, <1>3, <1>4, <1>5, <2>1, <2>2 DEF Continues, OrderInv, LinksInv
<1> QED
  BY <1>4, <1>7, ContinuesOrder

LEMMA ReceiveSetneighborsOrder ==
  ASSUME Base, OrderInv, OneNode, NEW p \in Process, NEW i \in DOMAIN mailbox[p],
         ReceiveSetneighbors(p, i)
  PROVE  OrderInv'
<1> DEFINE s == mailbox[p]
           t == RemoveAt(mailbox[p], 1)
<1>1. /\ i = 1 /\ s \in Seq(Messages) /\ t \in Seq(Messages) /\ Drops(s, t)
      /\ 1 \in DOMAIN s /\ s[1] \in Rings
      /\ \A q \in Process : mailbox'[q] = IF q = p THEN t ELSE mailbox[q]
  BY TakesFirst DEF ReceiveSetneighbors, Rings
<1>2. /\ neighbors' = [neighbors EXCEPT ![p] = s[1].ring] /\ mi' = [mi EXCEPT ![p] = 0]
      /\ UNCHANGED <<phase, clientList, outbox, greetings, state>>
  BY <1>1 DEF ReceiveSetneighbors, coordVars
<1>3. mi[p] = 0 /\ MailOK(p)
  BY <1>1 DEF OrderInv, MailOK, Has
<1>4. mi' = mi
  BY <1>2, <1>3, BaseFacts
<1> HIDE DEF s, t
<1>5. /\ \A M : Has(t, M) => Has(s, M)
      /\ \A M : Has(s, M) /\ s[1] \notin M => Has(t, M)
      /\ \A M, N : NoneBefore(s, M, N) => NoneBefore(t, M, N)
      /\ \A M, N : Follows(s, M, N) /\ s[1] \notin N => Follows(t, M, N)
  BY <1>1, DropsOrder
<1>6. s[1] \notin Mis
  BY <1>1, Kinds
<1>7. /\ Rings' = Rings /\ Mis' = Mis /\ Ys' = Ys /\ NotTwo' = NotTwo
      /\ \A q \in Process : ToTell(q, Rings)' = ToTell(q, Rings)
  BY <1>2 DEF Rings, Mis, Ys, NotTwo, Messages, ToTell, ToSend
<1>71. NeighborsOK(p) /\ Len(s[1].ring) = 2
  <2>1. NeighborsOK(p)
    BY DEF OrderInv, LinksInv
  <2>2. s[1] \notin NotTwo
    BY <1>1, <2>1 DEF NeighborsOK, Has, s
  <2> QED
    BY <1>1, <2>1, <2>2 DEF NotTwo
<1>72. \A q \in Process : neighbors'[q] = IF q = p THEN s[1].ring ELSE neighbors[q]
  BY <1>2, BaseFacts
<1>8. ASSUME NEW q \in Process
      PROVE  /\ Newcomer(q)' => Newcomer(q)
             /\ Untouched(q) => Untouched(q)'
             /\ Started(q)' <=> Started(q)
             /\ Has(mailbox[q], Ys)' => Has(mailbox[q], Ys)
             /\ MailOK(q)' /\ NeighborsOK(q)'
             /\ Joined(q) => Joined(q)'
  <2>1. Newcomer(q)' => Newcomer(q)
    BY <1>2 DEF Newcomer, Ring
  <2>2. CASE q # p
    <3>1. MailOK(q) /\ NeighborsOK(q)
      BY DEF OrderInv, LinksInv
    <3> QED
      BY <1>1, <1>4, <1>7, <1>72, <2>1, <2>2, <3>1
      DEF Untouched, Started, MailOK, NeighborsOK, Joined
  <2>3. CASE q = p
    <3>1. NeighborsOK(q)' /\ Joined(q)'
      BY <1>1, <1>5, <1>7, <1>71, <1>72, <2>3 DEF NeighborsOK, Joined, s
    <3> QED
      BY <1>1, <1>3, <1>4, <1>5, <1>6, <1>7, <2>1, <2>3, <3>1 DEF Untouched, Started, MailOK, s
  <2> QED
    BY <2>2, <2>3
<1>9. ASSUME NEW q \in Process, NEW r \in Process, Linked(q, r)'
      PROVE  Linked(q, r)
  <2>1. Naming(r)' = Naming(r)
    BY DEF Naming, Rings, Messages
  <2>2. neighbors \in [Process -> Seq(Process)]
    BY BaseFacts
  <2>3. CASE q # p
    BY <1>1, <1>2, <1>9, <2>1, <2>2, <2>3 DEF Linked
  <2>4. CASE q = p
    <3>1. r \in Range(s[1].ring) \/ Has(t, Naming(r))
      BY <1>1, <1>2, <1>9, <2>1, <2>2, <2>4 DEF Linked
    <3>2. r \in Range(s[1].ring) => Has(s, Naming(r))
      BY <1>1 DEF Naming, Has
    <3> QED
      BY <1>5, <2>4, <3>1, <3>2 DEF Linked, s
  <2> QED
    BY <2>3, <2>4
<1>10. Continues
  BY <1>2, <1>8, <1>9 DEF Continues, Told
<1> QED
  BY <1>8, <1>10, ContinuesOrder

LEMMA ReceiveSetpmOrder ==
  ASSUME Base, OrderInv, OneNode, NEW p \in Process, NEW i \in DOMAIN mailbox[p],
         ReceiveSetpm(p, i)
  PROVE  OrderInv'
<1> DEFINE s == mailbox[p]
           t == RemoveAt(mailbox[p], 1)
<1>1. /\ i = 1 /\ s \in Seq(Messages) /\ t \in Seq(Messages) /\ Drops(s, t)
      /\ 1 \in DOMAIN s /\ s[1] \in Mis
      /\ \A q \in Process : mailbox'[q] = IF q = p THEN t ELSE mailbox[q]
  BY TakesFirst DEF ReceiveSetpm, Mis
<1>2. /\ mi' = [mi EXCEPT ![p] = s[1].nr]
      /\ UNCHANGED <<phase, clientList, outbox, greetings, state, neighbors>>
  BY <1>1 DEF ReceiveSetpm, coordVars
<1>3. MailOK(p) /\ Has(s, Mis)
  BY <1>1 DEF OrderInv, Has
<1>4. /\ mi'[p] # 0
      /\ \A q \in Process : q # p => mi'[q] = mi[q]
  <2>1. s[1] \in Carrying(Positive)
    BY <1>1, TakenType DEF Base, ValuesIn
  <2>2. s[1].nr \in Positive
    BY <1>1, <2>1 DEF Carrying, Mis
  <2>3. mi'[p] = s[1].nr /\ \A q \in Process : q # p => mi'[q] = mi[q]
    BY <1>2, BaseFacts
  <2> QED
    BY <2>2, <2>3 DEF Positive
<1> HIDE DEF s, t
<1>5. /\ \A M : Has(t, M) => Has(s, M)
      /\ \A M, N : NoneBefore(s, M, N) => NoneBefore(t, M, N)
      /\ \A M, N : NoneBefore(s, M, N) /\ s[1] \in M => ~ Has(t, N)
  BY <1>1, DropsOrder
<1>6. ~ Has(t, Rings)
  <2>1. NoneBefore(s, Mis \cup Ys, Rings)
    BY <1>3 DEF MailOK, s
  <2> QED
    BY <1>1, <1>5, <2>1
<1>7. /\ Rings' = Rings /\ Mis' = Mis /\ Ys' = Ys /\ NotTwo' = NotTwo
      /\ \A q \in Process : ToTell(q, Rings)' = ToTell(q, Rings)
  BY <1>2 DEF Rings, Mis, Ys, NotTwo, Messages, ToTell, ToSend
<1>8. Has(s, Mis \cup Ys)
  BY <1>3 DEF Has
<1>9. ASSUME NEW q \in Process
      PROVE  /\ Newcomer(q)' => Newcomer(q)
             /\ Untouched(q) => Untouched(q)'
             /\ Started(q)' <=> Started(q)
             /\ Has(mailbox[q], Ys)' => Has(mailbox[q], Ys)
             /\ MailOK(q)' /\ NeighborsOK(q)'
             /\ Joined(q) => Joined(q)'
  <2>1. Newcomer(q)' => Newcomer(q)
    BY <1>2 DEF Newcomer, Ring
  <2>2. CASE q # p
    <3>1. MailOK(q) /\ NeighborsOK(q)
      BY DEF OrderInv, LinksInv
    <3> QED
      BY <1>1, <1>2, <1>4, <1>7, <2>1, <2>2, <3>1
      DEF Untouched, Started, MailOK, NeighborsOK, Joined
  <2>3. CASE q = p
    <3>1. NeighborsOK(q)' /\ (Joined(q) => Joined(q)')
      <4>1. s[1] \notin Rings
        BY <1>1, Kinds
      <4>2. NeighborsOK(q)
        BY DEF OrderInv, LinksInv
      <4>3. Has(s, Rings) => Has(t, Rings)
        BY <1>1, <4>1, DropsOrder
      <4> QED
        BY <1>1, <1>2, <1>5, <1>7, <2>3, <4>2, <4>3 DEF NeighborsOK, Joined, s
    <3> QED
      BY <1>1, <1>3, <1>4, <1>5, <1>6, <1>7, <1>8, <2>1, <2>3, <3>1
      DEF Untouched, Started, MailOK, s
  <2> QED
    BY <2>2, <2>3
<1>10. ASSUME NEW q \in Process, NEW r \in Process, Linked(q, r)'
       PROVE  Linked(q, r)
  <2>1. Naming(r)' = Naming(r)
    BY DEF Naming, Rings, Messages
  <2>2. Has(mailbox'[q], Naming(r)) => Has(mailbox[q], Naming(r))
    BY <1>1, <1>5 DEF s
  <2> QED
    BY <1>2, <1>10, <2>1, <2>2 DEF Linked
<1>11. Continues
  BY <1>2, <1>9, <1>10 DEF Continues, Told
<1> QED
  BY <1>9, <1>11, ContinuesOrder

LEMMA HasTwoNeighbors ==
  ASSUME Base, OrderInv, NEW p \in Process, state[p] = "work", mi[p] # 0
  PROVE  Len(neighbors[p]) = 2 /\ neighbors[p] \in Seq(Process)
<1>1. Joined(p)
  BY DEF OrderInv, LinksInv, Started
<1>2. ~ Has(mailbox[p], Rings)
  BY DEF OrderInv, MailOK
<1>3. ToTell(p, Rings) = {}
  <2> SUFFICES ASSUME NEW k \in ToTell(p, Rings)
               PROVE  FALSE
    OBVIOUS
  <2>1. k \in ToSend(Rings) /\ k \in DOMAIN outbox /\ outbox[k].to = p
    BY DEF ToTell, ToSend
  <2>2. p \in Ring
    BY <2>1 DEF OrderInv, OutboxInv
  <2>3. Untouched(p)
    BY <2>1, <2>2 DEF OrderInv, StageInv
  <2> QED
    BY <2>3 DEF Untouched
<1> QED
  BY <1>1, <1>2, <1>3, BaseFacts DEF Joined

LEMMA NeighborsAreTold ==
  ASSUME Base, OrderInv, NEW p \in Process, state[p] = "work", mi[p] # 0, Has(mailbox[p], Ys),
         NEW q \in Range(neighbors[p])
  PROVE  q \in Process /\ Told(q) /\ (q \in Ring <=> p \in Ring)
<1>1. q \in Process
  BY BaseFacts DEF Range
<1>2. Linked(p, q)
  BY DEF Linked
<1>3. q \in Ring <=> p \in Ring
  BY <1>1, <1>2 DEF OrderInv, LinksInv
<1>4. CASE p \in Ring
  <2>1. AllTold
    BY <1>4 DEF OrderInv, StageInv
  <2> QED
    BY <1>1, <1>3, <1>4, <2>1 DEF AllTold
<1>5. CASE p \notin Ring
  BY <1>1, <1>2, <1>3, <1>5 DEF OrderInv, StageInv, Started
<1> QED
  BY <1>1, <1>3, <1>4, <1>5

LEMMA SendGrows ==
  ASSUME NEW box \in [Process -> Seq(Messages)], NEW out \in [Process -> Seq(Messages)],
         Send(box, out), NEW q \in Process, NEW L, \A i \in DOMAIN out[q] : out[q][i] \in L
  PROVE  /\ Grows(box[q], mailbox'[q], L)
         /\ (state[q] # "work" \/ out[q] = << >>) => mailbox'[q] = box[q]
         /\ state[q] = "work" => mailbox'[q] = box[q] \o out[q]
<1>1. mailbox'[q] = IF state[q] = "work" THEN box[q] \o out[q] ELSE box[q]
  BY DEF Send
<1>2. box[q] \in Seq(Messages) /\ out[q] \in Seq(Messages)
  OBVIOUS
<1>3. Grows(box[q], box[q] \o out[q], L)
  BY <1>2, ConcatGrows
<1>4. Grows(box[q], box[q], L)
  BY DEF Grows
<1>5. out[q] = << >> => box[q] \o out[q] = box[q]
  BY <1>2
<1> QED
  BY <1>1, <1>3, <1>4, <1>5

LEMMA TwoNeighbors ==
  ASSUME NEW s \in Seq(Process), Len(s) = 2, NEW q
  PROVE  /\ Cardinality({k \in 1..2 : s[k] = q}) \in Nat
         /\ Cardinality({k \in 1..2 : s[k] = q}) = 0 <=> q \notin Range(s)
<1> DEFINE K == {k \in 1..2 : s[k] = q}
<1>1. IsFiniteSet(1..2)
  <2>1. 1 \in Int /\ 2 \in Int
    OBVIOUS
  <2> QED
    BY <2>1, FS_Interval
<1>2. IsFiniteSet(K)
  BY <1>1, FS_Subset
<1>3. Cardinality(K) \in Nat /\ (Cardinality(K) = 0 <=> K = {})
  BY <1>2, FS_CardinalityType, FS_EmptySet
<1>4. K = {} <=> q \notin Range(s)
  <2>1. DOMAIN s = 1..2
    OBVIOUS
  <2> QED
    BY <2>1 DEF Range
<1> QED
  BY <1>3, <1>4

LEMMA ReduceEffect ==
  ASSUME Base, OrderInv, OneNode, NEW p \in Process, NEW i \in DOMAIN mailbox[p],
         Receives(p, i, "sendy"), mi[p] # 0, Reduce(p, i)
  PROVE  \E new \in Positive :
           LET y == mailbox[p][1].nr
           IN  /\ y \in Positive /\ y < mi[p] /\ new = calc(mi[p], y)
               /\ \A q \in Process : mi'[q] = IF q = p THEN new ELSE mi[q]
               /\ calculated' = calculated \cup {p} /\ briefs' = briefs \cup {new}
               /\ sendy(p, new) \in Ys
               /\ \A q \in Process :
                    /\ Grows(Taken(p, i)[q], mailbox'[q], {sendy(p, new)})
                    /\ q \notin Range(neighbors[p]) => mailbox'[q] = Taken(p, i)[q]
                    /\ q \in Range(neighbors[p]) /\ state[q] = "work" =>
                         Has(mailbox'[q], {sendy(p, new)})
                    /\ state[q] # "work" => mailbox'[q] = Taken(p, i)[q]
<1> DEFINE y == mailbox[p][1].nr
           new == calc(mi[p], y)
<1>1. /\ i = 1 /\ 1 \in DOMAIN mailbox[p] /\ mailbox[p][1] \in Ys /\ state[p] = "work"
  BY TakesFirst DEF Ys
<1>2. y \in Positive /\ mi[p] \in Positive
  <2>1. mailbox[p][1] \in Carrying(Positive)
    BY <1>1, TakenType DEF Base, ValuesIn
  <2>2. mi[p] \in Positive \cup {0}
    BY DEF Base, ValuesIn, ProcessesOK
  <2> QED
    BY <1>1, <2>1, <2>2 DEF Carrying, Ys
<1>3. new \in Positive
  BY <1>2, ClosedPositive DEF Closed, Reduces, Positive
<1> DEFINE out == [q \in Process |->
             [k \in 1..Cardinality({s \in 1..2 : neighbors[p][s] = q}) |-> sendy(p, new)]]
<1>4. /\ y < mi[p] /\ mi' = [mi EXCEPT ![p] = new]
      /\ calculated' = calculated \cup {p} /\ briefs' = briefs \cup {new}
      /\ Send(Taken(p, i), out)
  BY <1>1 DEF Reduce
<1>5. \A q \in Process : mi'[q] = IF q = p THEN new ELSE mi[q]
  BY <1>4, BaseFacts
<1> HIDE DEF new
<1>6. sendy(p, new) \in Ys
  <2>1. << >> \in Seq(Process)
    OBVIOUS
  <2> QED
    BY <1>3, <2>1 DEF sendy, Message, Ys, Messages, Positive
<1>7. Len(neighbors[p]) = 2 /\ neighbors[p] \in Seq(Process)
  BY <1>1, HasTwoNeighbors
<1>8. \A q \in Process :
        /\ Cardinality({s \in 1..2 : neighbors[p][s] = q}) \in Nat
        /\ Cardinality({s \in 1..2 : neighbors[p][s] = q}) = 0 <=> q \notin Range(neighbors[p])
  BY <1>7, TwoNeighbors
<1>9. ASSUME NEW q \in Process
      PROVE  /\ out[q] \in Seq(Messages) /\ \A k \in DOMAIN out[q] : out[q][k] = sendy(p, new)
             /\ q \notin Range(neighbors[p]) => out[q] = << >>
             /\ q \in Range(neighbors[p]) => 1 \in DOMAIN out[q]
  <2> DEFINE n == Cardinality({s \in 1..2 : neighbors[p][s] = q})
  <2>1. n \in Nat /\ (n = 0 <=> q \notin Range(neighbors[p]))
    BY <1>8
  <2>2. out[q] = [k \in 1..n |-> sendy(p, new)] /\ sendy(p, new) \in Messages
    BY <1>6 DEF Ys
  <2> HIDE DEF n, out
  <2>3. out[q] \in Seq(Messages) /\ DOMAIN out[q] = 1..n
    BY <2>1, <2>2
  <2>4. n = 0 => out[q] = << >>
    BY <2>2
  <2> QED
    BY <2>1, <2>2, <2>3, <2>4
<1>10. out \in [Process -> Seq(Messages)]
  BY <1>9
<1>11. Taken(p, i) \in [Process -> Seq(Messages)]
  <2>1. /\ Taken(p, i) = [mailbox EXCEPT ![p] = RemoveAt(mailbox[p], 1)]
        /\ RemoveAt(mailbox[p], 1) \in Seq(Messages)
    BY TakesFirst
  <2>2. mailbox \in [Process -> Seq(Messages)]
    BY BaseFacts
  <2> QED
    BY <2>1, <2>2
<1> HIDE DEF out
<1>12. ASSUME NEW q \in Process
       PROVE  /\ Grows(Taken(p, i)[q], mailbox'[q], {sendy(p, new)})
              /\ q \notin Range(neighbors[p]) => mailbox'[q] = Taken(p, i)[q]
              /\ q \in Range(neighbors[p]) /\ state[q] = "work" =>
                   Has(mailbox'[q], {sendy(p, new)})
              /\ state[q] # "work" => mailbox'[q] = Taken(p, i)[q]
  <2>1. \A k \in DOMAIN out[q] : out[q][k] \in {sendy(p, new)}
    BY <1>9
  <2>2. /\ Grows(Taken(p, i)[q], mailbox'[q], {sendy(p, new)})
        /\ (state[q] # "work" \/ out[q] = << >>) => mailbox'[q] = Taken(p, i)[q]
        /\ state[q] = "work" => mailbox'[q] = Taken(p, i)[q] \o out[q]
    BY <1>4, <1>10, <1>11, <2>1, SendGrows
  <2>3. ASSUME q \in Range(neighbors[p]), state[q] = "work"
        PROVE  Has(mailbox'[q], {sendy(p, new)})
    <3>1. 1 \in DOMAIN out[q] /\ out[q][1] = sendy(p, new)
      BY <1>9, <2>3
    <3>2. ASSUME NEW a \in Seq(Messages), NEW b \in Seq(Messages), 1 \in DOMAIN b
          PROVE  Has(a \o b, {b[1]})
      <4>1. Len(a) + 1 \in DOMAIN (a \o b) /\ (a \o b)[Len(a) + 1] = b[1]
        BY <3>2
      <4> QED
        BY <4>1 DEF Has
    <3>3. Taken(p, i)[q] \in Seq(Messages) /\ out[q] \in Seq(Messages)
      BY <1>10, <1>11
    <3> QED
      BY <2>2, <2>3, <3>1, <3>2, <3>3
  <2> QED
    BY <1>9, <2>2, <2>3
<1> QED
  BY <1>2, <1>3, <1>4, <1>5, <1>6, <1>12 DEF new

LEMMA ReceiveSendyOrder ==
  ASSUME Base, Base', OrderInv, OneNode, NEW p \in Process, NEW i \in DOMAIN mailbox[p],
         ReceiveSendy(p, i)
  PROVE  OrderInv'
<1> DEFINE s == mailbox[p]
           t == RemoveAt(mailbox[p], 1)
<1>1. /\ i = 1 /\ s \in Seq(Messages) /\ t \in Seq(Messages) /\ Drops(s, t)
      /\ 1 \in DOMAIN s /\ s[1] \in Ys /\ state[p] = "work" /\ mi[p] # 0
      /\ \A q \in Process : Taken(p, i)[q] = IF q = p THEN t ELSE mailbox[q]
  BY TakesFirst DEF ReceiveSendy, Ys
<1>2. UNCHANGED <<phase, clientList, outbox, greetings, state, neighbors>>
  BY DEF ReceiveSendy, coordVars
<1>3. MailOK(p) /\ Has(s, Ys)
  BY <1>1 DEF OrderInv, Has
<1>4. PICK Y \in SUBSET Ys :
        /\ \A q \in Process : Grows(Taken(p, i)[q], mailbox'[q], Y)
        /\ \A q \in Process :
             mailbox'[q] = Taken(p, i)[q] \/ (q \in Range(neighbors[p]) /\ state[q] = "work")
        /\ mi'[p] # 0 /\ \A q \in Process : q # p => mi'[q] = mi[q]
  <2>1. CASE Reduce(p, i)
    <3>1. PICK new \in Positive :
            /\ \A q \in Process : mi'[q] = IF q = p THEN new ELSE mi[q]
            /\ sendy(p, new) \in Ys
            /\ \A q \in Process :
                 /\ Grows(Taken(p, i)[q], mailbox'[q], {sendy(p, new)})
                 /\ q \notin Range(neighbors[p]) => mailbox'[q] = Taken(p, i)[q]
                 /\ state[q] # "work" => mailbox'[q] = Taken(p, i)[q]
      BY <1>1, <2>1, ReduceEffect DEF ReceiveSendy
    <3>2. {sendy(p, new)} \in SUBSET Ys
      BY <3>1
    <3>3. mi'[p] # 0
      BY <3>1 DEF Positive
    <3> QED
      BY <3>1, <3>2, <3>3
  <2>2. CASE ~ Reduce(p, i)
    <3>1. mailbox' = Taken(p, i) /\ mi' = mi
      BY <2>2 DEF ReceiveSendy
    <3>2. \A q \in Process : Grows(Taken(p, i)[q], mailbox'[q], {})
      BY <3>1 DEF Grows
    <3>3. {} \in SUBSET Ys
      OBVIOUS
    <3> QED
      BY <1>1, <3>1, <3>2, <3>3
  <2> QED
    BY <2>1, <2>2
<1> HIDE DEF s, t
<1>5. /\ \A M : Has(t, M) => Has(s, M)
      /\ \A M : Has(s, M) /\ s[1] \notin M => Has(t, M)
      /\ \A M, N : NoneBefore(s, M, N) => NoneBefore(t, M, N)
      /\ \A M, N : NoneBefore(s, M, N) /\ s[1] \in M => ~ Has(t, N)
  BY <1>1, DropsOrder
<1>6. ~ Has(t, Rings)
  <2>1. NoneBefore(s, Mis \cup Ys, Rings)
    BY <1>3 DEF MailOK, s
  <2> QED
    BY <1>1, <1>5, <2>1
<1>7. /\ Rings' = Rings /\ Mis' = Mis /\ Ys' = Ys /\ NotTwo' = NotTwo
      /\ \A q \in Process : ToTell(q, Rings)' = ToTell(q, Rings)
  BY <1>2 DEF Rings, Mis, Ys, NotTwo, Messages, ToTell, ToSend
<1>8. \A q \in Process : Taken(p, i)[q] \in Seq(Messages) /\ mailbox'[q] \in Seq(Messages)
  BY <1>1, BaseFacts, BaseFactsNext
<1>9. ASSUME NEW q \in Process
      PROVE  LET b == Taken(p, i)[q]
             IN  /\ \A M : Has(b, M) => Has(mailbox'[q], M)
                 /\ \A M : Has(mailbox'[q], M) => Has(b, M) \/ M \cap Y # {}
                 /\ \A M, N : NoneBefore(b, M, N) /\ N \cap Y = {} => NoneBefore(mailbox'[q], M, N)
                 /\ \A M, N : Follows(b, M, N) /\ Has(b, N) => Follows(mailbox'[q], M, N)
  <2>1. Grows(Taken(p, i)[q], mailbox'[q], Y)
    BY <1>4
  <2> QED
    BY <1>8, <2>1, GrowsOrder
<1>10. /\ Rings \cap Y = {} /\ Mis \cap Y = {} /\ NotTwo \cap Y = {}
       /\ \A q : Naming(q) \cap Y = {}
  BY <1>4, Kinds
<1>11. \A q \in Process : mailbox'[q] = Taken(p, i)[q] \/
         (q \in Range(neighbors[p]) /\ state[q] = "work" /\ Started(q) /\ (q \in Ring <=> p \in Ring))
  BY <1>1, <1>3, <1>4, NeighborsAreTold DEF Told, s
<1>12. s[1] \notin Mis /\ s[1] \notin Rings
  BY <1>1, Kinds
<1>13. ASSUME NEW q \in Process
       PROVE  /\ Newcomer(q)' => Newcomer(q)
              /\ Untouched(q) => Untouched(q)'
              /\ Started(q)' <=> Started(q)
              /\ MailOK(q)' /\ NeighborsOK(q)'
              /\ Joined(q) => Joined(q)'
  <2>1. Newcomer(q)' => Newcomer(q)
    BY <1>2 DEF Newcomer, Ring
  <2>2. MailOK(q) /\ NeighborsOK(q)
    BY DEF OrderInv, LinksInv
  <2>3. CASE q # p
    <3>1. Taken(p, i)[q] = mailbox[q]
      BY <1>1, <2>3
    <3>2. Started(q)' <=> Started(q)
      BY <1>4, <1>7, <1>9, <1>10, <2>3, <3>1 DEF Started
    <3>3. Untouched(q) => Untouched(q)'
      <4>1. CASE mailbox'[q] = mailbox[q]
        BY <1>4, <1>7, <2>3, <4>1 DEF Untouched
      <4>2. CASE mailbox'[q] # mailbox[q]
        <5>1. Started(q)
          BY <1>11, <3>1, <4>2
        <5> QED
          BY <5>1 DEF Started, Untouched, Has
      <4> QED
        BY <4>1, <4>2
    <3>4. NeighborsOK(q)' /\ (Joined(q) => Joined(q)')
      BY <1>2, <1>7, <1>9, <1>10, <2>2, <3>1 DEF NeighborsOK, Joined
    <3>5. MailOK(q)'
      <4>1. Has(mailbox'[q], Rings) => mi'[q] = 0
        BY <1>4, <1>9, <1>10, <2>2, <2>3, <3>1 DEF MailOK
      <4>2. NoneBefore(mailbox'[q], Mis \cup Ys, Rings)
        BY <1>9, <1>10, <2>2, <3>1 DEF MailOK
      <4>3. mi'[q] # 0 \/ Follows(mailbox'[q], Ys, Mis)
        <5>1. CASE mailbox'[q] = mailbox[q]
          BY <1>4, <2>2, <2>3, <5>1 DEF MailOK
        <5>2. CASE mailbox'[q] # mailbox[q]
          <6>1. mi[q] # 0 \/ Has(mailbox[q], Mis)
            BY <1>11, <3>1, <5>2 DEF Started
          <6> QED
            BY <1>4, <1>9, <2>2, <2>3, <3>1, <6>1 DEF MailOK
        <5> QED
          BY <5>1, <5>2
      <4> QED
        BY <1>7, <4>1, <4>2, <4>3 DEF MailOK
    <3> QED
      BY <2>1, <3>2, <3>3, <3>4, <3>5
  <2>4. CASE q = p
    <3>1. Taken(p, i)[q] = t /\ mailbox[q] = s
      BY <1>1, <2>4 DEF s
    <3>2. ~ Untouched(q) /\ Started(q) /\ Started(q)'
      BY <1>1, <1>4, <2>4 DEF Untouched, Started
    <3>3. NeighborsOK(q)' /\ (Joined(q) => Joined(q)')
      BY <1>2, <1>5, <1>7, <1>9, <1>10, <1>12, <2>2, <3>1 DEF NeighborsOK, Joined
    <3>4. MailOK(q)'
      <4>1. ~ Has(mailbox'[q], Rings)
        BY <1>6, <1>9, <1>10, <3>1
      <4>2. NoneBefore(mailbox'[q], Mis \cup Ys, Rings)
        BY <4>1 DEF NoneBefore, Has
      <4> QED
        BY <1>4, <1>7, <2>4, <4>1, <4>2 DEF MailOK
    <3> QED
      BY <2>1, <3>2, <3>3, <3>4
  <2> QED
    BY <2>3, <2>4
<1>14. ASSUME NEW q \in Process, NEW r \in Process, Linked(q, r)'
       PROVE  Linked(q, r)
  <2>1. Naming(r)' = Naming(r)
    BY DEF Naming, Rings, Messages
  <2>2. Has(mailbox'[q], Naming(r)) => Has(Taken(p, i)[q], Naming(r))
    BY <1>9, <1>10
  <2>3. Has(mailbox'[q], Naming(r)) => Has(mailbox[q], Naming(r))
    BY <1>1, <1>5, <2>2 DEF s
  <2> QED
    BY <1>2, <1>14, <2>1, <2>3 DEF Linked
<1>15. Continues
  BY <1>2, <1>13, <1>14 DEF Continues, Told
<1>16. ASSUME NEW q \in Process, Has(mailbox[q], Ys)'
       PROVE  \E r \in Process : Has(mailbox[r], Ys) /\ (q \in Ring => r \in Ring)
  <2>1. CASE mailbox'[q] = Taken(p, i)[q]
    BY <1>1, <1>5, <1>7, <1>16, <2>1 DEF s
  <2>2. CASE mailbox'[q] # Taken(p, i)[q]
    BY <1>3, <1>11, <2>2 DEF s
  <2> QED
    BY <2>1, <2>2
<1> QED
  BY <1>15, <1>16, ContinuesOrder

LEMMA NeverTooEarly ==
  ASSUME Base, OrderInv, OneNode, NEW p \in Process, NEW i \in DOMAIN mailbox[p]
  PROVE  ~ SendyTooEarly(p, i)
<1> SUFFICES ASSUME SendyTooEarly(p, i)
             PROVE  FALSE
  OBVIOUS
<1>1. /\ 1 \in DOMAIN mailbox[p] /\ mailbox[p][1] \in Ys /\ mailbox[p] \in Seq(Messages)
  BY TakesFirst DEF SendyTooEarly, Ys
<1>2. mi[p] = 0
  BY DEF SendyTooEarly
<1>3. Follows(mailbox[p], Ys, Mis)
  BY <1>2 DEF OrderInv, MailOK
<1>4. PICK j \in DOMAIN mailbox[p] : j < 1
  BY <1>1, <1>3 DEF Follows
<1> QED
  BY <1>1, <1>4

LEMMA EndOrder ==
  ASSUME Base, OrderInv, NEW p \in Process, state[p] = "work", NEW how \in {"dead", "crashed"},
         End(p, how)
  PROVE  OrderInv'
<1>1. /\ state' = [state EXCEPT ![p] = how] /\ mailbox' = [mailbox EXCEPT ![p] = << >>]
      /\ UNCHANGED <<phase, clientList, outbox, greetings, neighbors, mi>>
  BY DEF End, coordVars
<1>2. /\ \A q \in Process : mailbox'[q] = IF q = p THEN << >> ELSE mailbox[q]
      /\ \A q \in Process : state'[q] = IF q = p THEN how ELSE state[q]
  BY <1>1, BaseFacts
<1>3. \A M : ~ Has(<< >>, M)
  BY DEF Has
<1>4. /\ Rings' = Rings /\ Mis' = Mis /\ Ys' = Ys /\ NotTwo' = NotTwo
      /\ \A q \in Process : ToTell(q, Rings)' = ToTell(q, Rings)
      /\ \A q \in Process : Naming(q)' = Naming(q)
  BY <1>1 DEF Rings, Mis, Ys, NotTwo, Naming, Messages, ToTell, ToSend
<1>5. ASSUME NEW q \in Process
      PROVE  /\ Newcomer(q)' => Newcomer(q)
             /\ Untouched(q) => Untouched(q)'
             /\ Told(q) => Told(q)'
             /\ (state[q] = "work" /\ Started(q))' => state[q] = "work" /\ Started(q)
             /\ Has(mailbox[q], Ys)' => Has(mailbox[q], Ys)
             /\ MailOK(q)' /\ NeighborsOK(q)'
             /\ state'[q] = "work" => state[q] = "work"
             /\ state'[q] = "work" /\ Joined(q) => Joined(q)'
  <2>1. MailOK(q) /\ NeighborsOK(q)
    BY DEF OrderInv, LinksInv
  <2>2. CASE q # p
    BY <1>1, <1>2, <1>4, <2>1, <2>2
    DEF Newcomer, Ring, Untouched, Told, Started, MailOK, NeighborsOK, Joined
  <2>3. CASE q = p
    <3>1. mailbox'[q] = << >> /\ state'[q] = how
      BY <1>2, <2>3
    <3>2. MailOK(q)' /\ NeighborsOK(q)'
      <4>1. /\ ~ Has(mailbox'[q], Rings) /\ ~ Has(mailbox'[q], NotTwo)
            /\ NoneBefore(mailbox'[q], Mis \cup Ys, Rings) /\ Follows(mailbox'[q], Ys, Mis)
        BY <1>3, <3>1 DEF NoneBefore, Follows
      <4> QED
        BY <1>1, <1>4, <2>1, <4>1 DEF MailOK, NeighborsOK
    <3> QED
      BY <1>1, <1>3, <1>4, <2>3, <3>1, <3>2
      DEF Newcomer, Ring, Untouched, Told, Started
  <2> QED
    BY <2>2, <2>3
<1>6. ASSUME NEW q \in Process, NEW r \in Process, Linked(q, r)'
      PROVE  Linked(q, r)
  <2>1. Has(mailbox'[q], Naming(r)) => Has(mailbox[q], Naming(r))
    BY <1>2, <1>3
  <2> QED
    BY <1>1, <1>4, <1>6, <2>1 DEF Linked
<1>7. Continues
  <2>1. Ring \subseteq Process
    BY BaseFacts
  <2> QED
    BY <1>1, <1>5, <1>6, <2>1 DEF Continues
<1> QED
  BY <1>5, <1>7, ContinuesOrder

-----------------------------------------------------------------------------
(***************************************************************************)
(* Timers, votes and what the coordinator hears keep the order.            *)
(***************************************************************************)
LEMMA OtherMessages ==
  /\ kill \in Others /\ timeout \in Others /\ \A h \in Nat : vote(h) \in Others
<1>1. << >> \in Seq(Process)
  OBVIOUS
<1> QED
  BY <1>1 DEF kill, timeout, vote, Message, Others, Messages

LEMMA AppendGrows ==
  ASSUME NEW s \in Seq(Messages), NEW m \in Messages
  PROVE  Grows(s, Append(s, m), {m})
<1>1. <<m>> \in Seq(Messages) /\ \A i \in DOMAIN <<m>> : <<m>>[i] \in {m}
  OBVIOUS
<1>2. Append(s, m) = s \o <<m>>
  OBVIOUS
<1> QED
  BY <1>1, <1>2, ConcatGrows

LEMMA GrowsMore ==
  ASSUME NEW s, NEW t, NEW L, NEW M, L \subseteq M, Grows(s, t, L)
  PROVE  Grows(s, t, M)
BY DEF Grows

Killings == {m \in Messages : m.type = "kill"}

LEMMA QuietMail ==
  ASSUME Base, OneNode,
         \/ \E p \in Process : TimerFires(p)
         \/ \E h \in DOMAIN votes : Multicast(h)
         \/ \E p \in Process : \E i \in DOMAIN mailbox[p] : ReceiveTimeout(p, i) \/ ReceiveVote(p, i)
         \/ \E v \in briefs : BriefMi(v)
         \/ phase # "init" /\ \E p \in Process : Hello(p)
  PROVE  /\ UNCHANGED <<phase, clientList, outbox, mi, neighbors, state>> /\ greetings' \subseteq greetings
         /\ \A q \in Process :
              /\ SameLetters(mailbox[q], mailbox'[q])
              /\ Has(mailbox'[q], Killings) => Has(mailbox[q], Killings)
<1>1. mailbox \in [Process -> Seq(Messages)]
  BY BaseFacts
<1>2. CASE \E p \in Process : TimerFires(p)
  <2>1. PICK p \in Process : TimerFires(p)
    BY <1>2
  <2>2. mailbox' = [mailbox EXCEPT ![p] = Append(mailbox[p], timeout)]
    BY <2>1 DEF TimerFires
  <2>3. timeout \in Messages /\ {timeout} \subseteq Others /\ Killings \cap {timeout} = {}
    BY OtherMessages DEF Others, Killings, timeout, Message
  <2>4. Grows(mailbox[p], Append(mailbox[p], timeout), {timeout})
    BY <1>1, <2>3, AppendGrows
  <2>5. Has(Append(mailbox[p], timeout), Killings) => Has(mailbox[p], Killings)
    <3>1. mailbox[p] \in Seq(Messages) /\ Append(mailbox[p], timeout) \in Seq(Messages)
      BY <1>1, <2>3
    <3> QED
      BY <2>3, <2>4, <3>1, GrowsOrder
  <2>6. Grows(mailbox[p], Append(mailbox[p], timeout), Others)
    BY <2>3, <2>4, GrowsMore
  <2>7. \A q \in Process : /\ SameLetters(mailbox[q], mailbox'[q])
                           /\ Has(mailbox'[q], Killings) => Has(mailbox[q], Killings)
    BY <1>1, <2>2, <2>5, <2>6 DEF SameLetters
  <2> QED
    BY <2>1, <2>7 DEF TimerFires, coordVars
<1>3. CASE \E h \in DOMAIN votes : Multicast(h)
  <2>1. PICK h \in DOMAIN votes : Multicast(h)
    BY <1>3
  <2>2. h \in Nat
    BY DEF Base, ValuesIn, VotesOK
  <2> DEFINE out == [q \in Process |-> <<vote(h)>>]
  <2>3. vote(h) \in Others /\ vote(h) \in Messages /\ Killings \cap {vote(h)} = {}
    BY <2>2, OtherMessages DEF Others, Killings, vote, Message
  <2>4. out \in [Process -> Seq(Messages)] /\ \A q \in Process : \A i \in DOMAIN out[q] : out[q][i] \in {vote(h)}
    BY <2>3
  <2>5. Send(mailbox, out)
    BY <2>1 DEF Multicast
  <2> HIDE DEF out
  <2>6. ASSUME NEW q \in Process
        PROVE  /\ SameLetters(mailbox[q], mailbox'[q])
               /\ Has(mailbox'[q], Killings) => Has(mailbox[q], Killings)
    <3>1. Grows(mailbox[q], mailbox'[q], {vote(h)})
      BY <1>1, <2>4, <2>5, SendGrows
    <3>2. mailbox[q] \in Seq(Messages) /\ mailbox'[q] \in Seq(Messages)
      <4>1. mailbox'[q] = IF state[q] = "work" THEN mailbox[q] \o out[q] ELSE mailbox[q]
        BY <2>5 DEF Send
      <4>2. mailbox[q] \in Seq(Messages) /\ out[q] \in Seq(Messages)
        BY <1>1, <2>4
      <4>3. mailbox[q] \o out[q] \in Seq(Messages)
        BY <4>2
      <4> QED
        BY <4>1, <4>2, <4>3
    <3>3. Grows(mailbox[q], mailbox'[q], Others)
      BY <2>3, <3>1, GrowsMore
    <3> QED
      BY <2>3, <3>1, <3>2, <3>3, GrowsOrder DEF SameLetters
  <2> QED
    BY <2>1, <2>6 DEF Multicast, coordVars, procVars
<1>4. CASE \E p \in Process : \E i \in DOMAIN mailbox[p] : ReceiveTimeout(p, i) \/ ReceiveVote(p, i)
  <2>0. PICK p \in Process : \E i \in DOMAIN mailbox[p] : ReceiveTimeout(p, i) \/ ReceiveVote(p, i)
    BY <1>4
  <2>1. PICK i \in DOMAIN mailbox[p] : ReceiveTimeout(p, i) \/ ReceiveVote(p, i)
    BY <2>0
  <2>2. /\ mailbox' = Taken(p, i)
        /\ UNCHANGED <<phase, clientList, outbox, mi, neighbors, state, greetings>>
    BY <2>1 DEF ReceiveTimeout, ReceiveVote, coordVars
  <2>3. \E type \in {"timeout", "vote"} : Receives(p, i, type)
    BY <2>1 DEF ReceiveTimeout, ReceiveVote
  <2>4. /\ Drops(mailbox[p], RemoveAt(mailbox[p], 1)) /\ mailbox[p][1] \in Others
        /\ mailbox[p] \in Seq(Messages) /\ RemoveAt(mailbox[p], 1) \in Seq(Messages)
        /\ \A q \in Process : Taken(p, i)[q] = IF q = p THEN RemoveAt(mailbox[p], 1) ELSE mailbox[q]
    BY <2>3, TakesFirst DEF Others
  <2>5. Has(RemoveAt(mailbox[p], 1), Killings) => Has(mailbox[p], Killings)
    BY <2>4, DropsOrder
  <2>6. \A q \in Process : /\ SameLetters(mailbox[q], mailbox'[q])
                           /\ Has(mailbox'[q], Killings) => Has(mailbox[q], Killings)
    BY <2>2, <2>4, <2>5 DEF SameLetters
  <2> QED
    BY <2>2, <2>6
<1>5. CASE \/ \E v \in briefs : BriefMi(v)
           \/ phase # "init" /\ \E p \in Process : Hello(p)
  <2>1. /\ UNCHANGED <<phase, clientList, outbox, mailbox, mi, neighbors, state>>
        /\ greetings' \subseteq greetings
    BY <1>5 DEF BriefMi, Hello, procVars
  <2> QED
    BY <2>1 DEF SameLetters
<1> QED
  BY <1>2, <1>3, <1>4, <1>5

LEMMA QuietOrder ==
  ASSUME Base, Base', OrderInv, OneNode,
         \/ \E p \in Process : TimerFires(p)
         \/ \E h \in DOMAIN votes : Multicast(h)
         \/ \E p \in Process : \E i \in DOMAIN mailbox[p] : ReceiveTimeout(p, i) \/ ReceiveVote(p, i)
         \/ \E v \in briefs : BriefMi(v)
         \/ phase # "init" /\ \E p \in Process : Hello(p)
  PROVE  OrderInv'
BY QuietMail, SameLettersContinue

-----------------------------------------------------------------------------
(***************************************************************************)
(* What the coordinator sends keeps the order.                             *)
(***************************************************************************)
LEMMA TailDrops ==
  ASSUME NEW S, NEW s \in Seq(S), s # << >>
  PROVE  Drops(s, Tail(s)) /\ s[1] = Head(s) /\ Tail(s) \in Seq(S)
<1>1. Len(s) \in Nat /\ Len(s) >= 1 /\ DOMAIN s = 1..Len(s)
  OBVIOUS
<1>2. /\ Tail(s) \in Seq(S) /\ Len(Tail(s)) = Len(s) - 1
      /\ \A i \in 1..Len(s) - 1 : Tail(s)[i] = s[i + 1]
  BY <1>1
<1>3. DOMAIN Tail(s) = 1..Len(s) - 1
  BY <1>1, <1>2
<1>4. ASSUME NEW i \in DOMAIN s, i # 1
      PROVE  i - 1 \in DOMAIN Tail(s) /\ Tail(s)[i - 1] = s[i]
  BY <1>1, <1>2, <1>3, <1>4
<1>5. ASSUME NEW i \in DOMAIN Tail(s)
      PROVE  i + 1 \in DOMAIN s /\ Tail(s)[i] = s[i + 1]
  BY <1>1, <1>2, <1>3
<1> QED
  BY <1>1, <1>2, <1>4, <1>5 DEF Drops

(***************************************************************************)
(* The first message of the outbox, m, goes to d.                          *)
(***************************************************************************)
Posts(d, m) ==
  /\ d \in Ring /\ m \in Messages /\ 1 \in DOMAIN outbox
  /\ outbox[1].to = d /\ outbox[1].message = m
  /\ Drops(outbox, outbox') /\ DOMAIN outbox' \subseteq Nat
  /\ \A q \in Process : Grows(mailbox[q], mailbox'[q], {m})
  /\ \A q \in Process : q # d \/ state[q] # "work" => mailbox'[q] = mailbox[q]
  /\ state[d] = "work" => Has(mailbox'[d], {m})
  /\ UNCHANGED <<phase, clientList, greetings, mi, neighbors, state>>

LEMMA SendNextPosts ==
  ASSUME Base, OrderInv, SendNext
  PROVE  \E d \in Process, m \in Messages : Posts(d, m)
<1>1. outbox \in Seq(Letters) /\ outbox # << >>
  BY BaseFacts DEF SendNext
<1>2. 1 \in DOMAIN outbox /\ outbox[1] = Head(outbox) /\ Drops(outbox, Tail(outbox))
  BY <1>1, TailDrops DEF Drops
<1> DEFINE d == outbox[1].to
           m == outbox[1].message
           out == [q \in Process |-> IF d = q THEN <<m>> ELSE << >>]
<1>3. d \in Process /\ m \in Messages /\ d \in Ring
  BY <1>2, OutboxEntries DEF OrderInv, OutboxInv
<1>4. Send(mailbox, out) /\ outbox' = Tail(outbox)
      /\ UNCHANGED <<phase, clientList, greetings, mi, neighbors, state>>
  BY <1>2 DEF SendNext, procVars
<1> HIDE DEF d, m
<1>5. mailbox \in [Process -> Seq(Messages)]
  BY BaseFacts
<1>6. out \in [Process -> Seq(Messages)] /\ \A q \in Process : \A i \in DOMAIN out[q] : out[q][i] \in {m}
  BY <1>3
<1>7. out[d] = <<m>> /\ \A q \in Process : q # d => out[q] = << >>
  BY <1>3
<1> HIDE DEF out
<1>8. ASSUME NEW q \in Process
      PROVE  /\ Grows(mailbox[q], mailbox'[q], {m})
             /\ (state[q] # "work" \/ out[q] = << >>) => mailbox'[q] = mailbox[q]
             /\ state[q] = "work" => mailbox'[q] = mailbox[q] \o out[q]
  <2>1. \A i \in DOMAIN out[q] : out[q][i] \in {m}
    BY <1>6
  <2> QED
    BY <1>4, <1>5, <1>6, <2>1, SendGrows
<1>9. state[d] = "work" => Has(mailbox'[d], {m})
  <2>1. ASSUME NEW s \in Seq(Messages)
        PROVE  Has(s \o <<m>>, {m})
    <3>1. Len(s) + 1 \in DOMAIN (s \o <<m>>) /\ (s \o <<m>>)[Len(s) + 1] = m
      BY <1>3
    <3> QED
      BY <3>1 DEF Has
  <2>2. mailbox[d] \in Seq(Messages)
    BY <1>3, <1>5
  <2> QED
    BY <1>3, <1>7, <1>8, <2>1, <2>2
<1>10. DOMAIN outbox' \subseteq Nat
  BY <1>1, <1>4
<1>11. Posts(d, m)
  BY <1>2, <1>3, <1>4, <1>7, <1>8, <1>9, <1>10 DEF Posts, d, m
<1> QED
  BY <1>3, <1>11

LEMMA PostsOutbox ==
  ASSUME Base, OrderInv, NEW d \in Process, NEW m \in Messages, Posts(d, m)
  PROVE  /\ OutboxInv' /\ phase \in {"calc", "resetting", "down"} /\ Ring' = Ring
         /\ \A M \in SUBSET Messages : \A k \in DOMAIN outbox' :
              outbox'[k].message \in M => k + 1 \in ToSend(M) /\ outbox[k + 1] = outbox'[k]
         /\ \A M \in SUBSET Messages : \A k \in ToSend(M) :
              k = 1 \/ (k - 1 \in DOMAIN outbox' /\ outbox'[k - 1] = outbox[k])
<1>1. outbox \in Seq(Letters) /\ DOMAIN outbox \subseteq Nat
  BY BaseFacts
<1>2. /\ \A k \in DOMAIN outbox' : k + 1 \in DOMAIN outbox /\ outbox'[k] = outbox[k + 1]
      /\ \A k \in DOMAIN outbox : k = 1 \/ (k - 1 \in DOMAIN outbox' /\ outbox'[k - 1] = outbox[k])
      /\ 1 \in DOMAIN outbox
  BY DEF Posts, Drops
<1>3. Ring' = Ring /\ phase' = phase
  BY DEF Posts, Ring
<1>4. OutboxInv
  BY DEF OrderInv
<1>5. outbox # << >>
  BY <1>2
<1>6. /\ Rings' = Rings /\ Mis' = Mis /\ Ys' = Ys /\ NotTwo' = NotTwo
      /\ (Rings \cup Mis \cup Ys)' = Rings \cup Mis \cup Ys
  BY DEF Rings, Mis, Ys, NotTwo, Messages
<1>7. ToSend(Rings)' = {} \/ ToSend(Rings)' = DOMAIN outbox'
  <2>1. CASE ToSend(Rings) = {}
    BY <1>2, <1>6, <2>1 DEF ToSend
  <2>2. CASE ToSend(Rings) = DOMAIN outbox
    BY <1>2, <1>6, <2>2 DEF ToSend
  <2> QED
    BY <1>4, <2>1, <2>2 DEF OutboxInv
<1>8. \A k \in ToSend(Rings)' : Range(outbox'[k].message.ring) \subseteq Ring
  BY <1>2, <1>4, <1>6 DEF ToSend, OutboxInv
<1>9. \A k \in ToSend(Mis)', l \in ToSend(Ys)' : k < l
  <2> SUFFICES ASSUME NEW k \in ToSend(Mis)', NEW l \in ToSend(Ys)'
               PROVE  k < l
    OBVIOUS
  <2>1. k \in DOMAIN outbox' /\ l \in DOMAIN outbox' /\ outbox'[k].message \in Mis /\ outbox'[l].message \in Ys
    BY <1>6 DEF ToSend
  <2>2. k + 1 \in ToSend(Mis) /\ l + 1 \in ToSend(Ys)
    BY <1>2, <2>1 DEF ToSend
  <2>3. k + 1 < l + 1
    BY <1>4, <2>2 DEF OutboxInv
  <2>4. k \in Int /\ l \in Int
    BY <2>1 DEF Posts
  <2> QED
    BY <2>3, <2>4
<1>10. /\ outbox' # << >> => phase' \in {"calc", "resetting", "down"}
       /\ ToSend(Rings \cup Mis \cup Ys)' # {} => phase' = "calc"
       /\ ToSend(NotTwo)' = {}
       /\ \A k \in DOMAIN outbox' : outbox'[k].to \in Ring'
  BY <1>2, <1>3, <1>4, <1>5, <1>6 DEF ToSend, OutboxInv
<1>11. OutboxInv'
  BY <1>3, <1>7, <1>8, <1>9, <1>10 DEF OutboxInv
<1> QED
  BY <1>2, <1>3, <1>4, <1>5, <1>11 DEF ToSend, OutboxInv

LEMMA PostsMail ==
  ASSUME Base, Base', NEW d \in Process, NEW m \in Messages, Posts(d, m), NEW q \in Process
  PROVE  /\ \A M : Has(mailbox[q], M) => Has(mailbox'[q], M)
         /\ \A M : Has(mailbox'[q], M) => Has(mailbox[q], M) \/ (m \in M /\ q = d /\ state[q] = "work")
         /\ \A M, N : NoneBefore(mailbox[q], M, N) /\ (m \notin N \/ (~ Has(mailbox[q], M) /\ m \notin M))
                        => NoneBefore(mailbox'[q], M, N)
         /\ \A M, N : Follows(mailbox[q], M, N) /\ (Has(mailbox[q], N) \/ m \notin M)
                        => Follows(mailbox'[q], M, N)
         /\ \A M : q = d /\ state[q] = "work" /\ m \in M => Has(mailbox'[q], M)
<1>1. mailbox[q] \in Seq(Messages) /\ mailbox'[q] \in Seq(Messages)
  BY BaseFacts, BaseFactsNext
<1>2. Grows(mailbox[q], mailbox'[q], {m})
  BY DEF Posts
<1>3. \A M : (M \cap {m} = {}) <=> m \notin M
  OBVIOUS
<1>4. q # d \/ state[q] # "work" => mailbox'[q] = mailbox[q]
  BY DEF Posts
<1>5. q = d /\ state[q] = "work" => Has(mailbox'[q], {m})
  BY DEF Posts
<1>6. ASSUME NEW M, q = d, state[q] = "work", m \in M
      PROVE  Has(mailbox'[q], M)
  BY <1>5, <1>6 DEF Has
<1>7. /\ \A M : Has(mailbox[q], M) => Has(mailbox'[q], M)
      /\ \A M : Has(mailbox'[q], M) => Has(mailbox[q], M) \/ M \cap {m} # {}
      /\ \A M, N : NoneBefore(mailbox[q], M, N) /\ (N \cap {m} = {} \/ (~ Has(mailbox[q], M) /\ M \cap {m} = {}))
                        => NoneBefore(mailbox'[q], M, N)
      /\ \A M, N : Follows(mailbox[q], M, N) /\ (Has(mailbox[q], N) \/ M \cap {m} = {})
                        => Follows(mailbox'[q], M, N)
  BY <1>1, <1>2, GrowsOrder
<1> QED
  BY <1>3, <1>4, <1>6, <1>7

LEMMA PostsLinks ==
  ASSUME Base, Base', OrderInv, NEW d \in Process, NEW m \in Messages, Posts(d, m)
  PROVE  LinksInv'
<1>1. /\ phase \in {"calc", "resetting", "down"} /\ Ring' = Ring /\ d \in Ring
      /\ 1 \in DOMAIN outbox /\ outbox[1].to = d /\ outbox[1].message = m
      /\ UNCHANGED <<phase, clientList, greetings, mi, neighbors, state>>
  BY PostsOutbox DEF Posts
<1>2. /\ Rings' = Rings /\ Mis' = Mis /\ Ys' = Ys /\ NotTwo' = NotTwo
      /\ (Mis \cup Ys)' = Mis \cup Ys /\ \A q \in Process : Naming(q)' = Naming(q)
  BY DEF Rings, Mis, Ys, NotTwo, Naming, Messages
<1>3. \A q \in Process : Newcomer(q)' <=> Newcomer(q)
  BY <1>1 DEF Newcomer
<1>4. \A q \in Ring : ~ Newcomer(q)
  BY <1>1, BaseFacts DEF Newcomer
<1>5. ASSUME NEW q \in Process
      PROVE  NeighborsOK(q)'
  <2>1. m \notin NotTwo
    BY <1>1 DEF OrderInv, OutboxInv, ToSend
  <2>2. NeighborsOK(q)
    BY DEF OrderInv, LinksInv
  <2> QED
    BY <1>1, <1>2, <2>1, <2>2, PostsMail DEF NeighborsOK
<1>6. ASSUME NEW q \in Process, Newcomer(q)'
      PROVE  Untouched(q)'
  <2>1. Untouched(q) /\ q # d
    BY <1>1, <1>3, <1>4, <1>6 DEF OrderInv, LinksInv
  <2> QED
    BY <1>1, <1>2, <2>1, PostsMail DEF Untouched
<1>7. ASSUME NEW q \in Process, Joined(q), state[q] = "work"
      PROVE  Joined(q)'
  <2>1. CASE Len(neighbors[q]) = 2 \/ Has(mailbox[q], Rings)
    BY <1>1, <1>2, <2>1, PostsMail DEF Joined
  <2>2. CASE ToTell(q, Rings) # {}
    <3>1. PICK k \in ToSend(Rings) : outbox[k].to = q
      BY <2>2 DEF ToTell
    <3>2. CASE k = 1
      <4>1. q = d /\ m \in Rings
        BY <1>1, <3>1, <3>2 DEF ToSend
      <4>2. Has(mailbox'[q], Rings)
        BY <1>7, <4>1, PostsMail
      <4> QED
        BY <1>2, <4>2 DEF Joined
    <3>3. CASE k # 1
      <4>1. Rings \in SUBSET Messages
        BY DEF Rings
      <4>2. k - 1 \in DOMAIN outbox' /\ outbox'[k - 1] = outbox[k]
        BY <3>1, <3>3, <4>1, PostsOutbox
      <4>3. k - 1 \in ToTell(q, Rings)'
        BY <1>2, <3>1, <4>2 DEF ToTell, ToSend
      <4> QED
        BY <4>3 DEF Joined
    <3> QED
      BY <3>2, <3>3
  <2> QED
    BY <1>7, <2>1, <2>2 DEF Joined
<1>8. ASSUME NEW q \in Process, state'[q] = "work", Started(q)' \/ (phase' = "calc" /\ q \in Ring')
      PROVE  Joined(q)'
  <2>1. Started(q) \/ (phase = "calc" /\ q \in Ring)
    <3> SUFFICES ASSUME Has(mailbox'[q], Mis), ~ Has(mailbox[q], Mis)
                 PROVE  phase = "calc" /\ q \in Ring
      BY <1>1, <1>2, <1>8 DEF Started
    <3>1. m \in Mis /\ q = d
      BY PostsMail
    <3>2. 1 \in ToSend(Rings \cup Mis \cup Ys)
      BY <1>1, <3>1 DEF ToSend
    <3> QED
      BY <1>1, <3>1, <3>2 DEF OrderInv, OutboxInv
  <2> QED
    BY <1>1, <1>7, <1>8, <2>1 DEF OrderInv, LinksInv
<1>9. ASSUME NEW q \in Process, NEW r \in Process, Linked(q, r)'
      PROVE  ~ Newcomer(q)' /\ ~ Newcomer(r)' /\ (r \in Ring' <=> q \in Ring')
  <2>1. Linked(q, r) \/ (m \in Naming(r) /\ q = d)
    BY <1>1, <1>2, <1>9, PostsMail DEF Linked
  <2>2. CASE Linked(q, r)
    BY <1>1, <1>3, <2>2 DEF OrderInv, LinksInv
  <2>3. CASE m \in Naming(r) /\ q = d
    <3>1. m \in Rings /\ r \in Range(m.ring)
      BY <2>3 DEF Naming
    <3>2. 1 \in ToSend(Rings)
      BY <1>1, <3>1 DEF ToSend
    <3>3. r \in Ring
      BY <1>1, <3>1, <3>2 DEF OrderInv, OutboxInv
    <3> QED
      BY <1>1, <1>3, <1>4, <2>3, <3>3
  <2> QED
    BY <2>1, <2>2, <2>3
<1> QED
  BY <1>5, <1>6, <1>8, <1>9 DEF LinksInv

(***************************************************************************)
(* A Y is sent by the coordinator when every process of the ring has its   *)
(* Mi or has it on its way.                                                *)
(***************************************************************************)
LEMMA PostsY ==
  ASSUME Base, OrderInv, NEW d \in Process, NEW m \in Messages, Posts(d, m), m \in Ys
  PROVE  AllTold
<1>1. 1 \in DOMAIN outbox /\ outbox[1].message = m /\ 1 \in ToSend(Ys) /\ 1 \in ToSend(Mis \cup Ys)
  BY DEF Posts, ToSend
<1>2. \A q \in Ring : Told(q) \/ ToTell(q, Mis) # {}
  BY <1>1 DEF OrderInv, StageInv
<1>3. ToSend(Mis) = {}
  <2> SUFFICES ASSUME NEW k \in ToSend(Mis)
               PROVE  FALSE
    OBVIOUS
  <2>1. k < 1
    BY <1>1 DEF OrderInv, OutboxInv
  <2>2. k \in Nat /\ k >= 1
    <3>1. outbox \in Seq(Letters)
      BY BaseFacts
    <3> QED
      BY <3>1 DEF ToSend
  <2> QED
    BY <2>1, <2>2
<1> QED
  BY <1>2, <1>3 DEF AllTold, ToTell

LEMMA PostsRing ==
  ASSUME Base, OrderInv, NEW d \in Process, NEW m \in Messages, Posts(d, m), m \in Rings
  PROVE  (\A q \in Ring : Untouched(q)) /\ ToSend(Mis \cup Ys) = {}
<1>1. 1 \in ToSend(Rings)
  BY DEF Posts, ToSend
<1>2. ToSend(Rings) = DOMAIN outbox /\ \A q \in Ring : Untouched(q)
  BY <1>1 DEF OrderInv, OutboxInv, StageInv
<1>3. \A k \in DOMAIN outbox : outbox[k].message \in Rings
  BY <1>2 DEF ToSend
<1> QED
  BY <1>2, <1>3, Kinds DEF ToSend

LEMMA PostsMailOK ==
  ASSUME Base, Base', OrderInv, NEW d \in Process, NEW m \in Messages, Posts(d, m), NEW q \in Process
  PROVE  MailOK(q)'
<1>1. /\ d \in Ring /\ UNCHANGED <<mi, state>> /\ MailOK(q)
  BY DEF Posts, OrderInv
<1>2. /\ Rings' = Rings /\ Mis' = Mis /\ Ys' = Ys /\ (Mis \cup Ys)' = Mis \cup Ys
  BY DEF Rings, Mis, Ys, Messages
<1>3. Has(mailbox'[q], Rings) => mi[q] = 0
  <2>1. CASE Has(mailbox[q], Rings)
    BY <1>1, <2>1 DEF MailOK
  <2>2. CASE m \in Rings /\ q = d
    BY <1>1, <2>2, PostsRing DEF Untouched
  <2> QED
    BY <2>1, <2>2, PostsMail
<1>4. NoneBefore(mailbox'[q], Mis \cup Ys, Rings)
  <2>1. CASE m \notin Rings
    BY <1>1, <2>1, PostsMail DEF MailOK
  <2>2. CASE m \in Rings
    <3>1. m \notin Mis \cup Ys
      BY <2>2, Kinds
    <3>2. CASE q = d
      <4>1. ~ Has(mailbox[q], Mis \cup Ys)
        BY <1>1, <2>2, <3>2, PostsRing DEF Untouched
      <4> QED
        BY <1>1, <3>1, <4>1, PostsMail DEF MailOK
    <3>3. CASE q # d
      <4>1. mailbox'[q] = mailbox[q]
        BY <3>3 DEF Posts
      <4> QED
        BY <1>1, <4>1 DEF MailOK
    <3> QED
      BY <3>2, <3>3
  <2> QED
    BY <2>1, <2>2
<1>5. mi[q] # 0 \/ Follows(mailbox'[q], Ys, Mis)
  <2>1. CASE mailbox'[q] = mailbox[q]
    BY <1>1, <2>1 DEF MailOK
  <2>2. CASE mailbox'[q] # mailbox[q]
    <3>1. q = d /\ state[q] = "work"
      BY <2>2 DEF Posts
    <3>2. CASE m \notin Ys
      BY <1>1, <3>2, PostsMail DEF MailOK
    <3>3. CASE m \in Ys
      <4>1. Started(q)
        BY <1>1, <3>1, <3>3, PostsY DEF AllTold, Told
      <4> QED
        BY <1>1, <4>1, PostsMail DEF MailOK, Started
    <3> QED
      BY <3>2, <3>3
  <2> QED
    BY <2>1, <2>2
<1> QED
  BY <1>1, <1>2, <1>3, <1>4, <1>5 DEF MailOK

LEMMA PostsStage ==
  ASSUME Base, Base', OrderInv, NEW d \in Process, NEW m \in Messages, Posts(d, m)
  PROVE  StageInv'
<1>1. /\ d \in Ring /\ Ring' = Ring /\ Ring \subseteq Process
      /\ UNCHANGED <<mi, state, neighbors>>
      /\ 1 \in DOMAIN outbox /\ outbox[1].to = d /\ outbox[1].message = m
  BY PostsOutbox, BaseFacts DEF Posts
<1>2. /\ Rings' = Rings /\ Mis' = Mis /\ Ys' = Ys /\ (Mis \cup Ys)' = Mis \cup Ys
      /\ \A q \in Process : Naming(q)' = Naming(q)
      /\ Rings \in SUBSET Messages /\ Mis \in SUBSET Messages /\ (Mis \cup Ys) \in SUBSET Messages
  BY DEF Rings, Mis, Ys, Naming, Messages
<1>3. \A q \in Process : Told(q) => Told(q)'
  BY <1>1, <1>2, PostsMail DEF Told, Started
<1>4. m \notin Mis \cup Ys => \A q \in Process : Untouched(q) => Untouched(q)'
  BY <1>1, <1>2, PostsMail DEF Untouched
<1>5. ASSUME ToSend(Rings)' # {}
      PROVE  \A q \in Ring' : Untouched(q)'
  <2>1. PICK k \in DOMAIN outbox' : outbox'[k].message \in Rings
    BY <1>2, <1>5 DEF ToSend
  <2>2. k + 1 \in ToSend(Rings)
    BY <1>2, <2>1, PostsOutbox
  <2>3. ToSend(Rings) = DOMAIN outbox
    BY <2>2 DEF OrderInv, OutboxInv
  <2>4. m \in Rings
    BY <1>1, <2>3 DEF ToSend
  <2>5. m \notin Mis \cup Ys
    BY <2>4, Kinds
  <2> QED
    BY <1>1, <1>4, <2>4, <2>5, PostsRing
<1>6. \/ \A q \in Ring' : Told(q)' \/ ToTell(q, Mis)' # {}
      \/ (\A q \in Ring' : Untouched(q)') /\ ToSend(Mis \cup Ys)' = {}
  <2>1. CASE \A q \in Ring : Told(q) \/ ToTell(q, Mis) # {}
    <3> SUFFICES ASSUME NEW q \in Ring, ~ Told(q)'
                 PROVE  ToTell(q, Mis)' # {}
      BY <1>1
    <3>1. q \in Process /\ ~ Told(q) /\ state[q] = "work"
      BY <1>1, <1>3 DEF Told
    <3>2. PICK k \in ToSend(Mis) : outbox[k].to = q
      BY <2>1, <3>1 DEF ToTell
    <3>3. k # 1
      <4> SUFFICES ASSUME k = 1
                   PROVE  FALSE
        OBVIOUS
      <4>1. q = d /\ m \in Mis
        BY <1>1, <3>2 DEF ToSend
      <4>2. Has(mailbox'[q], Mis)
        BY <3>1, <4>1, PostsMail
      <4> QED
        BY <1>2, <4>2 DEF Told, Started
    <3>4. k - 1 \in DOMAIN outbox' /\ outbox'[k - 1] = outbox[k]
      BY <1>2, <3>2, <3>3, PostsOutbox
    <3>5. k - 1 \in ToTell(q, Mis)'
      BY <1>2, <3>2, <3>4 DEF ToTell, ToSend
    <3> QED
      BY <3>5
  <2>2. CASE (\A q \in Ring : Untouched(q)) /\ ToSend(Mis \cup Ys) = {}
    <3>1. m \notin Mis \cup Ys
      BY <1>1, <2>2 DEF ToSend
    <3>2. ToSend(Mis \cup Ys)' = {}
      <4> SUFFICES ASSUME NEW k \in ToSend(Mis \cup Ys)'
                   PROVE  FALSE
        OBVIOUS
      <4>1. k \in DOMAIN outbox' /\ outbox'[k].message \in Mis \cup Ys
        BY <1>2 DEF ToSend
      <4>2. k + 1 \in ToSend(Mis \cup Ys)
        BY <1>2, <4>1, PostsOutbox
      <4> QED
        BY <2>2, <4>2
    <3> QED
      BY <1>1, <1>4, <2>2, <3>1, <3>2
  <2> QED
    BY <2>1, <2>2 DEF OrderInv, StageInv
<1>7. ASSUME NEW q \in Ring', Has(mailbox[q], Ys)'
      PROVE  AllTold'
  <2>1. AllTold
    <3>1. CASE Has(mailbox[q], Ys)
      BY <1>1, <3>1 DEF OrderInv, StageInv
    <3>2. CASE ~ Has(mailbox[q], Ys)
      <4>1. m \in Ys
        BY <1>1, <1>2, <1>7, <3>2, PostsMail
      <4> QED
        BY <4>1, PostsY
    <3> QED
      BY <3>1, <3>2
  <2> QED
    BY <1>1, <1>3, <2>1 DEF AllTold
<1>8. ASSUME NEW q \in Process, NEW r \in Process,
             (state[q] = "work" /\ Started(q) /\ q \notin Ring /\ Linked(q, r))'
      PROVE  Told(r)'
  <2>1. q \notin Ring /\ mailbox'[q] = mailbox[q]
    BY <1>1, <1>8 DEF Posts
  <2>2. state[q] = "work" /\ Started(q) /\ Linked(q, r)
    BY <1>1, <1>2, <1>8, <2>1 DEF Started, Linked
  <2> QED
    BY <1>3, <2>1, <2>2 DEF OrderInv, StageInv
<1> QED
  BY <1>5, <1>6, <1>7, <1>8 DEF StageInv

LEMMA SendNextOrder ==
  ASSUME Base, Base', OrderInv, SendNext
  PROVE  OrderInv'
<1>1. PICK d \in Process, m \in Messages : Posts(d, m)
  BY SendNextPosts
<1> QED
  BY <1>1, PostsOutbox, PostsLinks, PostsMailOK, PostsStage DEF OrderInv

-----------------------------------------------------------------------------
(***************************************************************************)
(* The coordinator's other steps keep the order.                           *)
(***************************************************************************)
LEMMA HelloRing ==
  ASSUME Base, NEW p \in Process, Hello(p), phase = "init"
  PROVE  Ring' = Ring \cup {p}
<1>1. clientList \in Seq(Process) /\ clientList' = <<p>> \o clientList
  BY BaseFacts DEF Hello
<1> DEFINE list == <<p>> \o clientList
<1>2. list[1] = p /\ \A i \in 2..Len(clientList) + 1 : list[i] = clientList[i - 1]
  BY <1>1, ConsElements
<1>3. Len(clientList) \in Nat /\ DOMAIN clientList = 1..Len(clientList)
  BY <1>1
<1>4. DOMAIN list = 1..Len(clientList) + 1
  BY <1>1
<1> HIDE DEF list
<1>5. ASSUME NEW i \in DOMAIN list
      PROVE  list[i] \in Ring \cup {p}
  <2>1. i = 1 \/ (i \in 2..Len(clientList) + 1 /\ i - 1 \in DOMAIN clientList)
    BY <1>3, <1>4
  <2> QED
    BY <1>2, <2>1 DEF Ring
<1>6. ASSUME NEW i \in DOMAIN clientList
      PROVE  \E j \in DOMAIN list : list[j] = clientList[i]
  <2>1. i + 1 \in 2..Len(clientList) + 1 /\ i + 1 \in DOMAIN list /\ (i + 1) - 1 = i
    BY <1>3, <1>4
  <2> QED
    BY <1>2, <2>1
<1>7. 1 \in DOMAIN list
  BY <1>3, <1>4
<1>8. Ring' = {list[i] : i \in DOMAIN list}
  BY <1>1 DEF Ring, list
<1>9. Ring' \subseteq Ring \cup {p}
  BY <1>5, <1>8
<1>10. p \in Ring'
  BY <1>2, <1>7, <1>8
<1>11. Ring \subseteq Ring'
  BY <1>6, <1>8 DEF Ring
<1> QED
  BY <1>9, <1>10, <1>11

(***************************************************************************)
(* A step of the coordinator that leaves the processes alone.              *)
(***************************************************************************)
LEMMA UntouchedProcesses ==
  ASSUME UNCHANGED <<mailbox, mi, neighbors, state>>
  PROVE  /\ \A q \in Process : Untouched(q)' <=> Untouched(q)
         /\ \A q \in Process : Started(q)' <=> Started(q)
         /\ \A q \in Process : Told(q)' <=> Told(q)
         /\ \A q \in Process : MailOK(q)' <=> MailOK(q)
         /\ \A q \in Process : NeighborsOK(q)' <=> NeighborsOK(q)
         /\ \A q \in Process : Has(mailbox[q], Ys)' <=> Has(mailbox[q], Ys)
         /\ \A q, r \in Process : Linked(q, r)' <=> Linked(q, r)
         /\ Rings' = Rings /\ Mis' = Mis /\ Ys' = Ys /\ NotTwo' = NotTwo
         /\ (Mis \cup Ys)' = Mis \cup Ys /\ (Rings \cup Mis \cup Ys)' = Rings \cup Mis \cup Ys
BY DEF Untouched, Started, Told, MailOK, NeighborsOK, Linked, Has, NoneBefore, Follows,
       Rings, Mis, Ys, Naming, NotTwo, Messages

LEMMA EmptyOutbox ==
  ASSUME outbox = << >>
  PROVE  DOMAIN outbox = {} /\ (\A M : ToSend(M) = {}) /\ (\A p, M : ToTell(p, M) = {})
BY DEF ToSend, ToTell

LEMMA AllSame ==
  ASSUME Base, OrderInv, outbox = << >>
  PROVE  AllTold \/ \A p \in Ring : Untouched(p)
BY EmptyOutbox DEF OrderInv, StageInv, AllTold

LEMMA HelloOrder ==
  ASSUME Base, OrderInv, NEW p \in Process, Hello(p), phase = "init"
  PROVE  OrderInv'
<1>1. /\ outbox = << >> /\ outbox' = << >> /\ phase' = "init" /\ p \in greetings
      /\ greetings' = greetings \ {p} /\ UNCHANGED <<mailbox, mi, neighbors, state>>
  BY DEF Hello, Receiving, procVars
<1>2. Ring' = Ring \cup {p} /\ Ring' \subseteq Process
  BY HelloRing, BaseFacts
<1>3. DOMAIN outbox' = {} /\ (\A M : ToSend(M)' = {})
  BY <1>1 DEF ToSend
<1>4. \A q \in Process : Newcomer(q)' <=> Newcomer(q)
  BY <1>1, <1>2 DEF Newcomer
<1>5. \A q \in Ring' : Newcomer(q) /\ Untouched(q)
  BY <1>1, <1>2 DEF Newcomer, OrderInv, LinksInv
<1>6. OutboxInv'
  BY <1>1, <1>3 DEF OutboxInv
<1>7. LinksInv'
  <2>1. /\ \A q \in Process : NeighborsOK(q)'
        /\ \A q \in Process : Newcomer(q)' => Untouched(q)'
    BY <1>1, <1>4, UntouchedProcesses DEF OrderInv, LinksInv
  <2>2. ASSUME NEW q \in Process, NEW r \in Process, Linked(q, r)'
        PROVE  ~ Newcomer(q)' /\ ~ Newcomer(r)' /\ (r \in Ring' <=> q \in Ring')
    BY <1>1, <1>4, <1>5, <2>2, UntouchedProcesses DEF OrderInv, LinksInv
  <2>3. ASSUME NEW q \in Process, state'[q] = "work", Started(q)' \/ (phase' = "calc" /\ q \in Ring')
        PROVE  Joined(q)'
    <3>1. Started(q) /\ state[q] = "work"
      BY <1>1, <2>3, UntouchedProcesses
    <3>2. Joined(q)
      BY <3>1 DEF OrderInv, LinksInv
    <3>3. Len(neighbors[q]) = 2 \/ Has(mailbox[q], Rings)
      BY <1>1, <3>2, EmptyOutbox DEF Joined
    <3> QED
      BY <1>1, <3>3, UntouchedProcesses DEF Joined
  <2> QED
    BY <2>1, <2>2, <2>3 DEF LinksInv
<1>8. StageInv'
  <2>1. \A q \in Ring' : Untouched(q)' /\ ~ Has(mailbox[q], Ys)'
    <3>1. \A q \in Ring' : Untouched(q)'
      BY <1>1, <1>2, <1>5, UntouchedProcesses
    <3>2. \A q \in Ring' : ~ Has(mailbox[q], Ys)
      BY <1>5 DEF Untouched, Has
    <3> QED
      BY <1>1, <1>2, <3>1, <3>2, UntouchedProcesses
  <2>2. ASSUME NEW q \in Process, NEW r \in Process,
               (state[q] = "work" /\ Started(q) /\ q \notin Ring /\ Linked(q, r))'
        PROVE  Told(r)'
    BY <1>1, <1>2, <2>2, UntouchedProcesses DEF OrderInv, StageInv
  <2> QED
    BY <1>3, <2>1, <2>2 DEF StageInv
<1> QED
  BY <1>1, <1>6, <1>7, <1>8, UntouchedProcesses DEF OrderInv

LEMMA ToggleOrder ==
  ASSUME Base, OrderInv, outbox = << >>, phase' \in {"crashed", "resetting", "down"},
         UNCHANGED <<clientList, greetings, mailbox, mi, neighbors, state>>,
         outbox' \in {outbox, Kills}, phase \in {"init", "calc"},
         phase' = "crashed" => outbox' = << >>
  PROVE  OrderInv'
<1>1. Ring' = Ring /\ Ring \subseteq Process
  BY BaseFacts DEF Ring
<1>2. \A k \in DOMAIN outbox' : outbox'[k].to \in Ring /\ outbox'[k].message \in Others
  <2>1. CASE outbox' = << >>
    BY <2>1
  <2>2. CASE outbox' = Kills
    BY <2>2, OtherMessages DEF Kills, Ring
  <2> QED
    BY <2>1, <2>2
<1>3. \A M : M \subseteq Rings \cup Mis \cup Ys => \A k \in DOMAIN outbox' : outbox'[k].message \notin M
  BY <1>2, Kinds
<1>4. /\ ToSend(Rings)' = {} /\ ToSend(Mis)' = {} /\ ToSend(Ys)' = {} /\ ToSend(NotTwo)' = {}
      /\ ToSend(Mis \cup Ys)' = {} /\ ToSend(Rings \cup Mis \cup Ys)' = {}
  BY <1>3, Parts, UntouchedProcesses DEF ToSend
<1>5. OutboxInv'
  BY <1>1, <1>2, <1>4 DEF OutboxInv
<1>6. \A q \in Process : Newcomer(q)' => Newcomer(q)
  BY <1>1 DEF Newcomer
<1>7. LinksInv'
  <2>1. ASSUME NEW q \in Process, state'[q] = "work", Started(q)'
        PROVE  Joined(q)'
    <3>1. Joined(q)
      BY <2>1, UntouchedProcesses DEF OrderInv, LinksInv
    <3> QED
      BY <3>1, EmptyOutbox, UntouchedProcesses DEF Joined
  <2>2. /\ \A q \in Process : NeighborsOK(q)'
        /\ \A q \in Process : Newcomer(q)' => Untouched(q)'
        /\ \A q, r \in Process :
             Linked(q, r)' => ~ Newcomer(q)' /\ ~ Newcomer(r)' /\ (r \in Ring' <=> q \in Ring')
    BY <1>1, <1>6, UntouchedProcesses DEF OrderInv, LinksInv
  <2> QED
    BY <2>1, <2>2 DEF LinksInv
<1>8. StageInv'
  <2>1. (\A q \in Ring' : Told(q)') \/ \A q \in Ring' : Untouched(q)'
    BY <1>1, AllSame, UntouchedProcesses DEF AllTold
  <2>2. \A q \in Ring' : Has(mailbox[q], Ys)' => AllTold'
    BY <1>1, UntouchedProcesses DEF OrderInv, StageInv, AllTold
  <2>3. ASSUME NEW q \in Process, NEW r \in Process,
               (state[q] = "work" /\ Started(q) /\ q \notin Ring /\ Linked(q, r))'
        PROVE  Told(r)'
    BY <1>1, <2>3, UntouchedProcesses DEF OrderInv, StageInv
  <2> QED
    BY <1>4, <2>1, <2>2, <2>3 DEF StageInv
<1> QED
  BY <1>5, <1>7, <1>8, UntouchedProcesses DEF OrderInv

LEMMA StartAgainOrder ==
  ASSUME Base, OrderInv, StartAgain
  PROVE  OrderInv'
<1>1. /\ outbox = << >> /\ outbox' = << >> /\ clientList' = << >> /\ greetings' \subseteq greetings
      /\ UNCHANGED <<mailbox, mi, neighbors, state>>
  BY DEF StartAgain, Receiving, procVars
<1>2. Ring' = {}
  BY <1>1 DEF Ring
<1>3. DOMAIN outbox' = {} /\ (\A M : ToSend(M)' = {})
  BY <1>1 DEF ToSend
<1>4. OutboxInv'
  BY <1>1, <1>3 DEF OutboxInv
<1>5. \A q \in Process : Newcomer(q)' => Newcomer(q)
  BY <1>1, <1>2 DEF Newcomer
<1>6. LinksInv'
  <2>1. ASSUME NEW q \in Process, state'[q] = "work", Started(q)'
        PROVE  Joined(q)'
    <3>1. Joined(q)
      BY <1>1, <2>1, UntouchedProcesses DEF OrderInv, LinksInv
    <3> QED
      BY <1>1, <3>1, EmptyOutbox, UntouchedProcesses DEF Joined
  <2>2. /\ \A q \in Process : NeighborsOK(q)'
        /\ \A q \in Process : Newcomer(q)' => Untouched(q)'
        /\ \A q, r \in Process :
             Linked(q, r)' => ~ Newcomer(q)' /\ ~ Newcomer(r)' /\ (r \in Ring' <=> q \in Ring')
    BY <1>1, <1>2, <1>5, UntouchedProcesses DEF OrderInv, LinksInv
  <2> QED
    BY <1>2, <2>1, <2>2 DEF LinksInv
<1>7. StageInv'
  <2>1. ASSUME NEW q \in Process, NEW r \in Process,
               (state[q] = "work" /\ Started(q) /\ q \notin Ring /\ Linked(q, r))'
        PROVE  Told(r)'
    <3>1. state[q] = "work" /\ Started(q) /\ Linked(q, r)
      BY <1>1, <2>1, UntouchedProcesses
    <3>2. CASE q \notin Ring
      BY <1>1, <3>1, <3>2, UntouchedProcesses DEF OrderInv, StageInv
    <3>3. CASE q \in Ring
      <4>1. ~ Untouched(q)
        BY <3>1 DEF Started, Untouched, Has
      <4>2. AllTold /\ r \in Ring
        BY <1>1, <3>1, <3>3, <4>1, AllSame DEF OrderInv, LinksInv
      <4> QED
        BY <1>1, <4>2, UntouchedProcesses DEF AllTold
    <3> QED
      BY <3>2, <3>3
  <2> QED
    BY <1>2, <1>3, <2>1 DEF StageInv
<1> QED
  BY <1>1, <1>4, <1>6, <1>7, UntouchedProcesses DEF OrderInv

(***************************************************************************)
(* step tells every process of the ring its two neighbors in the ring.     *)
(***************************************************************************)
LEMMA NeighborhoodOf ==
  ASSUME NEW ring \in Seq(Process), NEW i \in 1..Len(ring)
  PROVE  /\ Neighborhood(ring, i).to = ring[i]
         /\ Neighborhood(ring, i).message \in Rings \ NotTwo
         /\ Range(Neighborhood(ring, i).message.ring) \subseteq Range(ring)
         /\ Neighborhood(ring, i) \in Letters
<1> DEFINE left == ring[IF i = 1 THEN Len(ring) ELSE i - 1]
           right == ring[IF i = Len(ring) THEN 1 ELSE i + 1]
<1>1. left \in Process /\ right \in Process /\ left \in Range(ring) /\ right \in Range(ring)
      /\ ring[i] \in Process
  <2>1. Len(ring) \in Nat /\ DOMAIN ring = 1..Len(ring) /\ i \in Nat /\ 1 <= i /\ i <= Len(ring)
    OBVIOUS
  <2> DEFINE a == IF i = 1 THEN Len(ring) ELSE i - 1
             b == IF i = Len(ring) THEN 1 ELSE i + 1
  <2>2. a \in DOMAIN ring
    <3>1. CASE i = 1
      BY <2>1, <3>1
    <3>2. CASE i # 1
      BY <2>1, <3>2
    <3> QED
      BY <3>1, <3>2
  <2>3. b \in DOMAIN ring
    <3>1. CASE i = Len(ring)
      BY <2>1, <3>1
    <3>2. CASE i # Len(ring)
      <4>1. b = i + 1
        BY <3>2
      <4> HIDE DEF b, left, right, a
      <4>2. i + 1 \in 1..Len(ring)
        <5>1. \A n, k \in Nat : 1 <= k /\ k <= n /\ k # n => k + 1 \in 1..n
          OBVIOUS
        <5>2. Len(ring) \in Nat /\ i \in Nat /\ 1 <= i /\ i <= Len(ring)
          BY <2>1
        <5> QED
          BY <3>2, <5>1, <5>2
      <4> QED
        BY <2>1, <4>1, <4>2
    <3> QED
      BY <3>1, <3>2
  <2>4. left = ring[a] /\ right = ring[b]
    OBVIOUS
  <2> HIDE DEF a, b, left, right
  <2>5. ring[a] \in Process /\ ring[b] \in Process /\ ring[i] \in Process
    BY <2>1, <2>2, <2>3
  <2> QED
    BY <2>2, <2>3, <2>4, <2>5 DEF Range
<1>2. Neighborhood(ring, i) = [to |-> ring[i], message |-> setneighbors(left, right)]
  BY DEF Neighborhood
<1> HIDE DEF left, right
<1>3. <<left, right>> \in Seq(Process) /\ Len(<<left, right>>) = 2 /\ Range(<<left, right>>) = {left, right}
  <2>1. <<left, right>> \in Seq(Process) /\ Len(<<left, right>>) = 2 /\ DOMAIN <<left, right>> = {1, 2}
    BY <1>1
  <2> QED
    BY <2>1 DEF Range
<1>4. setneighbors(left, right) \in Rings /\ setneighbors(left, right).ring = <<left, right>>
  BY <1>3 DEF setneighbors, Message, Rings, Messages
<1>5. setneighbors(left, right) \notin NotTwo
  BY <1>3, <1>4 DEF NotTwo
<1> QED
  BY <1>1, <1>2, <1>3, <1>4, <1>5 DEF Letters, Rings

LEMMA StepTells ==
  ASSUME Base, Step, phase' # "crashed"
  PROVE  /\ phase = "init" /\ phase' = "calc" /\ outbox' \in Seq(Letters)
         /\ \A k \in DOMAIN outbox' :
              /\ outbox'[k].to \in Ring /\ outbox'[k].message \in Rings \ NotTwo
              /\ Range(outbox'[k].message.ring) \subseteq Ring
         /\ \A p \in Ring : \E k \in DOMAIN outbox' : outbox'[k].to = p
<1> DEFINE n == Len(clientList)
<1>1. PICK ring \in SetToSeqs(Ring) :
          outbox' = [i \in 1..n - 2 |-> Neighborhood(ring, i + 1)]
                      \o <<Neighborhood(ring, 1), Neighborhood(ring, n)>>
  BY DEF Step
<1>2. n \in Nat /\ n >= 2 /\ phase = "init" /\ phase' = "calc"
  BY BaseFacts DEF Step, Receiving
<1>3. ring \in [1..Cardinality(Ring) -> Ring] /\ IsInjective(ring)
  <2>1. /\ ring \in [1..Cardinality(Ring) -> Ring]
        /\ \A i, j \in 1..Cardinality(Ring) : i # j => ring[i] # ring[j]
    BY DEF SetToSeqs
  <2> QED
    BY <2>1 DEF IsInjective
<1>4. Cardinality(Ring) = n /\ Ring \subseteq Process
  BY RingSize, BaseFacts DEF Base, ValuesIn, CoordinatorOK, Ring
<1>5. clientList \in Seq(Process)
  BY BaseFacts
<1> HIDE DEF n
<1>6. ring \in Seq(Process) /\ Len(ring) = n /\ DOMAIN ring = 1..n /\ Range(ring) \subseteq Ring
  BY <1>2, <1>3, <1>4 DEF Range
<1>7. Ring \subseteq Range(ring)
  <2>1. IsFiniteSet(Ring)
    <3>1. IsFiniteSet(1..Len(clientList))
      <4>1. Len(clientList) \in Int /\ 1 \in Int
        BY <1>5
      <4> QED
        BY <4>1, FS_Interval
    <3>2. clientList \in Surjection(1..Len(clientList), Ring)
      <4>1. DOMAIN clientList = 1..Len(clientList)
        BY <1>5
      <4> QED
        BY <1>5, <4>1 DEF Surjection, Ring
    <3> QED
      BY <3>1, <3>2, FS_Surjection
  <2>2. IsFiniteSet(1..n) /\ Cardinality(1..n) = n
    <3>1. 1 \in Int /\ n \in Int
      BY <1>2
    <3>2. IsFiniteSet(1..n) /\ Cardinality(1..n) = IF 1 > n THEN 0 ELSE n - 1 + 1
      BY <3>1, FS_Interval
    <3> QED
      BY <1>2, <3>2
  <2>3. ring \in Injection(1..n, Ring)
    BY <1>3, <1>4, <1>6 DEF Injection, IsInjective
  <2>4. ring \in Surjection(1..n, Ring)
    BY <1>4, <2>1, <2>2, <2>3, FS_Injection
  <2> QED
    BY <1>6, <2>4 DEF Surjection, Range
<1> DEFINE N == [i \in 1..n |-> Neighborhood(ring, i)]
           inner == [i \in 1..n - 2 |-> Neighborhood(ring, i + 1)]
           outer == <<Neighborhood(ring, 1), Neighborhood(ring, n)>>
<1>8. \A i \in 1..n :
        /\ Neighborhood(ring, i).to = ring[i]
        /\ Neighborhood(ring, i).message \in Rings \ NotTwo
        /\ Range(Neighborhood(ring, i).message.ring) \subseteq Ring
        /\ Neighborhood(ring, i) \in Letters
  BY <1>6, NeighborhoodOf
<1>9. inner \in Seq(Letters) /\ Len(inner) = n - 2 /\ DOMAIN inner = 1..n - 2
      /\ \A i \in 1..n - 2 : i + 1 \in 1..n /\ inner[i] = Neighborhood(ring, i + 1)
  <2>1. n - 2 \in Nat /\ \A i \in 1..n - 2 : i + 1 \in 1..n
    BY <1>2
  <2> QED
    BY <1>8, <2>1
<1>10. outer \in Seq(Letters) /\ Len(outer) = 2 /\ 1 \in 1..n /\ n \in 1..n
       /\ outer[1] = Neighborhood(ring, 1) /\ outer[2] = Neighborhood(ring, n)
  BY <1>2, <1>8
<1>11. outbox' = inner \o outer
  BY <1>1
<1> HIDE DEF inner, outer
<1>12. outbox' \in Seq(Letters) /\ DOMAIN outbox' = 1..n
       /\ \A k \in 1..n : outbox'[k] = IF k <= n - 2 THEN inner[k] ELSE outer[k - (n - 2)]
  <2> DEFINE C(s, t) == /\ s \o t \in Seq(Letters) /\ Len(s \o t) = Len(s) + Len(t)
                        /\ \A k \in 1..Len(s) + Len(t) :
                             (s \o t)[k] = IF k <= Len(s) THEN s[k] ELSE t[k - Len(s)]
  <2>0. \A s, t \in Seq(Letters) : C(s, t)
    OBVIOUS
  <2>6. C(inner, outer)
    <3> HIDE DEF C
    <3> QED
      BY <1>9, <1>10, <2>0
  <2>1. outbox' \in Seq(Letters) /\ Len(outbox') = Len(inner) + Len(outer)
    BY <1>11, <2>6
  <2>2. Len(inner) + Len(outer) = n
    BY <1>2, <1>9, <1>10
  <2>3. DOMAIN outbox' = 1..n
    BY <2>1, <2>2
  <2>4. ASSUME NEW k \in 1..n
        PROVE  outbox'[k] = IF k <= n - 2 THEN inner[k] ELSE outer[k - (n - 2)]
    <3>1. k \in 1..Len(inner) + Len(outer)
      BY <2>2
    <3>2. (inner \o outer)[k] = IF k <= Len(inner) THEN inner[k] ELSE outer[k - Len(inner)]
      BY <2>6, <3>1
    <3> QED
      BY <1>9, <1>11, <3>2
  <2> HIDE DEF C
  <2> QED
    BY <2>1, <2>3, <2>4
<1>13. ASSUME NEW k \in 1..n
       PROVE  \E i \in 1..n : outbox'[k] = Neighborhood(ring, i)
  <2>1. CASE k <= n - 2
    <3>1. k \in 1..n - 2
      BY <1>2, <2>1
    <3> QED
      BY <1>9, <1>12, <2>1, <3>1
  <2>2. CASE ~ (k <= n - 2)
    <3>1. k - (n - 2) = 1 \/ k - (n - 2) = 2
      BY <1>2, <2>2
    <3> QED
      BY <1>10, <1>12, <2>2, <3>1
  <2> QED
    BY <2>1, <2>2
<1>14. ASSUME NEW i \in 1..n
       PROVE  \E k \in 1..n : outbox'[k] = Neighborhood(ring, i)
  <2>1. CASE i = 1
    <3>1. n - 1 \in 1..n /\ ~ (n - 1 <= n - 2) /\ (n - 1) - (n - 2) = 1
      BY <1>2
    <3> QED
      BY <1>10, <1>12, <2>1, <3>1
  <2>2. CASE i = n
    <3>1. n \in 1..n /\ ~ (n <= n - 2) /\ n - (n - 2) = 2
      BY <1>2
    <3> QED
      BY <1>10, <1>12, <2>2, <3>1
  <2>3. CASE i # 1 /\ i # n
    <3>1. i - 1 \in 1..n - 2 /\ i - 1 \in 1..n /\ i - 1 <= n - 2 /\ (i - 1) + 1 = i
      BY <1>2, <2>3
    <3> QED
      BY <1>9, <1>12, <3>1
  <2> QED
    BY <2>1, <2>2, <2>3
<1>15. ASSUME NEW p \in Ring
       PROVE  \E k \in DOMAIN outbox' : outbox'[k].to = p
  <2>1. PICK i \in 1..n : ring[i] = p
    BY <1>6, <1>7 DEF Range
  <2>2. PICK k \in 1..n : outbox'[k] = Neighborhood(ring, i)
    BY <1>14
  <2> QED
    BY <1>8, <1>12, <2>1, <2>2
<1>16. ASSUME NEW k \in DOMAIN outbox'
       PROVE  /\ outbox'[k].to \in Ring /\ outbox'[k].message \in Rings \ NotTwo
              /\ Range(outbox'[k].message.ring) \subseteq Ring
  <2>1. PICK i \in 1..n : outbox'[k] = Neighborhood(ring, i)
    BY <1>12, <1>13
  <2>2. ring[i] \in Ring
    BY <1>3, <1>4
  <2> QED
    BY <1>8, <2>1, <2>2
<1> QED
  BY <1>2, <1>12, <1>15, <1>16

LEMMA StepOrder ==
  ASSUME Base, OrderInv, Step
  PROVE  OrderInv'
<1>1. /\ phase = "init" /\ outbox = << >>
      /\ UNCHANGED <<clientList, greetings, mailbox, mi, neighbors, state>>
  BY DEF Step, Receiving, procVars
<1>2. Ring' = Ring /\ Ring \subseteq Process
  BY <1>1, BaseFacts DEF Ring
<1>3. CASE phase' = "crashed"
  <2>1. outbox' = outbox
    BY <1>3 DEF Step
  <2> QED
    BY <1>1, <1>3, <2>1, ToggleOrder
<1>4. CASE phase' # "crashed"
  <2>1. /\ phase' = "calc" /\ outbox' \in Seq(Letters)
        /\ \A k \in DOMAIN outbox' :
             /\ outbox'[k].to \in Ring /\ outbox'[k].message \in Rings \ NotTwo
             /\ Range(outbox'[k].message.ring) \subseteq Ring
        /\ \A p \in Ring : \E k \in DOMAIN outbox' : outbox'[k].to = p
    BY <1>4, StepTells
  <2>2. \A q \in Process : Newcomer(q)' => Newcomer(q)
    BY <1>1, <1>2, <2>1 DEF Newcomer
  <2>3. \A q \in Ring : Untouched(q) /\ Newcomer(q)
    BY <1>1, <1>2 DEF Newcomer, OrderInv, LinksInv
  <2>4. /\ ToSend(Rings)' = DOMAIN outbox' /\ ToSend(Mis)' = {} /\ ToSend(Ys)' = {}
        /\ ToSend(NotTwo)' = {} /\ ToSend(Mis \cup Ys)' = {}
    BY <1>1, <2>1, UntouchedProcesses, Kinds DEF ToSend
  <2>5. OutboxInv'
    BY <1>2, <2>1, <2>4 DEF OutboxInv, ToSend
  <2>6. LinksInv'
    <3>1. ASSUME NEW q \in Process, state'[q] = "work", Started(q)' \/ (phase' = "calc" /\ q \in Ring')
          PROVE  Joined(q)'
      <4>1. CASE Started(q)'
        <5>1. Joined(q)
          BY <1>1, <3>1, <4>1, UntouchedProcesses DEF OrderInv, LinksInv
        <5> QED
          BY <1>1, <5>1, EmptyOutbox, UntouchedProcesses DEF Joined
      <4>2. CASE q \in Ring'
        <5>1. PICK k \in DOMAIN outbox' : outbox'[k].to = q
          BY <1>2, <2>1, <4>2
        <5>2. k \in ToTell(q, Rings)'
          BY <1>1, <2>1, <2>4, <5>1, UntouchedProcesses DEF ToTell, ToSend
        <5> QED
          BY <5>2 DEF Joined
      <4> QED
        BY <3>1, <4>1, <4>2
    <3>2. /\ \A q \in Process : NeighborsOK(q)'
          /\ \A q \in Process : Newcomer(q)' => Untouched(q)'
          /\ \A q, r \in Process :
               Linked(q, r)' => ~ Newcomer(q)' /\ ~ Newcomer(r)' /\ (r \in Ring' <=> q \in Ring')
      BY <1>1, <1>2, <2>2, UntouchedProcesses DEF OrderInv, LinksInv
    <3> QED
      BY <3>1, <3>2 DEF LinksInv
  <2>7. StageInv'
    <3>1. \A q \in Ring' : Untouched(q)' /\ ~ Has(mailbox[q], Ys)'
      <4>1. \A q \in Ring : ~ Has(mailbox[q], Ys)
        BY <2>3 DEF Untouched, Has
      <4> QED
        BY <1>1, <1>2, <2>3, <4>1, UntouchedProcesses
    <3>2. ASSUME NEW q \in Process, NEW r \in Process,
                 (state[q] = "work" /\ Started(q) /\ q \notin Ring /\ Linked(q, r))'
          PROVE  Told(r)'
      BY <1>1, <1>2, <3>2, UntouchedProcesses DEF OrderInv, StageInv
    <3> QED
      BY <2>4, <3>1, <3>2 DEF StageInv
  <2> QED
    BY <1>1, <2>5, <2>6, <2>7, UntouchedProcesses DEF OrderInv
<1> QED
  BY <1>3, <1>4


(***************************************************************************)
(* calc has a Mi for every process of the ring to send, then the first Y.  *)
(***************************************************************************)
Begins(n, k, f) ==
  /\ n \in Nat /\ n >= 2 /\ k \in 1..n /\ n = Len(clientList)
  /\ f \in [1..n -> Positive] /\ \A i \in 1..n : f[i] % wish' = 0
  /\ minMi' = Min({f[i] : i \in 1..n})
  /\ outbox' \in Seq(Letters) /\ DOMAIN outbox' = 1..n + k
  /\ \A i \in 1..n : outbox'[i].to = clientList[i] /\ outbox'[i].message = setpm(f[i])
  /\ \A j \in n + 1..n + k :
       outbox'[j].to \in Ring /\ j - n \in 1..n /\ outbox'[j].message = sendy(Coordinator, f[j - n])

LEMMA ValueMessages ==
  ASSUME NEW v \in Nat
  PROVE  /\ setpm(v) \in Mis /\ setpm(v).nr = v
         /\ \A q \in Process \cup {Coordinator} : sendy(q, v) \in Ys /\ sendy(q, v).nr = v
<1>1. << >> \in Seq(Process)
  OBVIOUS
<1> QED
  BY <1>1 DEF setpm, sendy, Message, Mis, Ys, Messages

LEMMA CalcBegins ==
  ASSUME Base, NEW w \in Wish, Calc(w)
  PROVE  \E n, k, f : Begins(n, k, f)
<1> DEFINE n == Len(clientList)
           k == HowManny(n)
<1>1. PICK factor \in Injection(1..n, Factor), started \in Injection(1..k, Ring) :
        /\ minMi' = Min({w * factor[i] : i \in 1..n})
        /\ outbox' =
             [i \in 1..n |-> [to |-> clientList[i], message |-> setpm(w * factor[i])]]
             \o [i \in 1..k |->
                   [to |-> started[i], message |-> sendy(Coordinator, w * factor[i])]]
  BY DEF Calc
<1>2. n \in Nat /\ n >= 2 /\ clientList \in Seq(Process)
  BY DEF Calc, Receiving, Base, ValuesIn, CoordinatorOK
<1>3. k \in Nat /\ 1 <= k /\ k <= n
  <2>1. k >= 2
    <3>1. (2 * n + 5) \div 10 \in Int /\ 2 \in Int
      BY <1>2
    <3> QED
      BY <3>1, MaxOfTwo DEF HowManny
  <2> HIDE DEF n
  <2> QED
    BY <1>2, <2>1, HowMannyBound
<1> DEFINE f == [i \in 1..n |-> w * factor[i]]
<1>4. f \in [1..n -> Positive]
  BY ClosedPositive DEF Closed, Reduces, Injection, Positive
<1>5. \A i \in 1..n : clientList[i] \in Process /\ clientList[i] \in Ring
  BY <1>2 DEF Ring
<1>6. \A i \in 1..k : started[i] \in Ring /\ started[i] \in Process
  BY <1>2 DEF Injection, Ring
<1> HIDE DEF n, k
<1> DEFINE first == [i \in 1..n |-> [to |-> clientList[i], message |-> setpm(w * factor[i])]]
           second == [i \in 1..k |->
                        [to |-> started[i], message |-> sendy(Coordinator, w * factor[i])]]
<1>7. \A i \in 1..n : w * factor[i] = f[i] /\ f[i] \in Nat
  BY <1>4 DEF Positive
<1>8. \A i \in 1..k : i \in 1..n
  BY <1>2, <1>3
<1>9. \A i \in 1..n : first[i] = [to |-> clientList[i], message |-> setpm(f[i])]
  BY <1>7
<1>10. \A i \in 1..k : second[i] = [to |-> started[i], message |-> sendy(Coordinator, f[i])]
  BY <1>7, <1>8
<1>11. {w * factor[i] : i \in 1..n} = {f[i] : i \in 1..n}
  BY <1>7
<1>22. \A i \in 1..n : f[i] % wish' = 0
  <2> SUFFICES ASSUME NEW i \in 1..n
               PROVE  (w * factor[i]) % w = 0
    BY DEF Calc
  <2>1. w \in Nat \ {0} /\ factor[i] \in Nat
    BY GGTAssumption DEF Injection, n
  <2>2. \A a \in Nat, b \in Nat \ {0} : b * a = a * b
    OBVIOUS
  <2>3. w * factor[i] = factor[i] * w
    BY <2>1, <2>2
  <2> QED
    BY <2>1, <2>3, MultipleRemainder
<1> HIDE DEF f
<1>12. first \in Seq(Letters) /\ Len(first) = n
  <2>1. \A i \in 1..n : first[i] \in Letters
    BY <1>5, <1>7, <1>9, ValueMessages DEF Letters, Mis
  <2> QED
    BY <1>2, <2>1
<1>13. second \in Seq(Letters) /\ Len(second) = k
  <2>1. \A i \in 1..k : second[i] \in Letters
    BY <1>6, <1>7, <1>8, <1>10, ValueMessages DEF Letters, Ys
  <2> QED
    BY <1>3, <2>1
<1>14. outbox' = first \o second
  BY <1>1
<1> HIDE DEF first, second
<1> DEFINE C(s, t) == /\ s \o t \in Seq(Letters) /\ DOMAIN (s \o t) = 1..Len(s) + Len(t)
                      /\ \A j \in 1..Len(s) + Len(t) :
                           (s \o t)[j] = IF j <= Len(s) THEN s[j] ELSE t[j - Len(s)]
<1>15. \A s, t \in Seq(Letters) : C(s, t)
  OBVIOUS
<1>16. C(first, second)
  <2> HIDE DEF C
  <2> QED
    BY <1>12, <1>13, <1>15
<1>17. /\ outbox' \in Seq(Letters) /\ DOMAIN outbox' = 1..n + k
       /\ \A j \in 1..n + k : outbox'[j] = IF j <= n THEN first[j] ELSE second[j - n]
  BY <1>12, <1>13, <1>14, <1>16
<1> HIDE DEF C
<1>18. ASSUME NEW i \in 1..n
       PROVE  outbox'[i].to = clientList[i] /\ outbox'[i].message = setpm(f[i])
  <2>1. i \in 1..n + k /\ i <= n
    BY <1>2, <1>3
  <2>2. outbox'[i] = first[i]
    BY <1>17, <2>1
  <2>3. outbox'[i] = [to |-> clientList[i], message |-> setpm(f[i])]
    BY <1>9, <2>2
  <2> QED
    BY <2>3
<1>19. ASSUME NEW j \in n + 1..n + k
       PROVE  /\ outbox'[j].to \in Ring /\ j - n \in 1..n
              /\ outbox'[j].message = sendy(Coordinator, f[j - n])
  <2>1. j \in 1..n + k /\ ~ (j <= n) /\ j - n \in 1..k
    BY <1>2, <1>3
  <2>2. outbox'[j] = second[j - n]
    BY <1>17, <2>1
  <2>3. outbox'[j] = [to |-> started[j - n], message |-> sendy(Coordinator, f[j - n])]
    BY <1>10, <2>1, <2>2
  <2> QED
    BY <1>6, <1>8, <2>1, <2>3
<1>20. k \in 1..n
  BY <1>2, <1>3
<1>21. Begins(n, k, f)
  BY <1>1, <1>2, <1>4, <1>11, <1>17, <1>18, <1>19, <1>20, <1>22 DEF Begins, n
<1> QED
  BY <1>21

LEMMA CalcOrder ==
  ASSUME Base, OrderInv, NEW w \in Wish, Calc(w)
  PROVE  OrderInv'
<1>1. /\ phase = "calc" /\ phase' = "calc" /\ outbox = << >>
      /\ UNCHANGED <<clientList, greetings, mailbox, mi, neighbors, state>>
  BY DEF Calc, Receiving, procVars
<1>2. Ring' = Ring /\ Ring \subseteq Process
  BY <1>1, BaseFacts DEF Ring
<1>3. PICK n, k, f : Begins(n, k, f)
  BY CalcBegins
<1>0. \A i \in 1..n : f[i] \in Nat
  BY <1>3 DEF Begins, Positive
<1>4. \A i \in 1..n : outbox'[i].to = clientList[i] /\ outbox'[i].message \in Mis
  <2>1. \A i \in 1..n : setpm(f[i]) \in Mis
    BY <1>0, ValueMessages
  <2> QED
    BY <1>3, <2>1 DEF Begins
<1>5. \A j \in n + 1..n + k : outbox'[j].to \in Ring /\ outbox'[j].message \in Ys
  <2>1. \A i \in 1..n : sendy(Coordinator, f[i]) \in Ys
    BY <1>0, ValueMessages
  <2> QED
    BY <1>3, <2>1 DEF Begins
<1>6. n \in Nat /\ k \in Nat /\ DOMAIN outbox' = 1..n + k
  BY <1>3 DEF Begins
<1>7. \A j \in DOMAIN outbox' : j \in 1..n \/ j \in n + 1..n + k
  BY <1>6
<1>8. \A i \in 1..n : i \in DOMAIN outbox' /\ clientList[i] \in Ring
  <2>1. DOMAIN clientList = 1..n
    BY <1>3, BaseFacts DEF Begins
  <2> QED
    BY <1>6, <2>1 DEF Ring
<1>9. /\ ToSend(Rings)' = {} /\ ToSend(NotTwo)' = {}
      /\ ToSend(Mis)' = 1..n /\ ToSend(Ys)' = n + 1..n + k
  <2>1. \A j \in DOMAIN outbox' : outbox'[j].message \in Mis \cup Ys
    BY <1>4, <1>5, <1>7
  <2>2. \A j \in DOMAIN outbox' : outbox'[j].message \notin Rings /\ outbox'[j].message \notin NotTwo
    BY <2>1, Kinds
  <2>3. \A j \in 1..n : outbox'[j].message \notin Ys
    BY <1>4, Kinds
  <2>4. \A j \in n + 1..n + k : outbox'[j].message \notin Mis
    BY <1>5, Kinds
  <2>5. n + 1..n + k \subseteq DOMAIN outbox'
    BY <1>6
  <2>6. ToSend(Rings)' = {} /\ ToSend(NotTwo)' = {}
    BY <2>2, UntouchedProcesses DEF ToSend, Rings, NotTwo, Messages
  <2>7. ToSend(Mis)' = {j \in DOMAIN outbox' : outbox'[j].message \in Mis}
    BY DEF ToSend, Mis, Messages
  <2>8. ToSend(Ys)' = {j \in DOMAIN outbox' : outbox'[j].message \in Ys}
    BY DEF ToSend, Ys, Messages
  <2> QED
    BY <1>4, <1>5, <1>7, <1>8, <2>3, <2>4, <2>5, <2>6, <2>7, <2>8
<1>10. OutboxInv'
  <2>1. \A j \in DOMAIN outbox' : outbox'[j].to \in Ring
    BY <1>4, <1>5, <1>7, <1>8
  <2>2. \A i \in 1..n, j \in n + 1..n + k : i < j
    BY <1>6
  <2> QED
    BY <1>1, <1>2, <1>9, <2>1, <2>2 DEF OutboxInv
<1>11. LinksInv'
  <2>1. ASSUME NEW q \in Process, state'[q] = "work", Started(q)' \/ (phase' = "calc" /\ q \in Ring')
        PROVE  Joined(q)'
    <3>1. Joined(q)
      BY <1>1, <1>2, <2>1, UntouchedProcesses DEF OrderInv, LinksInv
    <3> QED
      BY <1>1, <3>1, EmptyOutbox, UntouchedProcesses DEF Joined
  <2>2. /\ \A q \in Process : NeighborsOK(q)'
        /\ \A q \in Process : Newcomer(q)' => Untouched(q)'
        /\ \A q, r \in Process :
             Linked(q, r)' => ~ Newcomer(q)' /\ ~ Newcomer(r)' /\ (r \in Ring' <=> q \in Ring')
    BY <1>1, <1>2, UntouchedProcesses DEF OrderInv, LinksInv, Newcomer
  <2> QED
    BY <2>1, <2>2 DEF LinksInv
<1>12. StageInv'
  <2>1. ASSUME NEW q \in Ring
        PROVE  ToTell(q, Mis)' # {}
    <3>1. PICK i \in DOMAIN clientList : clientList[i] = q
      BY DEF Ring
    <3>2. i \in 1..n
      BY <1>3, BaseFacts DEF Begins
    <3>3. i \in ToTell(q, Mis)'
      BY <1>4, <1>9, <3>1, <3>2 DEF ToTell
    <3> QED
      BY <3>3
  <2>2. \A q \in Ring' : Has(mailbox[q], Ys)' => AllTold'
    BY <1>1, <1>2, UntouchedProcesses DEF OrderInv, StageInv, AllTold
  <2>3. ASSUME NEW q \in Process, NEW r \in Process,
               (state[q] = "work" /\ Started(q) /\ q \notin Ring /\ Linked(q, r))'
        PROVE  Told(r)'
    BY <1>1, <1>2, <2>3, UntouchedProcesses DEF OrderInv, StageInv
  <2> QED
    BY <1>2, <1>9, <2>1, <2>2, <2>3 DEF StageInv
<1> QED
  BY <1>1, <1>10, <1>11, <1>12, UntouchedProcesses DEF OrderInv

-----------------------------------------------------------------------------
LEMMA ProcessOrder ==
  ASSUME Base, Base', OrderInv, OneNode, NEW p \in Process, ProcessStep(p)
  PROVE  OrderInv'
<1>1. PICK i \in DOMAIN mailbox[p] :
        \/ ReceiveSetneighbors(p, i) \/ ReceiveSetpm(p, i) \/ ReceiveSendy(p, i)
        \/ SendyTooEarly(p, i) \/ ReceiveKill(p, i)
        \/ ReceiveTimeout(p, i) \/ ReceiveVote(p, i)
  BY DEF ProcessStep
<1>2. CASE SendyTooEarly(p, i)
  BY <1>2, NeverTooEarly
<1>3. CASE ReceiveKill(p, i)
  <2>1. state[p] = "work" /\ End(p, "dead")
    BY <1>3 DEF ReceiveKill, Receives
  <2> QED
    BY <2>1, EndOrder
<1>4. CASE ReceiveTimeout(p, i) \/ ReceiveVote(p, i)
  BY <1>4, QuietOrder
<1> QED
  BY <1>1, <1>2, <1>3, <1>4, ReceiveSetneighborsOrder, ReceiveSetpmOrder, ReceiveSendyOrder

LEMMA CoordinatorOrder ==
  ASSUME Base, Base', OrderInv, OneNode, CoordinatorStep
  PROVE  OrderInv'
<1>1. CASE \E p \in Process : Hello(p)
  <2>1. CASE phase = "init"
    BY <1>1, <2>1, HelloOrder
  <2>2. CASE phase # "init"
    BY <1>1, <2>2, QuietOrder
  <2> QED
    BY <2>1, <2>2
<1>2. CASE \E v \in briefs : BriefMi(v)
  BY <1>2, QuietOrder
<1> QED
  BY <1>1, <1>2, SendNextOrder, StartAgainOrder DEF CoordinatorStep

LEMMA CommandOrder ==
  ASSUME Base, OrderInv, OperatorCommand
  PROVE  OrderInv'
<1>1. CASE Toggle
  <2>1. /\ phase \in {"init", "calc"} /\ outbox = << >> /\ phase' = "crashed" /\ outbox' = outbox
        /\ UNCHANGED <<clientList, greetings, mailbox, mi, neighbors, state>>
    BY <1>1 DEF Toggle, Receiving, procVars
  <2> QED
    BY <2>1, ToggleOrder
<1>2. CASE Reset
  <2>1. /\ phase \in {"init", "calc"} /\ outbox = << >>
        /\ \/ phase' = "crashed" /\ outbox' = outbox
           \/ phase' = "resetting" /\ outbox' = Kills
        /\ UNCHANGED <<clientList, greetings, mailbox, mi, neighbors, state>>
    BY <1>2 DEF Reset, Receiving, procVars
  <2> QED
    BY <2>1, ToggleOrder
<1>3. CASE Kill
  <2>1. /\ phase \in {"init", "calc"} /\ outbox = << >> /\ phase' = "down" /\ outbox' = Kills
        /\ UNCHANGED <<clientList, greetings, mailbox, mi, neighbors, state>>
    BY <1>3 DEF Kill, Receiving, procVars
  <2> QED
    BY <2>1, ToggleOrder
<1> QED
  BY <1>1, <1>2, <1>3, StepOrder, CalcOrder DEF OperatorCommand

LEMMA OrderStays ==
  ASSUME OrderInv, UNCHANGED vars
  PROVE  OrderInv'
<1>1. UNCHANGED <<phase, clientList, outbox, greetings, mailbox, mi, neighbors, state>>
  BY DEF vars, coordVars, procVars
<1>2. /\ Ring' = Ring /\ (\A q \in Process : Newcomer(q)' <=> Newcomer(q))
      /\ \A q \in Process : Joined(q)' <=> Joined(q)
  BY <1>1 DEF Ring, Newcomer, Joined, ToTell, ToSend, Rings, Messages, Has
<1>3. /\ ToSend(Rings)' = ToSend(Rings) /\ ToSend(Mis)' = ToSend(Mis) /\ ToSend(Ys)' = ToSend(Ys)
      /\ ToSend(NotTwo)' = ToSend(NotTwo) /\ ToSend(Mis \cup Ys)' = ToSend(Mis \cup Ys)
      /\ ToSend(Rings \cup Mis \cup Ys)' = ToSend(Rings \cup Mis \cup Ys)
      /\ \A q \in Process : ToTell(q, Mis)' = ToTell(q, Mis)
  BY <1>1, UntouchedProcesses DEF ToSend, ToTell
<1>4. OutboxInv'
  BY <1>1, <1>2, <1>3 DEF OrderInv, OutboxInv
<1>5. LinksInv'
  BY <1>1, <1>2, <1>3, UntouchedProcesses DEF OrderInv, LinksInv
<1>6. StageInv'
  <2>2. AllTold => AllTold'
    BY <1>1, <1>2 DEF AllTold, Told, Started, Has, Mis, Messages
  <2>3. /\ \A q : Untouched(q)' <=> Untouched(q)
        /\ \A q : Told(q)' <=> Told(q)
        /\ \A q : Has(mailbox[q], Ys)' <=> Has(mailbox[q], Ys)
        /\ \A q : ToTell(q, Mis)' = ToTell(q, Mis)
    BY <1>1 DEF Untouched, Told, Started, Has, Mis, Ys, Messages, ToTell, ToSend
  <2>4. /\ ToSend(Rings)' # {} => \A p \in Ring' : Untouched(p)'
        /\ \/ \A p \in Ring' : Told(p)' \/ ToTell(p, Mis)' # {}
           \/ (\A p \in Ring' : Untouched(p)') /\ ToSend(Mis \cup Ys)' = {}
    BY <1>2, <1>3, <2>3 DEF OrderInv, StageInv
  <2>5. \A p \in Ring' : Has(mailbox[p], Ys)' => AllTold'
    BY <1>2, <2>2, <2>3 DEF OrderInv, StageInv
  <2>6. ASSUME NEW p \in Process, NEW q \in Process,
               (state[p] = "work" /\ Started(p) /\ p \notin Ring /\ Linked(p, q))'
        PROVE  Told(q)'
    BY <1>1, <1>2, <2>3, <2>6, UntouchedProcesses DEF OrderInv, StageInv
  <2> QED
    BY <2>4, <2>5, <2>6 DEF StageInv
<1> QED
  BY <1>1, <1>4, <1>5, <1>6, UntouchedProcesses DEF OrderInv

LEMMA OrderInit ==
  ASSUME Init
  PROVE  OrderInv
<1>1. /\ phase = "init" /\ clientList = << >> /\ outbox = << >> /\ greetings = {} /\ Ring = {}
      /\ \A p \in Process : /\ state[p] = "new" /\ neighbors[p] = << >>
                            /\ mi[p] = 0 /\ mailbox[p] = << >>
  BY DEF Init, Ring
<1>2. \A M : ~ Has(<< >>, M)
  BY DEF Has
<1>3. OutboxInv
  BY <1>1, EmptyOutbox DEF OutboxInv
<1>4. \A p \in Process : Untouched(p) /\ NeighborsOK(p) /\ \A q : ~ Linked(p, q)
  BY <1>1, <1>2 DEF Untouched, NeighborsOK, Linked, Range
<1>5. LinksInv
  BY <1>1, <1>4 DEF LinksInv
<1>6. \A p \in Process : MailOK(p)
  BY <1>1, <1>2 DEF MailOK, NoneBefore, Follows
<1>7. StageInv
  BY <1>1, EmptyOutbox DEF StageInv
<1> QED
  BY <1>3, <1>5, <1>6, <1>7 DEF OrderInv

(***************************************************************************)
(* On one node nobody has crashed, because the values come in order.       *)
(***************************************************************************)
NobodyCrashed == \A p \in Process : state[p] # "crashed"

OnOneNode == Base /\ (OneNode => OrderInv /\ NobodyCrashed)

LEMMA NextKeepsState ==
  ASSUME Base, [Next]_vars
  PROVE  \/ UNCHANGED state
         \/ \E p \in Process : StartProcess(p)
         \/ \E p \in Process : \E i \in DOMAIN mailbox[p] : SendyTooEarly(p, i) \/ ReceiveKill(p, i)
BY DEF Next, vars, procVars, CoordinatorStep, SendNext, StartAgain, Hello, BriefMi, OperatorCommand,
       Step, Calc, Toggle, Reset, Kill, Multicast, ProcessStep, ReceiveSetneighbors, ReceiveSetpm,
       ReceiveSendy, ReceiveTimeout, ReceiveVote, TimerFires

LEMMA OnOneNodeNext ==
  ASSUME OnOneNode, [Next]_vars
  PROVE  OnOneNode'
<1>1. Base /\ Base'
  BY ClosedPositive, ValuesNext DEF OnOneNode, Base, Positive
<1>2. ASSUME OneNode
      PROVE  OrderInv'
  <2>1. OrderInv
    BY <1>2 DEF OnOneNode
  <2>2. CASE CoordinatorStep
    BY <1>1, <1>2, <2>1, <2>2, CoordinatorOrder
  <2>3. CASE OperatorCommand
    BY <1>1, <1>2, <2>1, <2>3, CommandOrder
  <2>4. CASE \E h \in DOMAIN votes : Multicast(h)
    BY <1>1, <1>2, <2>1, <2>4, QuietOrder
  <2>5. CASE \E p \in Process : StartProcess(p) \/ ProcessStep(p) \/ TimerFires(p)
    BY <1>1, <1>2, <2>1, <2>5, StartProcessOrder, ProcessOrder, QuietOrder
  <2>6. CASE UNCHANGED vars
    BY <2>1, <2>6, OrderStays
  <2> QED
    BY <2>2, <2>3, <2>4, <2>5, <2>6 DEF Next
<1>3. ASSUME OneNode
      PROVE  NobodyCrashed'
  <2>1. OrderInv /\ NobodyCrashed
    BY <1>3 DEF OnOneNode
  <2>2. state \in [Process -> {"new", "work", "dead", "crashed"}]
    BY <1>1, BaseFacts
  <2>3. CASE UNCHANGED state
    BY <2>1, <2>3 DEF NobodyCrashed
  <2>4. CASE \E p \in Process : StartProcess(p)
    BY <2>1, <2>2, <2>4 DEF StartProcess, NobodyCrashed
  <2>5. CASE \E p \in Process : \E i \in DOMAIN mailbox[p] : SendyTooEarly(p, i) \/ ReceiveKill(p, i)
    <3>1. PICK p \in Process : \E i \in DOMAIN mailbox[p] : ReceiveKill(p, i)
      BY <1>1, <1>3, <2>1, <2>5, NeverTooEarly
    <3> QED
      BY <2>1, <2>2, <3>1 DEF ReceiveKill, End, NobodyCrashed
  <2> QED
    BY <1>1, <2>3, <2>4, <2>5, NextKeepsState
<1> QED
  BY <1>1, <1>2, <1>3 DEF OnOneNode

LEMMA OnOneNodeInit ==
  ASSUME Init
  PROVE  OnOneNode
<1>1. Base
  BY ClosedPositive, ValuesInit DEF Base, Positive
<1>2. NobodyCrashed
  BY DEF Init, NobodyCrashed
<1> QED
  BY <1>1, <1>2, OrderInit DEF OnOneNode

(***************************************************************************)
(* On one node no process is ended by the exception of a Y that comes      *)
(* before its first Mi, however many resets and calculations there are.    *)
(***************************************************************************)
THEOREM SetpmIsFirst == Spec => []SetpmComesFirst
<1>1. Init => OnOneNode
  BY OnOneNodeInit
<1>2. OnOneNode /\ [Next]_vars => OnOneNode'
  BY OnOneNodeNext
<1>3. OnOneNode => SetpmComesFirst
  BY DEF OnOneNode, NobodyCrashed, SetpmComesFirst
<1> QED
  BY <1>1, <1>2, <1>3, PTL DEF Spec

-----------------------------------------------------------------------------
(***************************************************************************)
(* As long as the coordinator is at work nobody in its ring is killed, and *)
(* no kill is on its way there.                                            *)
(***************************************************************************)
Alive(p) == state[p] = "work" /\ ~ Has(mailbox[p], Killings)

WorkInv ==
  /\ \A p \in greetings : Alive(p)
  /\ \A p \in Process : state[p] = "new" => ~ Has(mailbox[p], Killings)
  /\ phase \in {"init", "calc"} => ToSend(Killings) = {} /\ \A p \in Ring : Alive(p)
  /\ phase = "init" => wish = 0

Ordered == Base /\ OrderInv /\ NobodyCrashed

LEMMA NoKills == Killings \cap (Rings \cup Mis \cup Ys) = {}
BY DEF Killings, Rings, Mis, Ys

LEMMA AliveStays ==
  ASSUME Base, OneNode, WorkInv, UNCHANGED <<state, wish>>, ToSend(Killings)' = ToSend(Killings),
         \A q \in Process : Has(mailbox'[q], Killings) => Has(mailbox[q], Killings),
         greetings' \subseteq greetings, phase' = phase,
         Ring' \subseteq Ring \cup (greetings \ greetings')
  PROVE  WorkInv'
<1>1. greetings \subseteq Process /\ Ring \subseteq Process
  BY BaseFacts
<1>2. \A q \in Process : Alive(q) => Alive(q)'
  BY DEF Alive, Killings, Messages
<1>3. Killings' = Killings
  BY DEF Killings, Messages
<1>4. \A q \in greetings' : Alive(q)'
  BY <1>1, <1>2 DEF WorkInv
<1>5. \A q \in Process : state'[q] = "new" => ~ Has(mailbox'[q], Killings)
  BY DEF WorkInv
<1>6. ASSUME phase' \in {"init", "calc"}
      PROVE  ToSend(Killings)' = {} /\ \A q \in Ring' : Alive(q)'
  <2>1. ToSend(Killings)' = {}
    BY <1>6 DEF WorkInv
  <2>2. \A q \in Ring' : q \in Ring \/ q \in greetings
    OBVIOUS
  <2>3. \A q \in Ring' : Alive(q)
    BY <1>6, <2>2 DEF WorkInv
  <2> QED
    BY <1>1, <1>2, <2>1, <2>2, <2>3
<1> QED
  BY <1>3, <1>4, <1>5, <1>6 DEF WorkInv

LEMMA PausedWork ==
  ASSUME Base, WorkInv, UNCHANGED <<state, mailbox>>, greetings' \subseteq greetings,
         phase' \notin {"init", "calc"} \/ (phase' = "init" /\ wish' = 0 /\ Ring' = {} /\ outbox' = << >>)
  PROVE  WorkInv'
<1>1. greetings \subseteq Process
  BY BaseFacts
<1>2. Killings' = Killings /\ \A q \in Process : Alive(q) => Alive(q)'
  BY DEF Alive, Killings, Messages
<1>3. \A q \in greetings' : Alive(q)'
  BY <1>1, <1>2 DEF WorkInv
<1>4. \A q \in Process : state'[q] = "new" => ~ Has(mailbox'[q], Killings)
  BY DEF WorkInv
<1>5. outbox' = << >> => ToSend(Killings)' = {}
  BY DEF ToSend
<1> QED
  BY <1>2, <1>3, <1>4, <1>5 DEF WorkInv

LEMMA CoordinatorWork ==
  ASSUME Ordered, OneNode, WorkInv, CoordinatorStep \/ \E h \in DOMAIN votes : Multicast(h)
  PROVE  WorkInv'
<1>0. Base /\ OrderInv
  BY DEF Ordered
<1>1. CASE \E h \in DOMAIN votes : Multicast(h)
  <2>1. /\ UNCHANGED <<phase, clientList, outbox, state>> /\ greetings' \subseteq greetings
        /\ \A q \in Process : Has(mailbox'[q], Killings) => Has(mailbox[q], Killings)
    BY <1>0, <1>1, QuietMail
  <2>2. wish' = wish /\ Ring' = Ring /\ ToSend(Killings)' = ToSend(Killings)
    BY <1>1, <2>1 DEF Multicast, coordVars, Ring, ToSend, Killings, Messages
  <2> QED
    BY <1>0, <2>1, <2>2, AliveStays
<1>2. CASE \E v \in briefs : BriefMi(v)
  <2>1. /\ UNCHANGED <<phase, outbox, state, wish, mailbox, greetings>> /\ Ring' = Ring
        /\ ToSend(Killings)' = ToSend(Killings)
    BY <1>2 DEF BriefMi, procVars, Ring, ToSend, Killings, Messages
  <2> QED
    BY <1>0, <2>1, AliveStays
<1>3. CASE \E p \in Process : Hello(p)
  <2>1. PICK p \in Process : Hello(p)
    BY <1>3
  <2>2. /\ UNCHANGED <<phase, outbox, state, wish, mailbox>> /\ greetings' = greetings \ {p}
        /\ p \in greetings
        /\ phase # "init" => UNCHANGED clientList
        /\ ToSend(Killings)' = ToSend(Killings)
    BY <2>1 DEF Hello, procVars, ToSend, Killings, Messages
  <2>3. Ring' \subseteq Ring \cup {p}
    BY <1>0, <2>1, <2>2, HelloRing DEF Ring
  <2> QED
    BY <1>0, <2>2, <2>3, AliveStays
<1>4. CASE StartAgain
  <2>1. /\ UNCHANGED <<state, mailbox>> /\ greetings' \subseteq greetings
        /\ phase' = "init" /\ wish' = 0 /\ Ring' = {} /\ outbox' = << >>
    BY <1>4 DEF StartAgain, Receiving, procVars, Ring
  <2> QED
    BY <1>0, <2>1, PausedWork
<1>5. CASE SendNext
  <2>1. PICK d \in Process, m \in Messages : Posts(d, m)
    BY <1>0, <1>5, SendNextPosts
  <2>2. /\ phase \in {"calc", "resetting", "down"} /\ Ring' = Ring
        /\ \A k \in ToSend(Killings)' : k + 1 \in ToSend(Killings)
    <3>1. Killings \in SUBSET Messages /\ Killings' = Killings
      BY DEF Killings, Messages
    <3>2. \A k \in ToSend(Killings)' : k \in DOMAIN outbox' /\ outbox'[k].message \in Killings
      BY <3>1 DEF ToSend
    <3> QED
      BY <1>0, <2>1, <3>1, <3>2, PostsOutbox
  <2>3. UNCHANGED <<phase, greetings, state, wish>> /\ Killings' = Killings
    BY <1>5, <2>1 DEF Posts, SendNext, Killings, Messages
  <2>4. d \in Ring /\ state[d] # "new" /\ d \notin greetings
    BY <1>0, <2>1, BaseFacts DEF Posts
  <2>5. \A q \in Process : q # d => mailbox'[q] = mailbox[q]
    BY <2>1 DEF Posts
  <2>6. greetings \subseteq Process /\ Ring \subseteq Process
    BY <1>0, BaseFacts
  <2>7. ASSUME phase = "calc"
        PROVE  Alive(d)'
    <3>1. Alive(d) /\ ToSend(Killings) = {}
      BY <2>4, <2>7 DEF WorkInv
    <3>2. 1 \in DOMAIN outbox /\ outbox[1].message = m /\ Grows(mailbox[d], mailbox'[d], {m})
      BY <2>1 DEF Posts
    <3>3. m \notin Killings
      BY <3>1, <3>2 DEF ToSend
    <3>4. \A i \in DOMAIN mailbox'[d] : mailbox'[d][i] = m \/ (i \in DOMAIN mailbox[d] /\ mailbox'[d][i] = mailbox[d][i])
      BY <3>2 DEF Grows
    <3>5. ~ Has(mailbox'[d], Killings)
      BY <3>1, <3>3, <3>4 DEF Alive, Has
    <3> QED
      BY <2>3, <3>1, <3>5 DEF Alive
  <2>8. \A q \in Process : q # d /\ Alive(q) => Alive(q)'
    BY <2>3, <2>5 DEF Alive
  <2>9. \A q \in greetings' : Alive(q)'
    BY <2>3, <2>4, <2>6, <2>8 DEF WorkInv
  <2>10. \A q \in Process : state'[q] = "new" => ~ Has(mailbox'[q], Killings)
    BY <2>3, <2>4, <2>5 DEF WorkInv
  <2>11. phase' = "calc" => ToSend(Killings)' = {} /\ \A q \in Ring' : Alive(q)'
    BY <2>2, <2>3, <2>6, <2>7, <2>8 DEF WorkInv
  <2> QED
    BY <2>2, <2>3, <2>9, <2>10, <2>11 DEF WorkInv
<1> QED
  BY <1>1, <1>2, <1>3, <1>4, <1>5 DEF CoordinatorStep

LEMMA CommandWork ==
  ASSUME Ordered, OneNode, WorkInv, OperatorCommand
  PROVE  WorkInv'
<1>0. Base /\ OrderInv /\ Killings' = Killings
  BY DEF Ordered, Killings, Messages
<1>1. CASE Toggle \/ Reset \/ Kill
  <2>1. UNCHANGED <<state, mailbox, greetings>> /\ phase' \notin {"init", "calc"}
    BY <1>1 DEF Toggle, Reset, Kill, procVars
  <2> QED
    BY <1>0, <2>1, PausedWork
<1>2. CASE Step /\ phase' = "crashed"
  <2>1. UNCHANGED <<state, mailbox, greetings>>
    BY <1>2 DEF Step, procVars
  <2> QED
    BY <1>0, <1>2, <2>1, PausedWork
<1>3. CASE (Step /\ phase' # "crashed") \/ \E w \in Wish : Calc(w)
  <2>1. /\ phase \in {"init", "calc"} /\ phase' = "calc"
        /\ UNCHANGED <<state, mailbox, greetings, clientList>>
    BY <1>3 DEF Step, Calc, Receiving, procVars
  <2>2. \A k \in DOMAIN outbox' : outbox'[k].message \in Rings \cup Mis \cup Ys
    <3>1. CASE Step /\ phase' # "crashed"
      BY <1>0, <3>1, StepTells
    <3>2. CASE \E w \in Wish : Calc(w)
      <4>1. PICK n, k, f : Begins(n, k, f)
        BY <1>0, <3>2, CalcBegins
      <4>2. \A i \in 1..n : f[i] \in Nat
        BY <4>1 DEF Begins, Positive
      <4>3. \A i \in 1..n : setpm(f[i]) \in Mis /\ sendy(Coordinator, f[i]) \in Ys
        BY <4>2, ValueMessages
      <4>4. \A j \in DOMAIN outbox' : j \in 1..n \/ j \in n + 1..n + k
        BY <4>1 DEF Begins
      <4>5. \A i \in 1..n : outbox'[i].message \in Mis
        BY <4>1, <4>3 DEF Begins
      <4>6. \A j \in n + 1..n + k : outbox'[j].message \in Ys
        BY <4>1, <4>3 DEF Begins
      <4> QED
        BY <4>4, <4>5, <4>6
    <3> QED
      BY <1>3, <3>1, <3>2
  <2>3. ToSend(Killings)' = {}
    BY <1>0, <2>2, NoKills DEF ToSend
  <2>4. Ring' = Ring /\ Ring \subseteq Process /\ greetings \subseteq Process
    BY <1>0, <2>1, BaseFacts DEF Ring
  <2>5. \A q \in Process : Alive(q) => Alive(q)'
    BY <1>0, <2>1 DEF Alive
  <2> QED
    BY <1>0, <2>1, <2>3, <2>4, <2>5 DEF WorkInv
<1> QED
  BY <1>1, <1>2, <1>3 DEF OperatorCommand

LEMMA ProcessWork ==
  ASSUME Ordered, OneNode, WorkInv, NEW p \in Process,
         StartProcess(p) \/ ProcessStep(p) \/ TimerFires(p)
  PROVE  WorkInv'
<1>0. Base /\ OrderInv /\ Killings' = Killings /\ greetings \subseteq Process /\ Ring \subseteq Process
  BY BaseFacts DEF Ordered, Killings, Messages
<1>1. /\ UNCHANGED <<phase, clientList, outbox, wish>> /\ Ring' = Ring
      /\ ToSend(Killings)' = ToSend(Killings)
  BY <1>0 DEF StartProcess, ProcessStep, TimerFires, ReceiveSetneighbors, ReceiveSetpm, ReceiveSendy,
     SendyTooEarly, ReceiveKill, End, ReceiveTimeout, ReceiveVote, coordVars, Ring, ToSend
<1>2. CASE StartProcess(p)
  <2>1. /\ state[p] = "new" /\ \A q \in Process : q # p => state'[q] = state[q]
        /\ state'[p] = "work" /\ greetings' = greetings \cup {p} /\ mailbox' = mailbox
    BY <1>0, <1>2, BaseFacts DEF StartProcess
  <2>2. \A q \in Process : Alive(q) => Alive(q)'
    BY <1>0, <2>1 DEF Alive
  <2>3. Alive(p)'
    BY <1>0, <2>1 DEF Alive, WorkInv
  <2> QED
    BY <1>0, <1>1, <2>1, <2>2, <2>3 DEF WorkInv
<1>3. CASE TimerFires(p) \/ \E i \in DOMAIN mailbox[p] : ReceiveTimeout(p, i) \/ ReceiveVote(p, i)
  <2>1. /\ UNCHANGED state /\ greetings' \subseteq greetings
        /\ \A q \in Process : Has(mailbox'[q], Killings) => Has(mailbox[q], Killings)
    BY <1>0, <1>3, QuietMail
  <2> QED
    BY <1>0, <1>1, <2>1, AliveStays
<1>4. CASE \E i \in DOMAIN mailbox[p] : ReceiveSetneighbors(p, i) \/ ReceiveSetpm(p, i)
  <2>1. PICK i \in DOMAIN mailbox[p] : ReceiveSetneighbors(p, i) \/ ReceiveSetpm(p, i)
    BY <1>4
  <2>2. UNCHANGED <<state, greetings>> /\ mailbox' = Taken(p, i)
    BY <2>1 DEF ReceiveSetneighbors, ReceiveSetpm
  <2>3. \E type : Receives(p, i, type)
    BY <2>1 DEF ReceiveSetneighbors, ReceiveSetpm
  <2>4. /\ mailbox[p] \in Seq(Messages) /\ RemoveAt(mailbox[p], 1) \in Seq(Messages)
        /\ Drops(mailbox[p], RemoveAt(mailbox[p], 1))
        /\ \A q \in Process : Taken(p, i)[q] = IF q = p THEN RemoveAt(mailbox[p], 1) ELSE mailbox[q]
    BY <1>0, <2>3, TakesFirst
  <2>5. Has(RemoveAt(mailbox[p], 1), Killings) => Has(mailbox[p], Killings)
    BY <2>4, DropsOrder
  <2> QED
    BY <1>0, <1>1, <2>2, <2>4, <2>5, AliveStays
<1>5. CASE \E i \in DOMAIN mailbox[p] : ReceiveSendy(p, i)
  <2>1. PICK i \in DOMAIN mailbox[p] : ReceiveSendy(p, i)
    BY <1>5
  <2>2. UNCHANGED <<state, greetings>> /\ Receives(p, i, "sendy") /\ mi[p] # 0
    BY <2>1 DEF ReceiveSendy
  <2>4. /\ mailbox[p] \in Seq(Messages) /\ RemoveAt(mailbox[p], 1) \in Seq(Messages)
        /\ Drops(mailbox[p], RemoveAt(mailbox[p], 1))
        /\ \A q \in Process : Taken(p, i)[q] = IF q = p THEN RemoveAt(mailbox[p], 1) ELSE mailbox[q]
    BY <1>0, <2>2, TakesFirst
  <2>5. Has(RemoveAt(mailbox[p], 1), Killings) => Has(mailbox[p], Killings)
    BY <2>4, DropsOrder
  <2>6. \A q \in Process : Has(mailbox'[q], Killings) => Has(Taken(p, i)[q], Killings)
    <3>1. CASE Reduce(p, i)
      <4>1. PICK new \in Positive :
              sendy(p, new) \in Ys /\ \A q \in Process : Grows(Taken(p, i)[q], mailbox'[q], {sendy(p, new)})
        BY <1>0, <2>2, <3>1, ReduceEffect
      <4>2. sendy(p, new) \notin Killings
        BY <4>1, NoKills
      <4> QED
        BY <4>1, <4>2 DEF Grows, Has
    <3>2. CASE ~ Reduce(p, i)
      BY <2>1, <3>2 DEF ReceiveSendy
    <3> QED
      BY <3>1, <3>2
  <2>7. \A q \in Process : Has(mailbox'[q], Killings) => Has(mailbox[q], Killings)
    BY <2>4, <2>5, <2>6
  <2> QED
    BY <1>0, <1>1, <2>2, <2>7, AliveStays
<1>6. CASE \E i \in DOMAIN mailbox[p] : ReceiveKill(p, i)
  <2>1. PICK i \in DOMAIN mailbox[p] : ReceiveKill(p, i)
    BY <1>6
  <2>2. Receives(p, i, "kill") /\ End(p, "dead")
    BY <2>1 DEF ReceiveKill
  <2>3. mailbox[p][1] \in Killings /\ 1 \in DOMAIN mailbox[p]
    BY <1>0, <2>2, TakesFirst DEF Killings
  <2>4. ~ Alive(p)
    BY <2>3 DEF Alive, Has
  <2>5. /\ \A q \in Process : q # p => state'[q] = state[q] /\ mailbox'[q] = mailbox[q]
        /\ state'[p] = "dead" /\ greetings' = greetings
    BY <1>0, <2>2, BaseFacts DEF End
  <2>6. \A q \in Process : Alive(q) => Alive(q)'
    BY <1>0, <2>4, <2>5 DEF Alive
  <2> QED
    BY <1>0, <1>1, <2>4, <2>5, <2>6 DEF WorkInv
<1>7. CASE \E i \in DOMAIN mailbox[p] : SendyTooEarly(p, i)
  BY <1>0, <1>7, NeverTooEarly
<1> QED
  BY <1>2, <1>3, <1>4, <1>5, <1>6, <1>7 DEF ProcessStep

LEMMA WorkNext ==
  ASSUME Ordered, OneNode, WorkInv, [Next]_vars
  PROVE  WorkInv'
<1>1. CASE UNCHANGED vars
  <2>1. Base /\ ToSend(Killings)' = ToSend(Killings) /\ Ring' = Ring
        /\ UNCHANGED <<state, wish, mailbox, greetings, phase>>
    BY <1>1 DEF Ordered, vars, coordVars, procVars, ToSend, Killings, Messages, Ring
  <2> QED
    BY <2>1, AliveStays
<1>2. CASE Next
  BY <1>2, CoordinatorWork, CommandWork, ProcessWork DEF Next
<1> QED
  BY <1>1, <1>2

-----------------------------------------------------------------------------
(***************************************************************************)
(* A calculation.  What a process is still going to receive, its new value *)
(* and the values of neighbors, which these may no longer have.            *)
(***************************************************************************)
News(p) == ComingValues(p, {"setpm"})

Stale(p) == ComingValues(p, {"sendy"})

Worth(M, v) == {m \in M : m.nr = v}

UpTo(v) == {m \in Ys : m.nr <= v}

Coming(p, M) == Has(mailbox[p], M) \/ ToTell(p, M) # {}

Divides(d, v) == v % d = 0

Calculating == phase = "calc" /\ wish # 0

(***************************************************************************)
(* A process has a value, at most one new one is on its way, and no        *)
(* neighbor's value reaches it before that.                                *)
(***************************************************************************)
OneValue ==
  /\ \A p \in Ring : \A u, v \in News(p) : u = v
  /\ \A p \in Ring : Value(p) # 0
  /\ \A p \in Ring : NoneBefore(mailbox[p], Ys, Mis)
  /\ ToSend(Mis) # {} => \A p \in Ring : ~ Has(mailbox[p], Ys)
  /\ \A p \in Process \ Ring : ~ Has(mailbox[p], Ys)

(***************************************************************************)
(* What divides all values up to a stale one divides that one as well.     *)
(***************************************************************************)
StaleInv ==
  \A p \in Ring : \A y \in Stale(p) : \A d \in Positive :
    (\A q \in Ring : Value(q) <= y => Divides(d, Value(q))) => Divides(d, y)

(***************************************************************************)
(* The coordinator knows, or is going to know, a value as small as any of  *)
(* the ring, and nothing smaller than all of them.                         *)
(***************************************************************************)
MinInv ==
  /\ minMi # 0
  /\ \A b \in briefs \cup {minMi} : \E p \in Ring : Value(p) <= b
  /\ \A p \in Ring : \E b \in briefs \cup {minMi} : b <= Value(p)

(***************************************************************************)
(* A neighbor of a process that has reduced its Mi has no greater value or *)
(* is told one that is no greater.                                         *)
(***************************************************************************)
ToldInv ==
  \A p \in Ring \cap calculated :
    News(p) = {} =>
      \A q \in Range(neighbors[p]) : Value(q) <= mi[p] \/ Has(mailbox[q], UpTo(mi[p]))

(***************************************************************************)
(* The gcd wished for divides all values.                                  *)
(***************************************************************************)
WishInv == \A p \in Ring : Divides(wish, Value(p))

CalcInv == Calculating => OneValue /\ StaleInv /\ MinInv /\ ToldInv /\ WishInv

-----------------------------------------------------------------------------
LEMMA NewsIs ==
  ASSUME Base, NEW p \in Process
  PROVE  /\ \A v : v \in News(p) <=> Coming(p, Worth(Mis, v))
         /\ \A v : v \in Stale(p) <=> Coming(p, Worth(Ys, v))
         /\ News(p) \subseteq Positive /\ Stale(p) \subseteq Positive
<1>1. /\ \A i \in DOMAIN mailbox[p] : mailbox[p][i] \in Messages
      /\ \A k \in DOMAIN outbox : outbox[k].message \in Messages
  <2>1. mailbox[p] \in Seq(Messages)
    BY BaseFacts
  <2> QED
    BY <2>1, OutboxEntries
<1>2. \A v : v \in News(p) <=>
        \/ \E i \in DOMAIN mailbox[p] : mailbox[p][i].type = "setpm" /\ mailbox[p][i].nr = v
        \/ \E k \in DOMAIN outbox : /\ outbox[k].to = p /\ outbox[k].message.type = "setpm"
                                    /\ outbox[k].message.nr = v
  BY DEF News, ComingValues
<1>3. \A v : v \in Stale(p) <=>
        \/ \E i \in DOMAIN mailbox[p] : mailbox[p][i].type = "sendy" /\ mailbox[p][i].nr = v
        \/ \E k \in DOMAIN outbox : /\ outbox[k].to = p /\ outbox[k].message.type = "sendy"
                                    /\ outbox[k].message.nr = v
  BY DEF Stale, ComingValues
<1>4. \A v : v \in News(p) <=> Coming(p, Worth(Mis, v))
  BY <1>1, <1>2 DEF Coming, Has, ToTell, ToSend, Worth, Mis
<1>5. \A v : v \in Stale(p) <=> Coming(p, Worth(Ys, v))
  BY <1>1, <1>3 DEF Coming, Has, ToTell, ToSend, Worth, Ys
<1>6. News(p) \cup Stale(p) \subseteq ComingValues(p, {"setpm", "sendy"})
  BY DEF News, Stale, ComingValues
<1>7. ComingValues(p, {"setpm", "sendy"}) \subseteq Positive
  BY ComingIn DEF Base
<1> QED
  BY <1>4, <1>5, <1>6, <1>7

LEMMA NewsIsNext ==
  ASSUME Base', NEW p \in Process
  PROVE  /\ \A v : v \in News(p)' <=> Coming(p, Worth(Mis, v))'
         /\ \A v : v \in Stale(p)' <=> Coming(p, Worth(Ys, v))'
<1>1. /\ \A i \in DOMAIN mailbox'[p] : mailbox'[p][i] \in Messages
      /\ \A k \in DOMAIN outbox' : outbox'[k].message \in Messages
  <2>1. mailbox'[p] \in Seq(Messages)
    BY BaseFactsNext
  <2>2. outbox' \in Seq(Letter(Positive))
    BY DEF Base, ValuesIn, CoordinatorOK, Letter, Carrying, Messages
  <2>3. \A k \in DOMAIN outbox' : outbox'[k] \in Letter(Positive)
    BY <2>2
  <2> QED
    BY <2>1, <2>3 DEF Letter, Carrying
<1>2. \A v : v \in News(p)' <=>
        \/ \E i \in DOMAIN mailbox'[p] : mailbox'[p][i].type = "setpm" /\ mailbox'[p][i].nr = v
        \/ \E k \in DOMAIN outbox' : /\ outbox'[k].to = p /\ outbox'[k].message.type = "setpm"
                                     /\ outbox'[k].message.nr = v
  BY DEF News, ComingValues
<1>3. \A v : v \in Stale(p)' <=>
        \/ \E i \in DOMAIN mailbox'[p] : mailbox'[p][i].type = "sendy" /\ mailbox'[p][i].nr = v
        \/ \E k \in DOMAIN outbox' : /\ outbox'[k].to = p /\ outbox'[k].message.type = "sendy"
                                     /\ outbox'[k].message.nr = v
  BY DEF Stale, ComingValues
<1>4. \A v : v \in News(p)' <=> Coming(p, Worth(Mis, v))'
  BY <1>1, <1>2 DEF Coming, Has, ToTell, ToSend, Worth, Mis, Messages
<1>5. \A v : v \in Stale(p)' <=> Coming(p, Worth(Ys, v))'
  BY <1>1, <1>3 DEF Coming, Has, ToTell, ToSend, Worth, Ys, Messages
<1> QED
  BY <1>4, <1>5

LEMMA WorthParts ==
  /\ \A v : Worth(Mis, v) \in SUBSET Mis /\ Worth(Ys, v) \in SUBSET Ys /\ UpTo(v) \in SUBSET Ys
  /\ Mis \in SUBSET Messages /\ Ys \in SUBSET Messages
BY DEF Worth, UpTo, Mis, Ys

LEMMA WorthNext ==
  /\ \A v : Worth(Mis, v)' = Worth(Mis, v) /\ Worth(Ys, v)' = Worth(Ys, v) /\ UpTo(v)' = UpTo(v)
  /\ Mis' = Mis /\ Ys' = Ys
BY DEF Worth, UpTo, Mis, Ys, Messages

(***************************************************************************)
(* The values on their way to p are those before, or some of them.         *)
(***************************************************************************)
LEMMA NewsFrom ==
  ASSUME Base, Base', NEW p \in Process
  PROVE  /\ (\A M \in SUBSET Mis : Coming(p, M)' => Coming(p, M)) => News(p)' \subseteq News(p)
         /\ (\A M \in SUBSET Mis : Coming(p, M) => Coming(p, M)') => News(p) \subseteq News(p)'
         /\ (\A M \in SUBSET Ys : Coming(p, M)' => Coming(p, M)) => Stale(p)' \subseteq Stale(p)
<1>1. /\ \A v : v \in News(p) <=> Coming(p, Worth(Mis, v))
      /\ \A v : v \in Stale(p) <=> Coming(p, Worth(Ys, v))
  BY NewsIs
<1>2. /\ \A v : v \in News(p)' <=> Coming(p, Worth(Mis, v))'
      /\ \A v : v \in Stale(p)' <=> Coming(p, Worth(Ys, v))'
  BY NewsIsNext
<1>3. /\ \A v : Coming(p, Worth(Mis, v))' <=> Has(mailbox'[p], Worth(Mis, v)) \/ ToTell(p, Worth(Mis, v))' # {}
      /\ \A v : Coming(p, Worth(Ys, v))' <=> Has(mailbox'[p], Worth(Ys, v)) \/ ToTell(p, Worth(Ys, v))' # {}
  BY WorthNext DEF Coming
<1>4. /\ \A v : ToTell(p, Worth(Mis, v))' = {k \in DOMAIN outbox' : outbox'[k].to = p /\ outbox'[k].message \in Worth(Mis, v)}
      /\ \A v : ToTell(p, Worth(Ys, v))' = {k \in DOMAIN outbox' : outbox'[k].to = p /\ outbox'[k].message \in Worth(Ys, v)}
  BY WorthNext DEF ToTell, ToSend
<1>5. \A M : Coming(p, M)' <=> \/ Has(mailbox'[p], M)
                              \/ {k \in DOMAIN outbox' : outbox'[k].to = p /\ outbox'[k].message \in M} # {}
  BY DEF Coming, ToTell, ToSend, Has
<1> QED
  BY <1>1, <1>2, <1>3, <1>4, <1>5, WorthParts

LEMMA ValueIs ==
  ASSUME NEW p, \A u, v \in News(p) : u = v
  PROVE  (News(p) = {} => Value(p) = mi[p]) /\ \A v \in News(p) : Value(p) = v
<1>1. Value(p) = IF News(p) = {} THEN mi[p] ELSE CHOOSE v \in News(p) : TRUE
  BY DEF Value, News
<1> QED
  BY <1>1

LEMMA ValueIsNext ==
  ASSUME NEW p, \A u, v \in News(p)' : u = v
  PROVE  (News(p)' = {} => Value(p)' = mi'[p]) /\ \A v \in News(p)' : Value(p)' = v
<1>1. Value(p)' = IF News(p)' = {} THEN mi'[p] ELSE CHOOSE v \in News(p)' : TRUE
  BY DEF Value, News
<1> QED
  BY <1>1

LEMMA ValueTyped ==
  ASSUME Base, OneValue, NEW p \in Ring
  PROVE  p \in Process /\ Value(p) \in Positive /\ News(p) \subseteq Positive
<1>1. p \in Process /\ mi[p] \in Nat /\ News(p) \subseteq Positive
  BY BaseFacts, NewsIs
<1>2. News(p) = {} \/ \E v \in News(p) : Value(p) = v
  BY ValueIs DEF OneValue
<1> QED
  BY <1>1, <1>2, ValueIs DEF OneValue, Positive

-----------------------------------------------------------------------------
(***************************************************************************)
(* A step that changes no value of the ring.                               *)
(***************************************************************************)
Keeps ==
  /\ Ring' = Ring
  /\ \A p \in Ring : Value(p)' = Value(p) /\ Stale(p)' \subseteq Stale(p)
  /\ \A p \in Ring : \A v \in Nat :
       Has(mailbox[p], UpTo(v)) => Has(mailbox'[p], UpTo(v)) \/ Value(p) <= v
  /\ \A p \in Ring \cap calculated' : News(p)' = {} =>
       p \in calculated /\ News(p) = {} /\ mi'[p] = mi[p] /\ neighbors'[p] = neighbors[p]

LEMMA NeighborsInRing ==
  ASSUME Base, OrderInv, NEW p \in Ring, NEW q \in Range(neighbors[p])
  PROVE  p \in Process /\ q \in Process /\ q \in Ring
<1>1. p \in Process /\ q \in Process
  BY BaseFacts DEF Range
<1> QED
  BY <1>1 DEF OrderInv, LinksInv, Linked

LEMMA KeepsInv ==
  ASSUME Base, OrderInv, StaleInv, ToldInv, Keeps
  PROVE  StaleInv' /\ ToldInv'
<1>1. Positive' = Positive /\ (\A d, v : Divides(d, v)' = Divides(d, v)) /\ Ring \subseteq Process
  BY BaseFacts DEF Positive, Divides
<1>2. StaleInv'
  <2> SUFFICES ASSUME NEW p \in Ring', NEW y \in Stale(p)', NEW d \in Positive,
                      \A q \in Ring' : Value(q)' <= y => Divides(d, Value(q)')
               PROVE  Divides(d, y)
    BY <1>1 DEF StaleInv, Divides
  <2>1. \A q \in Ring : Value(q) <= y => Divides(d, Value(q))
    BY DEF Keeps
  <2>2. p \in Ring /\ y \in Stale(p)
    BY DEF Keeps
  <2> QED
    BY <2>1, <2>2 DEF StaleInv
<1>3. ToldInv'
  <2> SUFFICES ASSUME NEW p \in Ring', p \in calculated', News(p)' = {}, NEW q \in Range(neighbors'[p])
               PROVE  Value(q)' <= mi'[p] \/ Has(mailbox'[q], UpTo(mi'[p]))
    BY WorthNext DEF ToldInv
  <2>1. p \in Ring /\ p \in calculated /\ News(p) = {} /\ mi'[p] = mi[p] /\ neighbors'[p] = neighbors[p]
    BY DEF Keeps
  <2>2. q \in Ring /\ mi[p] \in Nat
    BY <1>1, <2>1, NeighborsInRing, BaseFacts
  <2>3. Value(q) <= mi[p] \/ Has(mailbox[q], UpTo(mi[p]))
    BY <2>1 DEF ToldInv
  <2> QED
    BY <2>1, <2>2, <2>3 DEF Keeps
<1> QED
  BY <1>2, <1>3

Pick(N, m) == IF N = {} THEN m ELSE CHOOSE v \in N : TRUE

LEMMA SameValue ==
  ASSUME NEW p, News(p)' = News(p), mi'[p] = mi[p]
  PROVE  Value(p)' = Value(p)
<1>1. Value(p) = Pick(News(p), mi[p])
  BY DEF Value, News, Pick
<1>2. Value(p)' = Pick(News(p)', mi'[p])
  BY DEF Value, News, Pick
<1> QED
  BY <1>1, <1>2

LEMMA Settled ==
  ASSUME Base, OneValue, Ring' = Ring, ToSend(Mis)' # {} => ToSend(Mis) # {},
         \A q \in Process : Has(mailbox'[q], Ys) => Has(mailbox[q], Ys),
         \A q \in Ring : NoneBefore(mailbox'[q], Ys, Mis),
         \A q \in Ring : News(q)' \subseteq News(q) /\ Value(q)' = Value(q)
  PROVE  OneValue'
<1>1. Ring \subseteq Process /\ Mis' = Mis /\ Ys' = Ys
  BY BaseFacts, WorthNext
<1>2. \A q \in Ring' : \A u, v \in News(q)' : u = v
  BY DEF OneValue
<1>3. \A q \in Ring' : Value(q)' # 0
  BY DEF OneValue
<1>4. \A q \in Ring' : NoneBefore(mailbox'[q], Ys', Mis')
  BY <1>1
<1>5. ToSend(Mis)' # {} => \A q \in Ring' : ~ Has(mailbox'[q], Ys')
  BY <1>1 DEF OneValue
<1>6. \A q \in Process \ Ring' : ~ Has(mailbox'[q], Ys')
  BY <1>1 DEF OneValue
<1> QED
  BY <1>2, <1>3, <1>4, <1>5, <1>6 DEF OneValue, NoneBefore, Has

LEMMA SameOutbox ==
  ASSUME outbox' = outbox, NEW p
  PROVE  /\ \A M \in SUBSET Mis : Coming(p, M)' <=> Has(mailbox'[p], M) \/ ToTell(p, M) # {}
         /\ \A M \in SUBSET Ys : Coming(p, M)' <=> Has(mailbox'[p], M) \/ ToTell(p, M) # {}
         /\ ToSend(Mis)' = ToSend(Mis)
BY DEF Coming, ToTell, ToSend, Has, Mis, Messages

(***************************************************************************)
(* Mailboxes with the same values in the same order.                       *)
(***************************************************************************)
LEMMA SameValues ==
  ASSUME Base, Base', OneValue, UNCHANGED <<outbox, clientList, calculated, mi>>,
         \A q \in Process : /\ \A M \in SUBSET Mis : Has(mailbox'[q], M) <=> Has(mailbox[q], M)
                            /\ \A M \in SUBSET Ys : Has(mailbox'[q], M) <=> Has(mailbox[q], M)
                            /\ NoneBefore(mailbox[q], Ys, Mis) => NoneBefore(mailbox'[q], Ys, Mis),
         \A q \in Ring \cap calculated : News(q) = {} => neighbors'[q] = neighbors[q]
  PROVE  Keeps /\ OneValue'
<1>1. Ring' = Ring /\ Ring \subseteq Process
  BY BaseFacts DEF Ring
<1>2. ASSUME NEW q \in Ring
      PROVE  News(q)' = News(q) /\ Stale(q)' \subseteq Stale(q)
  <2>1. /\ \A M \in SUBSET Mis : Coming(q, M)' <=> Coming(q, M)
        /\ \A M \in SUBSET Ys : Coming(q, M)' <=> Coming(q, M)
    BY <1>1, SameOutbox DEF Coming
  <2> QED
    BY <1>1, <2>1, NewsFrom
<1>3. ASSUME NEW q \in Ring
      PROVE  Value(q)' = Value(q)
  BY <1>2, SameValue
<1>4. \A q \in Ring : \A v \in Nat : Has(mailbox[q], UpTo(v)) => Has(mailbox'[q], UpTo(v))
  BY <1>1, WorthParts
<1>5. Keeps
  BY <1>1, <1>2, <1>3, <1>4 DEF Keeps
<1>6. /\ \A q \in Process : Has(mailbox'[q], Ys) => Has(mailbox[q], Ys)
      /\ \A q \in Ring : NoneBefore(mailbox'[q], Ys, Mis)
  <2>1. Ys \in SUBSET Ys
    OBVIOUS
  <2> QED
    BY <1>1, <2>1 DEF OneValue
<1>7. OneValue'
  BY <1>1, <1>2, <1>3, <1>6, Settled, SameOutbox
<1> QED
  BY <1>5, <1>7

LEMMA QuietKeeps ==
  ASSUME Base, Base', OneNode, OneValue, phase # "init",
         \/ \E p \in Process : StartProcess(p) \/ TimerFires(p)
         \/ \E h \in DOMAIN votes : Multicast(h)
         \/ \E p \in Process : \E i \in DOMAIN mailbox[p] : ReceiveTimeout(p, i) \/ ReceiveVote(p, i)
         \/ \E v \in briefs : BriefMi(v)
         \/ \E p \in Process : Hello(p)
  PROVE  Keeps /\ OneValue'
<1>1. UNCHANGED <<outbox, clientList, calculated, mi, neighbors>>
  BY DEF StartProcess, TimerFires, Multicast, ReceiveTimeout, ReceiveVote, BriefMi, Hello, coordVars, procVars
<1>2. \A q \in Process : SameLetters(mailbox[q], mailbox'[q])
  <2>1. CASE \E p \in Process : StartProcess(p)
    BY <2>1 DEF StartProcess, SameLetters
  <2> QED
    BY <2>1, QuietMail
<1>3. \A q \in Process : mailbox[q] \in Seq(Messages) /\ mailbox'[q] \in Seq(Messages)
  BY BaseFacts, BaseFactsNext
<1>4. ASSUME NEW q \in Process
      PROVE  /\ \A M \in SUBSET Mis : Has(mailbox'[q], M) <=> Has(mailbox[q], M)
             /\ \A M \in SUBSET Ys : Has(mailbox'[q], M) <=> Has(mailbox[q], M)
             /\ NoneBefore(mailbox[q], Ys, Mis) => NoneBefore(mailbox'[q], Ys, Mis)
  <2>1. /\ \A M : M \subseteq Rings \cup Mis \cup Ys => (Has(mailbox'[q], M) <=> Has(mailbox[q], M))
        /\ \A M, N : /\ M \subseteq Rings \cup Mis \cup Ys /\ N \subseteq Rings \cup Mis \cup Ys
                     => (NoneBefore(mailbox[q], M, N) => NoneBefore(mailbox'[q], M, N))
    BY <1>2, <1>3, SameLettersOrder
  <2> QED
    BY <2>1, Parts
<1> QED
  BY <1>1, <1>4, SameValues

(***************************************************************************)
(* A process that receives its neighbors has no Mi yet.                    *)
(***************************************************************************)
LEMMA NeighborsKeep ==
  ASSUME Base, Base', OrderInv, OneNode, OneValue, NEW p \in Process, NEW i \in DOMAIN mailbox[p],
         ReceiveSetneighbors(p, i)
  PROVE  Keeps /\ OneValue'
<1> DEFINE s == mailbox[p]
           t == RemoveAt(mailbox[p], 1)
<1>1. /\ s \in Seq(Messages) /\ t \in Seq(Messages) /\ Drops(s, t)
      /\ 1 \in DOMAIN s /\ s[1] \in Rings
      /\ \A q \in Process : mailbox'[q] = IF q = p THEN t ELSE mailbox[q]
  BY TakesFirst DEF ReceiveSetneighbors, Rings
<1>2. mi[p] = 0
  <2>1. Has(mailbox[p], Rings)
    BY <1>1 DEF Has
  <2> QED
    BY <2>1 DEF OrderInv, MailOK
<1>3. /\ UNCHANGED <<outbox, clientList, calculated>>
      /\ mi' = [mi EXCEPT ![p] = 0] /\ \A q \in Process : q # p => neighbors'[q] = neighbors[q]
  BY BaseFacts DEF ReceiveSetneighbors, coordVars
<1>4. mi' = mi
  BY <1>2, <1>3, BaseFacts
<1> HIDE DEF s, t
<1>5. /\ \A M : M \cap Rings = {} => (Has(t, M) <=> Has(s, M))
      /\ NoneBefore(s, Ys, Mis) => NoneBefore(t, Ys, Mis)
  BY <1>1, DropsOrder
<1>6. \A q \in Process : /\ \A M \in SUBSET Mis : Has(mailbox'[q], M) <=> Has(mailbox[q], M)
                         /\ \A M \in SUBSET Ys : Has(mailbox'[q], M) <=> Has(mailbox[q], M)
                         /\ NoneBefore(mailbox[q], Ys, Mis) => NoneBefore(mailbox'[q], Ys, Mis)
  BY <1>1, <1>5, Kinds DEF s
<1>7. ASSUME NEW q \in Ring \cap calculated, News(q) = {}
      PROVE  neighbors'[q] = neighbors[q]
  <2>1. Value(q) = mi[q] /\ Value(q) # 0 /\ q \in Process
    BY <1>7, ValueIs, BaseFacts DEF OneValue
  <2> QED
    BY <1>2, <1>3, <2>1
<1> QED
  BY <1>3, <1>4, <1>6, <1>7, SameValues

(***************************************************************************)
(* A new value is the one that p was going to have.                        *)
(***************************************************************************)
LEMMA SetpmKeeps ==
  ASSUME Base, Base', OrderInv, OneNode, OneValue, NEW p \in Process, NEW i \in DOMAIN mailbox[p],
         ReceiveSetpm(p, i)
  PROVE  Keeps /\ OneValue'
<1> DEFINE s == mailbox[p]
           t == RemoveAt(mailbox[p], 1)
           v == mailbox[p][1].nr
<1>1. /\ i = 1 /\ s \in Seq(Messages) /\ t \in Seq(Messages) /\ Drops(s, t)
      /\ 1 \in DOMAIN s /\ s[1] \in Mis
      /\ \A q \in Process : mailbox'[q] = IF q = p THEN t ELSE mailbox[q]
  BY TakesFirst DEF ReceiveSetpm, Mis
<1>2. /\ UNCHANGED <<outbox, clientList, neighbors>> /\ calculated' = calculated \ {p}
      /\ \A q \in Process : mi'[q] = IF q = p THEN v ELSE mi[q]
  BY <1>1, BaseFacts DEF ReceiveSetpm, coordVars
<1>3. v \in News(p)
  <2>1. s[1] \in Worth(Mis, v)
    BY <1>1 DEF Worth
  <2>2. Coming(p, Worth(Mis, v))
    BY <1>1, <2>1 DEF Coming, Has
  <2> QED
    BY <2>2, NewsIs
<1>4. Ring' = Ring /\ Ring \subseteq Process
  BY <1>2, BaseFacts DEF Ring
<1> HIDE DEF s, t, v
<1>5. /\ \A M : Has(t, M) => Has(s, M)
      /\ \A M \in SUBSET Ys : Has(t, M) <=> Has(s, M)
      /\ NoneBefore(s, Ys, Mis) => NoneBefore(t, Ys, Mis)
  BY <1>1, DropsOrder, Kinds
<1>6. ASSUME NEW q \in Ring
      PROVE  /\ News(q)' \subseteq News(q) /\ Stale(q)' \subseteq Stale(q)
             /\ q # p => News(q)' = News(q)
  <2>1. /\ \A M \in SUBSET Mis : Coming(q, M)' => Coming(q, M)
        /\ \A M \in SUBSET Ys : Coming(q, M)' => Coming(q, M)
        /\ q # p => \A M \in SUBSET Mis : Coming(q, M) => Coming(q, M)'
    BY <1>1, <1>2, <1>4, <1>5, SameOutbox DEF Coming, s
  <2> QED
    BY <1>4, <2>1, NewsFrom
<1>7. ASSUME NEW q \in Ring
      PROVE  Value(q)' = Value(q)
  <2>1. CASE q # p
    <3>1. News(q)' = News(q) /\ mi'[q] = mi[q]
      BY <1>2, <1>4, <1>6, <2>1
    <3> QED
      BY <3>1, SameValue
  <2>2. CASE q = p
    <3>1. \A u, w \in News(p) : u = w
      BY <2>2 DEF OneValue
    <3>2. \A u, w \in News(p)' : u = w
      BY <1>6, <2>2, <3>1
    <3>3. Value(p) = v
      BY <1>3, <3>1, ValueIs
    <3>4. CASE News(p)' = {}
      BY <1>2, <2>2, <3>2, <3>3, <3>4, ValueIsNext
    <3>5. CASE News(p)' # {}
      <4>1. v \in News(p)'
        BY <1>3, <1>6, <2>2, <3>1, <3>5
      <4> QED
        BY <2>2, <3>2, <3>3, <4>1, ValueIsNext
    <3> QED
      BY <3>4, <3>5
  <2> QED
    BY <2>1, <2>2
<1>8. \A q \in Ring : \A w \in Nat : Has(mailbox[q], UpTo(w)) => Has(mailbox'[q], UpTo(w))
  BY <1>1, <1>4, <1>5, WorthParts DEF s
<1>9. ASSUME NEW q \in Ring \cap calculated', News(q)' = {}
      PROVE  q \in calculated /\ News(q) = {} /\ mi'[q] = mi[q] /\ neighbors'[q] = neighbors[q]
  <2>1. q # p /\ q \in calculated /\ q \in Process
    BY <1>2, <1>4, <1>9
  <2> QED
    BY <1>2, <1>6, <1>9, <2>1
<1>10. Keeps
  BY <1>4, <1>6, <1>7, <1>8, <1>9 DEF Keeps
<1>11. /\ \A q \in Process : Has(mailbox'[q], Ys) => Has(mailbox[q], Ys)
       /\ \A q \in Ring : NoneBefore(mailbox'[q], Ys, Mis)
  BY <1>1, <1>4, <1>5 DEF OneValue, s
<1>12. OneValue'
  BY <1>2, <1>4, <1>6, <1>7, <1>11, SameOutbox, Settled
<1> QED
  BY <1>10, <1>12

LEMMA SendKeeps ==
  ASSUME Base, Base', OrderInv, OneNode, WorkInv, OneValue, phase = "calc", SendNext
  PROVE  Keeps /\ OneValue'
<1>1. PICK d \in Process, m \in Messages : Posts(d, m)
  BY SendNextPosts
<1>2. /\ d \in Ring /\ 1 \in DOMAIN outbox /\ outbox[1].to = d /\ outbox[1].message = m
      /\ UNCHANGED <<clientList, mi, neighbors>> /\ calculated' = calculated
  BY <1>1 DEF Posts, SendNext, procVars
<1>3. state[d] = "work"
  BY <1>2 DEF WorkInv, Alive
<1>4. Ring' = Ring /\ Ring \subseteq Process
  BY <1>2, BaseFacts DEF Ring
<1>5. /\ \A M \in SUBSET Messages : \A k \in DOMAIN outbox' :
           outbox'[k].message \in M => k + 1 \in ToSend(M) /\ outbox[k + 1] = outbox'[k]
      /\ \A M \in SUBSET Messages : \A k \in ToSend(M) :
           k = 1 \/ (k - 1 \in DOMAIN outbox' /\ outbox'[k - 1] = outbox[k])
  BY <1>1, PostsOutbox
<1>6. ASSUME NEW q \in Process
      PROVE  /\ \A M : Has(mailbox[q], M) => Has(mailbox'[q], M)
             /\ \A M : Has(mailbox'[q], M) => Has(mailbox[q], M) \/ (m \in M /\ q = d)
             /\ \A M : q = d /\ m \in M => Has(mailbox'[q], M)
             /\ \A M, N : NoneBefore(mailbox[q], M, N) /\ (m \notin N \/ (~ Has(mailbox[q], M) /\ m \notin M))
                            => NoneBefore(mailbox'[q], M, N)
  BY <1>1, <1>3, PostsMail
<1>7. ASSUME NEW q \in Process, NEW M \in SUBSET Messages
      PROVE  Coming(q, M)' <=> Coming(q, M)
  <2>1. Coming(q, M)' <=> \/ Has(mailbox'[q], M)
                          \/ \E k \in DOMAIN outbox' : outbox'[k].to = q /\ outbox'[k].message \in M
    BY DEF Coming, ToTell, ToSend, Has
  <2>2. Coming(q, M) <=> \/ Has(mailbox[q], M)
                         \/ \E k \in DOMAIN outbox : outbox[k].to = q /\ outbox[k].message \in M
    BY DEF Coming, ToTell, ToSend
  <2>3. ASSUME NEW k \in DOMAIN outbox', outbox'[k].to = q, outbox'[k].message \in M
        PROVE  k + 1 \in DOMAIN outbox /\ outbox[k + 1].to = q /\ outbox[k + 1].message \in M
    BY <1>5, <2>3 DEF ToSend
  <2>4. ASSUME NEW k \in DOMAIN outbox, outbox[k].to = q, outbox[k].message \in M
        PROVE  Coming(q, M)'
    <3>1. k \in ToSend(M)
      BY <2>4 DEF ToSend
    <3>2. CASE k = 1
      BY <1>2, <1>6, <2>1, <2>4, <3>2
    <3>3. CASE k # 1
      <4>1. k - 1 \in DOMAIN outbox' /\ outbox'[k - 1] = outbox[k]
        BY <1>5, <3>1, <3>3
      <4> QED
        BY <2>1, <2>4, <4>1
    <3> QED
      BY <3>2, <3>3
  <2> QED
    BY <1>2, <1>6, <2>1, <2>2, <2>3, <2>4
<1>8. ASSUME NEW q \in Ring
      PROVE  News(q)' = News(q) /\ Stale(q)' \subseteq Stale(q)
  <2>1. /\ \A M \in SUBSET Mis : Coming(q, M)' <=> Coming(q, M)
        /\ \A M \in SUBSET Ys : Coming(q, M)' <=> Coming(q, M)
    BY <1>4, <1>7, WorthParts
  <2> QED
    BY <1>4, <2>1, NewsFrom
<1>9. \A q \in Ring : Value(q)' = Value(q)
  BY <1>2, <1>8, SameValue
<1>10. Keeps
  BY <1>2, <1>4, <1>6, <1>8, <1>9 DEF Keeps
<1>11. Ring' = Ring /\ Mis' = Mis /\ Ys' = Ys
  BY <1>4, WorthNext
<1>12. m \in Ys => ToSend(Mis)' = {}
  <2> SUFFICES ASSUME m \in Ys, NEW k \in ToSend(Mis)'
               PROVE  FALSE
    OBVIOUS
  <2>1. k \in DOMAIN outbox' /\ outbox'[k].message \in Mis
    BY <1>11 DEF ToSend
  <2>2. k + 1 \in ToSend(Mis) /\ 1 \in ToSend(Ys)
    BY <1>2, <1>5, <2>1, WorthParts DEF ToSend
  <2>3. k + 1 < 1 /\ k \in Nat
    BY <1>1, <2>1, <2>2 DEF OrderInv, OutboxInv, Posts
  <2> QED
    BY <2>3
<1>13. ToSend(Mis)' # {} => ToSend(Mis) # {}
  BY <1>5, <1>11, WorthParts DEF ToSend
<1>14. m \in Mis => ToSend(Mis) # {}
  BY <1>2 DEF ToSend
<1>15. ASSUME NEW q \in Ring
       PROVE  NoneBefore(mailbox'[q], Ys, Mis)
  <2>1. NoneBefore(mailbox[q], Ys, Mis) /\ q \in Process
    BY <1>4 DEF OneValue
  <2>2. m \in Mis => ~ Has(mailbox[q], Ys) /\ m \notin Ys
    BY <1>14, Kinds DEF OneValue
  <2> QED
    BY <1>6, <2>1, <2>2
<1>16. ToSend(Mis)' # {} => \A q \in Ring : ~ Has(mailbox'[q], Ys)
  BY <1>4, <1>6, <1>12, <1>13 DEF OneValue
<1>17. \A q \in Process \ Ring : ~ Has(mailbox'[q], Ys)
  BY <1>2, <1>6 DEF OneValue
<1>18. OneValue'
  <2>1. /\ \A q \in Ring' : \A u, v \in News(q)' : u = v
        /\ \A q \in Ring' : Value(q)' # 0
    BY <1>4, <1>8, <1>9 DEF OneValue
  <2>2. \A q \in Ring' : NoneBefore(mailbox[q], Ys, Mis)'
    BY <1>11, <1>15 DEF NoneBefore
  <2>3. ToSend(Mis)' # {} => \A q \in Ring' : ~ Has(mailbox[q], Ys)'
    BY <1>11, <1>16 DEF Has
  <2>4. \A q \in Process \ Ring' : ~ Has(mailbox[q], Ys)'
    BY <1>11, <1>17 DEF Has
  <2> QED
    BY <2>1, <2>2, <2>3, <2>4 DEF OneValue
<1> QED
  BY <1>10, <1>18

LEMMA KillKeeps ==
  ASSUME Base, Base', OrderInv, OneNode, WorkInv, OneValue, phase = "calc", NEW p \in Process,
         NEW i \in DOMAIN mailbox[p], ReceiveKill(p, i)
  PROVE  Keeps /\ OneValue'
<1>1. Receives(p, i, "kill") /\ End(p, "dead")
  BY DEF ReceiveKill
<1>2. mailbox[p][1] \in Killings /\ 1 \in DOMAIN mailbox[p]
  BY <1>1, TakesFirst DEF Killings
<1>3. p \notin Ring
  BY <1>2 DEF WorkInv, Alive, Has
<1>4. /\ \A q \in Process : q # p => mailbox'[q] = mailbox[q]
      /\ mailbox'[p] = << >> /\ UNCHANGED <<outbox, clientList, calculated, mi, neighbors>>
  BY <1>1, BaseFacts DEF End, coordVars
<1>5. Ring' = Ring /\ Ring \subseteq Process
  BY <1>4, BaseFacts DEF Ring
<1>6. ASSUME NEW q \in Ring
      PROVE  News(q)' = News(q) /\ Stale(q)' \subseteq Stale(q)
  <2>1. mailbox'[q] = mailbox[q]
    BY <1>3, <1>4, <1>5
  <2>2. /\ \A M \in SUBSET Mis : Coming(q, M)' <=> Coming(q, M)
        /\ \A M \in SUBSET Ys : Coming(q, M)' <=> Coming(q, M)
    BY <1>4, <2>1, SameOutbox DEF Coming
  <2> QED
    BY <1>5, <2>2, NewsFrom
<1>7. \A q \in Ring : Value(q)' = Value(q)
  BY <1>4, <1>6, SameValue
<1>8. Keeps
  BY <1>3, <1>4, <1>5, <1>6, <1>7 DEF Keeps
<1>9. /\ \A q \in Process : Has(mailbox'[q], Ys) => Has(mailbox[q], Ys)
      /\ \A q \in Ring : NoneBefore(mailbox'[q], Ys, Mis)
  BY <1>3, <1>4, <1>5 DEF OneValue, Has
<1> QED
  BY <1>4, <1>5, <1>6, <1>7, <1>8, <1>9, SameOutbox, Settled

(***************************************************************************)
(* When a process receives a Y its own value is the Mi that it has.        *)
(***************************************************************************)
LEMMA HearsLast ==
  ASSUME Base, OrderInv, OneNode, OneValue, NEW p \in Process, NEW i \in DOMAIN mailbox[p],
         ReceiveSendy(p, i)
  PROVE  /\ p \in Ring /\ News(p) = {} /\ Value(p) = mi[p]
         /\ ToSend(Mis) = {} /\ ~ Has(mailbox[p], Mis)
         /\ i = 1 /\ mailbox[p][1] \in Ys /\ mailbox[p][1].nr \in Stale(p)
         /\ mailbox[p][1].nr \in Positive /\ mi[p] \in Positive
         /\ mailbox[p] \in Seq(Messages) /\ RemoveAt(mailbox[p], 1) \in Seq(Messages)
         /\ Drops(mailbox[p], RemoveAt(mailbox[p], 1)) /\ 1 \in DOMAIN mailbox[p]
         /\ \A q \in Process : Taken(p, i)[q] = IF q = p THEN RemoveAt(mailbox[p], 1) ELSE mailbox[q]
<1> DEFINE s == mailbox[p]
           t == RemoveAt(mailbox[p], 1)
<1>1. /\ i = 1 /\ s \in Seq(Messages) /\ t \in Seq(Messages) /\ Drops(s, t)
      /\ 1 \in DOMAIN s /\ s[1] \in Ys
      /\ \A q \in Process : Taken(p, i)[q] = IF q = p THEN t ELSE mailbox[q]
  BY TakesFirst DEF ReceiveSendy, Ys
<1>2. Has(mailbox[p], Ys)
  BY <1>1 DEF Has
<1>3. p \in Ring /\ ToSend(Mis) = {} /\ NoneBefore(mailbox[p], Ys, Mis)
  BY <1>2 DEF OneValue
<1> HIDE DEF s, t
<1>4. ~ Has(mailbox[p], Mis)
  <2>1. ~ Has(t, Mis)
    <3>1. NoneBefore(s, Ys, Mis)
      BY <1>3 DEF s
    <3> QED
      BY <1>1, <3>1, DropsOrder
  <2>2. s[1] \notin Mis
    BY <1>1, Kinds
  <2>3. Has(s, Mis) => Has(t, Mis)
    BY <1>1, <2>2, DropsOrder
  <2> QED
    BY <2>1, <2>3 DEF s
<1>5. News(p) = {}
  <2>1. \A v : ~ Coming(p, Worth(Mis, v))
    BY <1>3, <1>4 DEF Coming, Has, ToTell, ToSend, Worth
  <2> QED
    BY <2>1, NewsIs
<1>6. Value(p) = mi[p]
  BY <1>5, ValueIs
<1>7. mailbox[p][1].nr \in Stale(p)
  <2>1. mailbox[p][1] \in Worth(Ys, mailbox[p][1].nr)
    BY <1>1 DEF Worth, s
  <2>2. Coming(p, Worth(Ys, mailbox[p][1].nr))
    BY <1>1, <2>1 DEF Coming, Has, s
  <2> QED
    BY <2>2, NewsIs
<1>8. mailbox[p][1].nr \in Positive /\ mi[p] \in Positive
  BY <1>3, <1>6, <1>7, NewsIs, ValueTyped
<1> QED
  BY <1>1, <1>3, <1>4, <1>5, <1>6, <1>7, <1>8 DEF s, t

LEMMA LargerKeeps ==
  ASSUME Base, Base', OrderInv, OneNode, OneValue, NEW p \in Process, NEW i \in DOMAIN mailbox[p],
         ReceiveSendy(p, i), ~ Reduce(p, i)
  PROVE  Keeps /\ OneValue' /\ UNCHANGED briefs
<1> DEFINE s == mailbox[p]
           t == RemoveAt(mailbox[p], 1)
           y == mailbox[p][1].nr
<1>1. /\ p \in Ring /\ News(p) = {} /\ Value(p) = mi[p]
      /\ s \in Seq(Messages) /\ t \in Seq(Messages) /\ Drops(s, t) /\ s[1] \in Ys
      /\ y \in Positive /\ mi[p] \in Positive /\ i = 1
      /\ \A q \in Process : Taken(p, i)[q] = IF q = p THEN t ELSE mailbox[q]
  BY HearsLast
<1>2. /\ y >= mi[p] /\ mailbox' = Taken(p, i)
      /\ UNCHANGED <<outbox, clientList, calculated, mi, neighbors, briefs>>
  BY <1>1 DEF ReceiveSendy, coordVars
<1>3. Ring' = Ring /\ Ring \subseteq Process
  BY <1>2, BaseFacts DEF Ring
<1>4. \A q \in Process : mailbox'[q] = IF q = p THEN t ELSE mailbox[q]
  BY <1>1, <1>2
<1> HIDE DEF s, t, y
<1>5. /\ \A M : Has(t, M) => Has(s, M)
      /\ \A M \in SUBSET Mis : Has(t, M) <=> Has(s, M)
      /\ \A M : Has(s, M) /\ s[1] \notin M => Has(t, M)
      /\ NoneBefore(s, Ys, Mis) => NoneBefore(t, Ys, Mis)
  BY <1>1, DropsOrder, Kinds
<1>6. ASSUME NEW q \in Ring
      PROVE  News(q)' = News(q) /\ Stale(q)' \subseteq Stale(q)
  <2>1. /\ \A M \in SUBSET Mis : Coming(q, M)' <=> Coming(q, M)
        /\ \A M \in SUBSET Ys : Coming(q, M)' => Coming(q, M)
    BY <1>2, <1>3, <1>4, <1>5, SameOutbox DEF Coming, s
  <2> QED
    BY <1>3, <2>1, NewsFrom
<1>7. \A q \in Ring : Value(q)' = Value(q)
  BY <1>2, <1>6, SameValue
<1>8. ASSUME NEW q \in Ring, NEW v \in Nat, Has(mailbox[q], UpTo(v))
      PROVE  Has(mailbox'[q], UpTo(v)) \/ Value(q) <= v
  <2>1. CASE q # p
    BY <1>3, <1>4, <1>8, <2>1
  <2>2. CASE q = p /\ s[1] \in UpTo(v)
    <3>1. y <= v
      BY <2>2 DEF UpTo, s, y
    <3> QED
      BY <1>1, <1>2, <2>2, <3>1 DEF Positive
  <2>3. CASE q = p /\ s[1] \notin UpTo(v)
    BY <1>3, <1>4, <1>5, <1>8, <2>3 DEF s
  <2> QED
    BY <2>1, <2>2, <2>3
<1>9. Keeps
  BY <1>2, <1>3, <1>6, <1>7, <1>8 DEF Keeps
<1>10. /\ \A q \in Process : Has(mailbox'[q], Ys) => Has(mailbox[q], Ys)
       /\ \A q \in Ring : NoneBefore(mailbox'[q], Ys, Mis)
  BY <1>3, <1>4, <1>5 DEF OneValue, s
<1> QED
  BY <1>2, <1>3, <1>6, <1>7, <1>9, <1>10, SameOutbox, Settled

-----------------------------------------------------------------------------
(***************************************************************************)
(* What a reduction by y keeps: m is calc(m, y) and some times y.          *)
(***************************************************************************)
LEMMA CalcParts ==
  ASSUME NEW m \in Positive, NEW y \in Positive
  PROVE  calc(m, y) \in Positive /\ calc(m, y) <= y /\ \E q \in Nat : m = y * q + calc(m, y)
<1>1. m - 1 \in Nat /\ y \in Nat \ {0}
  BY DEF Positive
<1>2. (m - 1) % y \in 0..y - 1 /\ (m - 1) \div y \in Nat /\ m - 1 = y * ((m - 1) \div y) + ((m - 1) % y)
  BY <1>1, RemainderBounds
<1> DEFINE r == (m - 1) % y
           q == (m - 1) \div y
<1>3. r \in 0..y - 1 /\ q \in Nat /\ m - 1 = y * q + r
  BY <1>2
<1> HIDE DEF r, q
<1>4. y * q \in Nat
  BY <1>1, <1>3
<1>5. r + 1 \in Positive /\ r + 1 <= y /\ m = y * q + (r + 1)
  BY <1>1, <1>3, <1>4 DEF Positive
<1> QED
  BY <1>3, <1>5 DEF calc, r

LEMMA DividesIs ==
  ASSUME NEW d \in Positive, NEW v \in Positive
  PROVE  Divides(d, v) <=> \E a \in Positive : v = a * d
<1>1. ASSUME Divides(d, v)
      PROVE  \E a \in Positive : v = a * d
  <2> DEFINE a == v \div d
  <2>1. a \in Nat /\ v = d * a + (v % d)
    BY RemainderBounds DEF Positive
  <2>2. v % d = 0
    BY <1>1 DEF Divides
  <2> HIDE DEF a
  <2>3. v = a * d /\ a # 0
    BY <2>1, <2>2 DEF Positive
  <2> QED
    BY <2>1, <2>3 DEF Positive
<1>2. ASSUME NEW a \in Positive, v = a * d
      PROVE  Divides(d, v)
  BY <1>2, MultipleRemainder DEF Divides, Positive
<1> QED
  BY <1>1, <1>2

LEMMA DividesAtMost ==
  ASSUME NEW d \in Positive, NEW v \in Positive, Divides(d, v)
  PROVE  d <= v
<1>1. PICK a \in Positive : v = a * d
  BY DividesIs
<1>2. \A i, j \in Nat : i # 0 => i * j >= j
  OBVIOUS
<1> QED
  BY <1>1, <1>2 DEF Positive

LEMMA SameDivisors ==
  ASSUME NEW m \in Positive, NEW y \in Positive, NEW d \in Positive, Divides(d, y)
  PROVE  Divides(d, m) <=> Divides(d, calc(m, y))
<1>1. PICK b \in Positive : y = b * d
  BY DividesIs
<1>2. calc(m, y) \in Positive
  BY CalcParts
<1>3. ASSUME Divides(d, m)
      PROVE  Divides(d, calc(m, y))
  <2>1. PICK a \in Positive : m = a * d
    BY <1>3, DividesIs
  <2>2. calc(a * d, b * d) \in Multiples(d)
    BY ReducedMultiple DEF Positive
  <2>3. \E c \in Positive : calc(m, y) = c * d
    BY <1>1, <2>1, <2>2 DEF Multiples, Positive
  <2> QED
    BY <1>2, <2>3, DividesIs
<1>4. ASSUME Divides(d, calc(m, y))
      PROVE  Divides(d, m)
  <2>1. PICK c \in Positive : calc(m, y) = c * d
    BY <1>2, <1>4, DividesIs
  <2>2. PICK q \in Nat : m = y * q + calc(m, y)
    BY CalcParts
  <2>3. \A i, j, k, l \in Nat : (i * j) * k + l * j = (i * k + l) * j
    OBVIOUS
  <2>4. m = (b * q + c) * d
    BY <1>1, <2>1, <2>2, <2>3 DEF Positive
  <2>5. b * q + c \in Positive
    <3>1. \A i, j \in Nat : i * j \in Nat
      OBVIOUS
    <3> QED
      BY <3>1 DEF Positive
  <2> QED
    BY <2>4, <2>5, DividesIs
<1> QED
  BY <1>3, <1>4

(***************************************************************************)
(* Sets with the same common divisors have the same gcd.                   *)
(***************************************************************************)
LEMMA SameGcd ==
  ASSUME NEW A \in SUBSET Positive, NEW B \in SUBSET Positive, A # {}, B # {},
         \A d \in Positive : (\A v \in A : Divides(d, v)) <=> (\A v \in B : Divides(d, v))
  PROVE  GcdOf(A) = GcdOf(B)
<1>1. ASSUME NEW S \in SUBSET Positive, S # {}
      PROVE  {d \in 1..Min(S) : \A v \in S : v % d = 0} = {d \in Positive : \A v \in S : Divides(d, v)}
  <2>1. Min(S) \in S
    BY <1>1, MinLeast DEF Positive
  <2>2. \A d \in Positive : Divides(d, Min(S)) => d <= Min(S)
    BY <2>1, DividesAtMost
  <2>3. Min(S) \in Nat /\ \A d \in 1..Min(S) : d \in Positive
    <3>1. \A n \in Nat : \A d \in 1..n : d \in Nat \ {0}
      OBVIOUS
    <3>2. Min(S) \in Nat
      BY <2>1 DEF Positive
    <3> QED
      BY <3>1, <3>2 DEF Positive
  <2>4. \A d \in Positive : d <= Min(S) => d \in 1..Min(S)
    BY <2>3 DEF Positive
  <2> QED
    BY <2>1, <2>2, <2>3, <2>4 DEF Divides
<1> QED
  BY <1>1 DEF GcdOf

-----------------------------------------------------------------------------
(***************************************************************************)
(* The divisors that all values of the ring have stay the same.            *)
(***************************************************************************)
KeepsDivisors ==
  \A d \in Positive :
    (\A q \in Ring : Divides(d, Value(q))) <=> (\A q \in Ring : Divides(d, Value(q)'))

LEMMA ReduceCalc ==
  ASSUME Base, Base', OrderInv, OneNode, WorkInv, phase = "calc", OneValue, StaleInv, MinInv, ToldInv,
         NEW p \in Process, NEW i \in DOMAIN mailbox[p], ReceiveSendy(p, i), Reduce(p, i)
  PROVE  Ring' = Ring /\ KeepsDivisors /\ OneValue' /\ StaleInv' /\ MinInv' /\ ToldInv'
<1> DEFINE s == mailbox[p]
           t == RemoveAt(mailbox[p], 1)
           y == mailbox[p][1].nr
           m == mi[p]
<1>1. /\ p \in Ring /\ News(p) = {} /\ Value(p) = m /\ ToSend(Mis) = {}
      /\ s \in Seq(Messages) /\ t \in Seq(Messages) /\ Drops(s, t) /\ s[1] \in Ys
      /\ y \in Stale(p) /\ y \in Positive /\ m \in Positive
      /\ \A q \in Process : Taken(p, i)[q] = IF q = p THEN t ELSE mailbox[q]
  BY HearsLast
<1>2. Receives(p, i, "sendy") /\ mi[p] # 0
  BY DEF ReceiveSendy
<1>3. PICK new \in Positive :
        /\ y < m /\ new = calc(m, y)
        /\ \A q \in Process : mi'[q] = IF q = p THEN new ELSE mi[q]
        /\ calculated' = calculated \cup {p} /\ briefs' = briefs \cup {new}
        /\ sendy(p, new) \in Ys
        /\ \A q \in Process :
             /\ Grows(Taken(p, i)[q], mailbox'[q], {sendy(p, new)})
             /\ q \notin Range(neighbors[p]) => mailbox'[q] = Taken(p, i)[q]
             /\ q \in Range(neighbors[p]) /\ state[q] = "work" => Has(mailbox'[q], {sendy(p, new)})
             /\ state[q] # "work" => mailbox'[q] = Taken(p, i)[q]
  BY <1>2, ReduceEffect
<1>4. UNCHANGED <<outbox, clientList, neighbors, minMi>>
  BY DEF ReceiveSendy, coordVars
<1>5. Ring' = Ring /\ Ring \subseteq Process
  BY <1>4, BaseFacts DEF Ring
<1>6. s[1] \in UpTo(y) /\ \A v \in Nat : s[1] \in UpTo(v) <=> y <= v
  BY <1>1 DEF UpTo, Positive
<1>7. sendy(p, new).nr = new
  BY DEF sendy, Message
<1> HIDE DEF s, t, y, m
<1>8. ASSUME NEW q \in Process
      PROVE  /\ q # p => Grows(mailbox[q], mailbox'[q], {sendy(p, new)})
             /\ q = p => Grows(t, mailbox'[q], {sendy(p, new)})
             /\ mailbox[q] \in Seq(Messages) /\ mailbox'[q] \in Seq(Messages)
  BY <1>1, <1>3, BaseFacts, BaseFactsNext
<1>9. Mis \cap {sendy(p, new)} = {}
  BY <1>3, Kinds
<1>10. ASSUME NEW q \in Process, q # p
       PROVE  /\ \A M : Has(mailbox[q], M) => Has(mailbox'[q], M)
              /\ \A M : Has(mailbox'[q], M) => Has(mailbox[q], M) \/ sendy(p, new) \in M
              /\ NoneBefore(mailbox[q], Ys, Mis) => NoneBefore(mailbox'[q], Ys, Mis)
  BY <1>8, <1>9, <1>10, GrowsOrder
<1>11. /\ \A M : Has(s, M) => Has(mailbox'[p], M) \/ s[1] \in M
       /\ \A M : Has(mailbox'[p], M) => Has(s, M) \/ sendy(p, new) \in M
       /\ NoneBefore(s, Ys, Mis) => NoneBefore(mailbox'[p], Ys, Mis)
  <2>1. Grows(t, mailbox'[p], {sendy(p, new)}) /\ mailbox'[p] \in Seq(Messages)
    BY <1>8
  <2>2. /\ \A M : Has(t, M) => Has(mailbox'[p], M)
        /\ \A M : Has(mailbox'[p], M) => Has(t, M) \/ M \cap {sendy(p, new)} # {}
        /\ NoneBefore(t, Ys, Mis) => NoneBefore(mailbox'[p], Ys, Mis)
    BY <1>1, <1>9, <2>1, GrowsOrder
  <2>3. /\ \A M : Has(t, M) => Has(s, M)
        /\ \A M : Has(s, M) /\ s[1] \notin M => Has(t, M)
        /\ NoneBefore(s, Ys, Mis) => NoneBefore(t, Ys, Mis)
    BY <1>1, DropsOrder
  <2> QED
    BY <2>2, <2>3
<1>12. ASSUME NEW q \in Process
       PROVE  /\ \A M \in SUBSET Mis : Has(mailbox'[q], M) <=> Has(mailbox[q], M)
              /\ \A M \in SUBSET Ys : Has(mailbox'[q], M) => Has(mailbox[q], M) \/ sendy(p, new) \in M
              /\ NoneBefore(mailbox[q], Ys, Mis) => NoneBefore(mailbox'[q], Ys, Mis)
  <2>1. s[1] \notin Mis /\ sendy(p, new) \notin Mis
    BY <1>1, <1>3, Kinds
  <2> QED
    BY <1>10, <1>11, <2>1 DEF s
<1>13. ASSUME NEW q \in Ring
       PROVE  News(q)' = News(q) /\ Stale(q)' \subseteq Stale(q) \cup {new}
  <2>1. q \in Process
    BY <1>5
  <2>2. \A M \in SUBSET Mis : Coming(q, M)' <=> Coming(q, M)
    BY <1>4, <1>12, <2>1, SameOutbox DEF Coming
  <2>3. News(q)' = News(q)
    BY <2>1, <2>2, NewsFrom
  <2>4. ASSUME NEW v \in Stale(q)', v # new
        PROVE  v \in Stale(q)
    <3>1. Coming(q, Worth(Ys, v))'
      BY <2>1, <2>4, NewsIsNext
    <3>2. \A w : Worth(Ys, w)' = Worth(Ys, w)
      BY WorthNext
    <3>3. Has(mailbox'[q], Worth(Ys, v)) \/ {k \in DOMAIN outbox' : outbox'[k].to = q /\ outbox'[k].message \in Worth(Ys, v)} # {}
      BY <3>1, <3>2 DEF Coming, ToTell, ToSend, Has
    <3>4. sendy(p, new) \notin Worth(Ys, v) /\ Worth(Ys, v) \in SUBSET Ys
      BY <1>7, <2>4 DEF Worth
    <3>5. Has(mailbox[q], Worth(Ys, v)) \/ {k \in DOMAIN outbox : outbox[k].to = q /\ outbox[k].message \in Worth(Ys, v)} # {}
      BY <1>4, <1>12, <2>1, <3>3, <3>4
    <3>6. Coming(q, Worth(Ys, v))
      BY <3>5 DEF Coming, ToTell, ToSend
    <3> QED
      BY <2>1, <3>6, NewsIs
  <2> QED
    BY <2>3, <2>4
<1>14. \A q \in Ring : q # p => Value(q)' = Value(q)
  <2> SUFFICES ASSUME NEW q \in Ring, q # p
               PROVE  Value(q)' = Value(q)
    OBVIOUS
  <2>1. News(q)' = News(q) /\ mi'[q] = mi[q]
    BY <1>3, <1>5, <1>13
  <2> QED
    BY <2>1, SameValue
<1>15. Value(p)' = new
  <2>1. News(p)' = {}
    BY <1>1, <1>13
  <2>2. mi'[p] = new
    BY <1>3
  <2> QED
    BY <2>1, <2>2, ValueIsNext
<1>16. \A q \in Ring : Value(q) \in Positive
  BY ValueTyped
<1>17. new \in Positive /\ new <= y /\ y < m /\ new < m
  <2>1. new <= y
    BY <1>1, <1>3, CalcParts
  <2> QED
    BY <1>1, <1>3, <2>1 DEF Positive
<1>18. ASSUME NEW d \in Positive, \A q \in Ring : Value(q) <= y => Divides(d, Value(q))
       PROVE  Divides(d, m) <=> Divides(d, new)
  <2>1. Divides(d, y)
    BY <1>1, <1>18 DEF StaleInv
  <2> QED
    BY <1>1, <1>3, <2>1, SameDivisors
<1>19. ~ (m <= y)
  BY <1>1, <1>17 DEF Positive
<1>20. KeepsDivisors
  <2> SUFFICES ASSUME NEW d \in Positive
               PROVE  (\A q \in Ring : Divides(d, Value(q))) <=> (\A q \in Ring : Divides(d, Value(q)'))
    BY DEF KeepsDivisors
  <2>1. (\A q \in Ring : q # p => Divides(d, Value(q))) => (Divides(d, m) <=> Divides(d, new))
    BY <1>1, <1>18, <1>19
  <2> QED
    BY <1>1, <1>14, <1>15, <2>1
<1>21. StaleInv'
  <2>1. Positive' = Positive /\ \A d, v : Divides(d, v)' = Divides(d, v)
    BY DEF Positive, Divides
  <2> SUFFICES ASSUME NEW q \in Ring', NEW z \in Stale(q)', NEW d \in Positive,
                      \A r \in Ring' : Value(r)' <= z => Divides(d, Value(r)')
               PROVE  Divides(d, z)
    BY <2>1 DEF StaleInv, Divides
  <2>2. CASE z = new
    BY <1>1, <1>5, <1>15, <1>17, <2>2 DEF Positive
  <2>3. CASE z # new
    <3>1. z \in Stale(q) /\ q \in Ring /\ z \in Positive
      BY <1>5, <1>13, <2>3, NewsIs
    <3>2. \A r \in Ring : r # p /\ Value(r) <= z => Divides(d, Value(r))
      BY <1>5, <1>14
    <3>3. ASSUME m <= z
          PROVE  Divides(d, m)
      <4>1. new <= z /\ \A v \in Positive : v <= y => v <= z
        BY <1>1, <1>17, <3>1, <3>3 DEF Positive
      <4>2. Divides(d, new)
        BY <1>1, <1>5, <1>15, <4>1
      <4>3. \A r \in Ring : Value(r) <= y => Divides(d, Value(r))
        BY <1>1, <1>16, <1>19, <3>2, <4>1
      <4> QED
        BY <1>18, <4>2, <4>3
    <3>4. \A r \in Ring : Value(r) <= z => Divides(d, Value(r))
      BY <1>1, <3>2, <3>3
    <3> QED
      BY <3>1, <3>4 DEF StaleInv
  <2> QED
    BY <2>2, <2>3
<1>22. MinInv'
  <2>1. minMi' # 0
    BY <1>4 DEF MinInv
  <2>2. briefs \cup {minMi} \subseteq Nat
    BY DEF Base, ValuesIn, HelloOK, CoordinatorOK, Positive
  <2>3. ASSUME NEW b \in briefs \cup {minMi}
        PROVE  \E q \in Ring : Value(q)' <= b
    <3>1. PICK q \in Ring : Value(q) <= b
      BY <2>3 DEF MinInv
    <3>2. CASE q = p
      <4>1. m <= b /\ b \in Nat
        BY <1>1, <2>2, <3>1, <3>2
      <4>2. new <= b
        BY <1>1, <1>17, <4>1 DEF Positive
      <4> QED
        BY <1>15, <3>2, <4>2
    <3>3. CASE q # p
      BY <1>14, <3>1, <3>3
    <3> QED
      BY <3>2, <3>3
  <2>4. ASSUME NEW b \in briefs' \cup {minMi'}
        PROVE  \E q \in Ring' : Value(q)' <= b
    <3>1. CASE b = new
      BY <1>1, <1>5, <1>15, <1>17, <3>1 DEF Positive
    <3>2. CASE b # new
      BY <1>3, <1>4, <1>5, <2>3, <3>2
    <3> QED
      BY <3>1, <3>2
  <2>5. ASSUME NEW q \in Ring'
        PROVE  \E b \in briefs' \cup {minMi'} : b <= Value(q)'
    <3>1. CASE q = p
      BY <1>3, <1>15, <1>17, <3>1 DEF Positive
    <3>2. CASE q # p
      BY <1>3, <1>4, <1>5, <1>14, <3>2 DEF MinInv
    <3> QED
      BY <3>1, <3>2
  <2> QED
    BY <2>1, <2>4, <2>5 DEF MinInv
<1>23. ToldInv'
  <2> SUFFICES ASSUME NEW r \in Ring', r \in calculated', News(r)' = {}, NEW q \in Range(neighbors'[r])
               PROVE  Value(q)' <= mi'[r] \/ Has(mailbox'[q], UpTo(mi'[r]))
    BY WorthNext DEF ToldInv
  <2>1. r \in Ring /\ q \in Range(neighbors[r])
    BY <1>4, <1>5
  <2>2. r \in Process /\ q \in Process /\ q \in Ring
    BY <2>1, NeighborsInRing
  <2>3. CASE r = p
    <3>1. Has(mailbox'[q], {sendy(p, new)})
      BY <1>3, <2>1, <2>2, <2>3 DEF WorkInv, Alive
    <3>2. sendy(p, new) \in UpTo(new)
      BY <1>3, <1>7 DEF UpTo, Positive
    <3>3. mi'[r] = new
      BY <1>3, <2>2, <2>3
    <3> QED
      BY <3>1, <3>2, <3>3 DEF Has
  <2>4. CASE r # p
    <3>1. r \in calculated /\ News(r) = {} /\ mi'[r] = mi[r] /\ mi[r] \in Nat
      BY <1>3, <1>13, <2>1, <2>2, <2>4, BaseFacts
    <3>2. Value(q) <= mi[r] \/ Has(mailbox[q], UpTo(mi[r]))
      BY <2>1, <3>1 DEF ToldInv
    <3>3. CASE q # p
      BY <1>10, <1>14, <2>2, <3>1, <3>2, <3>3
    <3>4. CASE q = p
      <4>1. m <= mi[r] \/ Has(mailbox'[p], UpTo(mi[r])) \/ s[1] \in UpTo(mi[r])
        BY <1>1, <1>11, <3>2, <3>4 DEF s
      <4>2. m <= mi[r] \/ y <= mi[r] => new <= mi[r]
        BY <1>1, <1>17, <3>1 DEF Positive
      <4> QED
        BY <1>6, <1>15, <3>1, <3>4, <4>1, <4>2
    <3> QED
      BY <3>3, <3>4
  <2> QED
    BY <2>3, <2>4
<1>24. OneValue'
  <2>1. \A q \in Ring' : \A u, v \in News(q)' : u = v
    BY <1>5, <1>13 DEF OneValue
  <2>2. \A q \in Ring' : Value(q)' # 0
    BY <1>5, <1>14, <1>15, <1>16 DEF Positive
  <2>3. \A q \in Ring' : NoneBefore(mailbox[q], Ys, Mis)'
    <3>1. \A q \in Ring : NoneBefore(mailbox'[q], Ys, Mis)
      BY <1>5, <1>12 DEF OneValue
    <3> QED
      BY <1>5, <3>1, WorthNext DEF NoneBefore
  <2>4. ToSend(Mis)' = {}
    BY <1>1, <1>4, WorthNext DEF ToSend
  <2>5. \A q \in Process \ Ring' : ~ Has(mailbox[q], Ys)'
    <3>1. ASSUME NEW q \in Process \ Ring
          PROVE  ~ Has(mailbox'[q], Ys)
      <4>1. q \notin Range(neighbors[p]) /\ q # p
        BY <1>1, <3>1, NeighborsInRing
      <4>2. mailbox'[q] = mailbox[q]
        BY <1>1, <1>3, <4>1
      <4> QED
        BY <4>2 DEF OneValue
    <3> QED
      BY <1>5, <3>1, WorthNext DEF Has
  <2> QED
    BY <2>1, <2>2, <2>3, <2>4, <2>5 DEF OneValue
<1> QED
  BY <1>5, <1>20, <1>21, <1>22, <1>23, <1>24

(***************************************************************************)
(* The operator starts a calculation when no value is on its way.          *)
(***************************************************************************)
AtRest == briefs = {} /\ \A p \in Process : ComingValues(p, {"setpm", "sendy"}) = {}

LEMMA CalcFromRest ==
  ASSUME Base, Base', AtRest, NEW w \in Wish, Calc(w)
  PROVE  /\ OneValue' /\ StaleInv' /\ MinInv' /\ ToldInv'
         /\ \A p \in Ring' : Divides(wish', Value(p)')
<1>1. /\ UNCHANGED <<clientList, briefs, mailbox>> /\ Ring' = Ring /\ Ring \subseteq Process
      /\ IsInjective(clientList) /\ clientList \in Seq(Process)
  BY BaseFacts DEF Calc, Ring, Base, ValuesIn, CoordinatorOK
<1>2. PICK n, k, f : Begins(n, k, f)
  BY CalcBegins
<1>3. /\ n \in Nat /\ n >= 2 /\ k \in 1..n /\ n = Len(clientList) /\ f \in [1..n -> Positive]
      /\ minMi' = Min({f[i] : i \in 1..n}) /\ DOMAIN outbox' = 1..n + k
      /\ \A i \in 1..n : outbox'[i].to = clientList[i] /\ outbox'[i].message = setpm(f[i])
      /\ \A j \in n + 1..n + k :
           outbox'[j].to \in Ring /\ j - n \in 1..n /\ outbox'[j].message = sendy(Coordinator, f[j - n])
  BY <1>2 DEF Begins
<1>4. ASSUME NEW q \in Process
      PROVE  ~ Has(mailbox[q], Mis) /\ ~ Has(mailbox[q], Ys)
  <2>1. \A i \in DOMAIN mailbox[q] :
          mailbox[q][i].type \in {"setpm", "sendy"} => mailbox[q][i].nr \in ComingValues(q, {"setpm", "sendy"})
    BY DEF ComingValues
  <2>2. \A i \in DOMAIN mailbox[q] : mailbox[q][i].type \notin {"setpm", "sendy"}
    BY <2>1 DEF AtRest
  <2> QED
    BY <2>2 DEF Has, Mis, Ys
<1>5. \A i \in 1..n : f[i] \in Positive /\ f[i] \in Nat /\ setpm(f[i]).nr = f[i]
                      /\ setpm(f[i]) \in Mis /\ sendy(Coordinator, f[i]) \in Ys /\ sendy(Coordinator, f[i]).nr = f[i]
  <2>1. \A i \in 1..n : f[i] \in Positive /\ f[i] \in Nat
    BY <1>3 DEF Positive
  <2> QED
    BY <2>1, ValueMessages
<1>6. ASSUME NEW j \in DOMAIN outbox'
      PROVE  \/ j \in 1..n /\ outbox'[j].message \in Mis /\ outbox'[j].message.nr = f[j]
             \/ j - n \in 1..n /\ outbox'[j].message \in Ys /\ outbox'[j].message.nr = f[j - n]
  <2>1. j \in 1..n \/ j \in n + 1..n + k
    BY <1>3
  <2> QED
    BY <1>3, <1>5, <2>1
<1>7. 1..n \subseteq DOMAIN outbox'
  BY <1>3
<1>8. DOMAIN clientList = 1..n /\ Ring = {clientList[i] : i \in 1..n}
  BY <1>1, <1>3 DEF Ring
<1>9. ASSUME NEW i \in 1..n
      PROVE  News(clientList[i])' = {f[i]} /\ Value(clientList[i])' = f[i] /\ clientList[i] \in Ring
  <2>1. clientList[i] \in Process /\ clientList[i] \in Ring
    BY <1>1, <1>8
  <2> DEFINE q == clientList[i]
  <2>2. q \in Process /\ q' = q
    BY <1>1, <2>1
  <2>3. \A j \in 1..n : clientList[j] = clientList[i] => j = i
    BY <1>1, <1>8 DEF IsInjective
  <2>4. ASSUME NEW u \in Process, u = clientList[i]
        PROVE  News(u)' = {f[i]}
    <3>1. \A v : v \in News(u)' <=> Coming(u, Worth(Mis, v))'
      BY NewsIsNext
    <3>2. \A v : Worth(Mis, v)' = Worth(Mis, v)
      BY WorthNext
    <3>3. \A v : v \in News(u)' <=>
            \/ Has(mailbox'[u], Worth(Mis, v))
            \/ \E j \in DOMAIN outbox' : outbox'[j].to = u /\ outbox'[j].message \in Worth(Mis, v)
      BY <3>1, <3>2 DEF Coming, ToTell, ToSend, Has
    <3>4. \A v : ~ Has(mailbox'[u], Worth(Mis, v))
      BY <1>1, <1>4 DEF Has, Worth
    <3>5. \A v : v \in News(u)' <=> \E j \in 1..n : outbox'[j].to = u /\ f[j] = v
      <4>1. \A j \in 1..n : outbox'[j].message \in Mis /\ outbox'[j].message.nr = f[j]
        BY <1>3, <1>5
      <4>2. \A j \in DOMAIN outbox' : outbox'[j].message \in Mis =>
              j \in 1..n /\ outbox'[j].message.nr = f[j]
        BY <1>6, <4>1, Kinds
      <4>3. \A v, x : x \in Worth(Mis, v) <=> x \in Mis /\ x.nr = v
        BY DEF Worth
      <4> QED
        BY <1>7, <3>3, <3>4, <4>1, <4>2, <4>3
    <3> QED
      BY <1>3, <2>3, <2>4, <3>5
  <2>5. News(q)' = {f[i]}
    BY <1>1, <2>1, <2>4
  <2>6. ASSUME NEW u \in Process, u = clientList[i]
        PROVE  Value(u)' = f[i]
    <3>1. News(u)' = {f[i]}
      BY <2>4, <2>6
    <3> QED
      BY <3>1, ValueIsNext
  <2> QED
    BY <1>1, <2>1, <2>4, <2>6
<1>10. \A p \in Ring' : \E i \in 1..n : News(p)' = {f[i]} /\ Value(p)' = f[i]
  BY <1>1, <1>8, <1>9
<1>11. \A i \in 1..n : \E p \in Ring' : Value(p)' = f[i]
  BY <1>1, <1>9
<1>12. ToSend(Mis)' # {} => \A p \in Process : ~ Has(mailbox[p], Ys)'
  BY <1>1, <1>4, WorthNext DEF Has
<1>13. OneValue'
  <2>1. \A p \in Process : ~ Has(mailbox[p], Ys)'
    BY <1>1, <1>4, WorthNext DEF Has
  <2>2. \A p \in Ring' : NoneBefore(mailbox[p], Ys, Mis)'
    BY <1>1, <1>4, WorthNext DEF Has, NoneBefore
  <2>3. \A p \in Ring' : \A u, v \in News(p)' : u = v
    BY <1>10
  <2>4. \A p \in Ring' : Value(p)' # 0
    BY <1>5, <1>10 DEF Positive
  <2>5. Ring' \subseteq Process
    BY <1>1
  <2> QED
    BY <2>1, <2>2, <2>3, <2>4, <2>5 DEF OneValue
<1>14. StaleInv'
  <2>1. Positive' = Positive /\ \A d, v : Divides(d, v)' = Divides(d, v)
    BY DEF Positive, Divides
  <2> SUFFICES ASSUME NEW p \in Ring', NEW y \in Stale(p)', NEW d \in Positive,
                      \A q \in Ring' : Value(q)' <= y => Divides(d, Value(q)')
               PROVE  Divides(d, y)
    BY <2>1 DEF StaleInv, Divides
  <2>2. p \in Process /\ Coming(p, Worth(Ys, y))'
    <3>1. p \in Process
      BY <1>1
    <3> QED
      BY <3>1, NewsIsNext
  <2>3. Worth(Ys, y)' = Worth(Ys, y)
    BY WorthNext
  <2>4. Has(mailbox'[p], Worth(Ys, y)) \/ \E j \in DOMAIN outbox' : outbox'[j].message \in Worth(Ys, y)
    BY <2>2, <2>3 DEF Coming, ToTell, ToSend, Has
  <2>5. ~ Has(mailbox'[p], Worth(Ys, y))
    BY <1>1, <1>4, <2>2 DEF Has, Worth
  <2>6. PICK i \in 1..n : y = f[i]
    BY <1>6, <2>4, <2>5, Kinds DEF Worth
  <2>7. PICK q \in Ring' : Value(q)' = f[i]
    BY <1>11
  <2>8. Value(q)' <= y
    BY <1>5, <2>6, <2>7
  <2> QED
    BY <2>6, <2>7, <2>8
<1>15. MinInv'
  <2> DEFINE S == {f[i] : i \in 1..n}
  <2>1. S \in SUBSET Nat /\ S # {} /\ \A v \in S : v # 0
    BY <1>3, <1>5 DEF Positive
  <2>2. minMi' \in S /\ \A v \in S : minMi' <= v
    BY <1>3, <2>1, MinLeast
  <2>3. briefs' \cup {minMi'} = {minMi'}
    BY <1>1 DEF AtRest
  <2>4. \E p \in Ring' : Value(p)' = minMi'
    BY <1>11, <2>2
  <2>5. \A p \in Ring' : Value(p)' \in S
    BY <1>10
  <2>6. minMi' <= minMi'
    BY <2>1, <2>2
  <2> HIDE DEF S
  <2> QED
    BY <2>1, <2>2, <2>3, <2>4, <2>5, <2>6 DEF MinInv
<1>16. ToldInv'
  BY <1>10 DEF ToldInv
<1>17. \A p \in Ring' : Divides(wish', Value(p)')
  <2>1. \A i \in 1..n : f[i] % wish' = 0
    BY <1>2 DEF Begins
  <2> QED
    BY <1>10, <2>1 DEF Divides
<1> QED
  BY <1>13, <1>14, <1>15, <1>16, <1>17

-----------------------------------------------------------------------------
(***************************************************************************)
(* All steps of a calculation.                                             *)
(***************************************************************************)
LEMMA KeepsMin ==
  ASSUME Base, OneValue, MinInv, Ring' = Ring, \A p \in Ring : Value(p)' = Value(p),
         UNCHANGED <<minMi, briefs>> \/ (phase = "calc" /\ \E v \in briefs : BriefMi(v))
  PROVE  MinInv'
<1>1. briefs \subseteq Nat /\ minMi \in Nat
  BY DEF Base, ValuesIn, HelloOK, CoordinatorOK, Positive
<1>2. /\ minMi' # 0 /\ briefs' \cup {minMi'} \subseteq briefs \cup {minMi}
      /\ \A b \in briefs \cup {minMi} : \E c \in briefs' \cup {minMi'} : c <= b
  <2>1. CASE UNCHANGED <<minMi, briefs>>
    BY <1>1, <2>1 DEF MinInv
  <2>2. CASE phase = "calc" /\ \E v \in briefs : BriefMi(v)
    <3>1. PICK v \in briefs : BriefMi(v)
      BY <2>2
    <3>2. v \in Nat /\ v # 0 /\ minMi # 0
      BY <3>1 DEF Base, ValuesIn, HelloOK, Positive, MinInv
    <3>3. briefs' = briefs \ {v} /\ minMi' = IF minMi > v THEN v ELSE minMi
      BY <2>2, <3>1, <3>2 DEF BriefMi
    <3>4. minMi' \in {v, minMi} /\ minMi' <= v /\ minMi' <= minMi
      BY <1>1, <3>2, <3>3
    <3>5. ASSUME NEW b \in briefs \cup {minMi}
          PROVE  \E c \in briefs' \cup {minMi'} : c <= b
      <4>1. CASE b \in {v, minMi}
        BY <3>4, <4>1
      <4>2. CASE b \notin {v, minMi}
        BY <1>1, <3>3, <4>2
      <4> QED
        BY <4>1, <4>2
    <3> QED
      BY <3>1, <3>2, <3>3, <3>4, <3>5
  <2> QED
    BY <2>1, <2>2
<1>3. \A b \in briefs' \cup {minMi'} : \E p \in Ring' : Value(p)' <= b
  BY <1>2 DEF MinInv
<1>4. ASSUME NEW p \in Ring'
      PROVE  \E b \in briefs' \cup {minMi'} : b <= Value(p)'
  <2>1. PICK b \in briefs \cup {minMi} : b <= Value(p)
    BY <1>4 DEF MinInv
  <2>2. PICK c \in briefs' \cup {minMi'} : c <= b
    BY <1>2, <2>1
  <2>3. Value(p) \in Nat /\ b \in Nat /\ c \in Nat
    BY <1>1, <1>2, <1>4, ValueTyped DEF Positive
  <2> QED
    BY <1>4, <2>1, <2>2, <2>3
<1> QED
  BY <1>2, <1>3, <1>4 DEF MinInv

LEMMA CalcOnlyCounts ==
  ASSUME Base, [Next]_vars
  PROVE  calcs' # calcs <=> \E w \in Wish : Calc(w)
<1>1. \A w : Calc(w) => calcs' # calcs
  BY DEF Calc, Base, ValuesIn, CoordinatorOK
<1>2. CASE SendNext \/ (\E p \in Process : Hello(p)) \/ (\E v \in briefs : BriefMi(v))
  BY <1>1, <1>2 DEF SendNext, Hello, BriefMi
<1>3. CASE StartAgain \/ Step \/ Toggle \/ Reset \/ Kill
  BY <1>1, <1>3 DEF StartAgain, Step, Toggle, Reset, Kill
<1>4. CASE \E h \in DOMAIN votes : Multicast(h)
  BY <1>1, <1>4 DEF Multicast, coordVars
<1>5. CASE \E p \in Process : StartProcess(p) \/ ProcessStep(p) \/ TimerFires(p)
  <2>1. UNCHANGED <<phase, wish, calcs>>
    BY <1>5 DEF StartProcess, TimerFires, ProcessStep, ReceiveSetneighbors, ReceiveSetpm, ReceiveSendy,
                SendyTooEarly, ReceiveKill, End, ReceiveTimeout, ReceiveVote, coordVars
  <2> QED
    BY <1>1, <2>1
<1>6. CASE UNCHANGED vars
  BY <1>1, <1>6 DEF vars, coordVars
<1>7. CASE \E w \in Wish : Calc(w)
  BY <1>1, <1>7
<1> QED
  BY <1>2, <1>3, <1>4, <1>5, <1>6, <1>7 DEF Next, CoordinatorStep, OperatorCommand

LEMMA CalcOnly ==
  ASSUME Base, WorkInv, [Next]_vars, calcs' = calcs
  PROVE  /\ phase' = "calc" /\ wish' # 0 => phase = "calc" /\ wish' = wish
         /\ phase' = "calc" /\ wish # 0 => phase = "calc" /\ wish' = wish
<1>1. ~ \E w \in Wish : Calc(w)
  BY CalcOnlyCounts
<1>2. CASE SendNext \/ (\E p \in Process : Hello(p)) \/ (\E v \in briefs : BriefMi(v))
  BY <1>2 DEF SendNext, Hello, BriefMi
<1>3. CASE StartAgain \/ Step \/ Toggle \/ Reset \/ Kill
  BY <1>3 DEF StartAgain, Step, Toggle, Reset, Kill, Receiving, WorkInv
<1>4. CASE \E h \in DOMAIN votes : Multicast(h)
  BY <1>4 DEF Multicast, coordVars
<1>5. CASE \E p \in Process : StartProcess(p) \/ ProcessStep(p) \/ TimerFires(p)
  <2>1. UNCHANGED <<phase, wish>>
    BY <1>5 DEF StartProcess, TimerFires, ProcessStep, ReceiveSetneighbors, ReceiveSetpm, ReceiveSendy,
                SendyTooEarly, ReceiveKill, End, ReceiveTimeout, ReceiveVote, coordVars
  <2> QED
    BY <2>1
<1>6. CASE UNCHANGED vars
  BY <1>6 DEF vars, coordVars
<1> QED
  BY <1>1, <1>2, <1>3, <1>4, <1>5, <1>6 DEF Next, CoordinatorStep, OperatorCommand

LEMMA Stutters ==
  ASSUME Base, Base', OneValue, UNCHANGED vars
  PROVE  Keeps /\ OneValue'
<1>1. UNCHANGED <<outbox, clientList, calculated, mi>> /\ mailbox' = mailbox /\ neighbors' = neighbors
  BY DEF vars, coordVars, procVars
<1> QED
  BY <1>1, SameValues

(***************************************************************************)
(* A step other than a reduction changes no value.                         *)
(***************************************************************************)
LEMMA OtherSteps ==
  ASSUME Ordered, Base', OneNode, WorkInv, OneValue, phase = "calc", phase' = "calc",
         [Next]_vars, calcs' = calcs,
         ~ \E p \in Process : \E i \in DOMAIN mailbox[p] : ReceiveSendy(p, i) /\ Reduce(p, i)
  PROVE  /\ Keeps /\ OneValue'
         /\ UNCHANGED <<minMi, briefs>> \/ \E v \in briefs : BriefMi(v)
<1>1. Base /\ OrderInv /\ NobodyCrashed
  BY DEF Ordered
<1>2. ~ \E w \in Wish : Calc(w)
  BY <1>1, CalcOnlyCounts
<1>3. CASE SendNext
  BY <1>1, <1>3, SendKeeps DEF SendNext
<1>4. CASE \/ \E p \in Process : StartProcess(p) \/ TimerFires(p)
           \/ \E h \in DOMAIN votes : Multicast(h)
           \/ \E p \in Process : \E i \in DOMAIN mailbox[p] : ReceiveTimeout(p, i) \/ ReceiveVote(p, i)
           \/ \E v \in briefs : BriefMi(v)
           \/ \E p \in Process : Hello(p)
  <2>1. Keeps /\ OneValue'
    BY <1>1, <1>4, QuietKeeps
  <2>2. UNCHANGED <<minMi, briefs>> \/ \E v \in briefs : BriefMi(v)
    BY <1>4 DEF StartProcess, TimerFires, Multicast, ReceiveTimeout, ReceiveVote, Hello, coordVars
  <2> QED
    BY <2>1, <2>2
<1>5. CASE \E p \in Process : \E i \in DOMAIN mailbox[p] :
             \/ ReceiveSetneighbors(p, i) \/ ReceiveSetpm(p, i) \/ ReceiveSendy(p, i)
             \/ SendyTooEarly(p, i) \/ ReceiveKill(p, i)
  <2>1. PICK p \in Process : \E i \in DOMAIN mailbox[p] :
             \/ ReceiveSetneighbors(p, i) \/ ReceiveSetpm(p, i) \/ ReceiveSendy(p, i)
             \/ SendyTooEarly(p, i) \/ ReceiveKill(p, i)
    BY <1>5
  <2>2. PICK i \in DOMAIN mailbox[p] :
             \/ ReceiveSetneighbors(p, i) \/ ReceiveSetpm(p, i) \/ ReceiveSendy(p, i)
             \/ SendyTooEarly(p, i) \/ ReceiveKill(p, i)
    BY <2>1
  <2>3. CASE ReceiveSetneighbors(p, i)
    BY <1>1, <2>3, NeighborsKeep DEF ReceiveSetneighbors, coordVars
  <2>4. CASE ReceiveSetpm(p, i)
    BY <1>1, <2>4, SetpmKeeps DEF ReceiveSetpm, coordVars
  <2>5. CASE ReceiveSendy(p, i)
    <3>1. ~ Reduce(p, i)
      BY <2>5
    <3> QED
      BY <1>1, <2>5, <3>1, LargerKeeps DEF ReceiveSendy, coordVars
  <2>6. CASE ReceiveKill(p, i)
    BY <1>1, <2>6, KillKeeps DEF ReceiveKill, End, coordVars
  <2>7. ~ SendyTooEarly(p, i)
    BY <1>1, NeverTooEarly
  <2> QED
    BY <2>2, <2>3, <2>4, <2>5, <2>6, <2>7
<1>6. CASE UNCHANGED vars
  BY <1>1, <1>6, Stutters DEF vars, coordVars
<1>7. ~ (StartAgain \/ Step \/ Toggle \/ Reset \/ Kill)
  BY DEF StartAgain, Step, Toggle, Reset, Kill, Receiving
<1> QED
  BY <1>2, <1>3, <1>4, <1>5, <1>6, <1>7 DEF Next, CoordinatorStep, OperatorCommand, ProcessStep

LEMMA CalcStep ==
  ASSUME Ordered, Base', OneNode, WorkInv, OneValue, StaleInv, MinInv, ToldInv,
         phase = "calc", phase' = "calc", [Next]_vars, calcs' = calcs
  PROVE  Ring' = Ring /\ KeepsDivisors /\ OneValue' /\ StaleInv' /\ MinInv' /\ ToldInv'
<1>1. Base /\ OrderInv
  BY DEF Ordered
<1>2. CASE \E p \in Process : \E i \in DOMAIN mailbox[p] : ReceiveSendy(p, i) /\ Reduce(p, i)
  BY <1>1, <1>2, ReduceCalc
<1>3. CASE ~ \E p \in Process : \E i \in DOMAIN mailbox[p] : ReceiveSendy(p, i) /\ Reduce(p, i)
  <2>1. /\ Keeps /\ OneValue'
        /\ UNCHANGED <<minMi, briefs>> \/ \E v \in briefs : BriefMi(v)
    BY <1>3, OtherSteps
  <2>2. Ring' = Ring /\ \A p \in Ring : Value(p)' = Value(p)
    BY <2>1 DEF Keeps
  <2>3. StaleInv' /\ ToldInv'
    BY <1>1, <2>1, KeepsInv
  <2>4. MinInv'
    BY <1>1, <2>1, <2>2, KeepsMin
  <2>5. KeepsDivisors
    BY <2>2 DEF KeepsDivisors
  <2> QED
    BY <2>1, <2>2, <2>3, <2>4, <2>5
<1> QED
  BY <1>2, <1>3

LEMMA CalcNext ==
  ASSUME Ordered, OneNode, WorkInv, CalcInv, [Next]_vars, calcs' # calcs => AtRest
  PROVE  CalcInv'
<1> SUFFICES ASSUME phase' = "calc", wish' # 0
             PROVE  OneValue' /\ StaleInv' /\ MinInv' /\ ToldInv' /\ WishInv'
  BY DEF CalcInv, Calculating
<1>1. Base /\ Base'
  BY ClosedPositive, ValuesNext DEF Ordered, Base, Positive
<1>2. CASE calcs' # calcs
  <2>1. PICK w \in Wish : Calc(w)
    BY <1>1, <1>2, CalcOnlyCounts
  <2>2. /\ OneValue' /\ StaleInv' /\ MinInv' /\ ToldInv'
        /\ \A p \in Ring' : Divides(wish', Value(p)')
    BY <1>1, <1>2, <2>1, CalcFromRest
  <2> QED
    BY <2>2 DEF WishInv, Divides
<1>3. CASE calcs' = calcs
  <2>1. phase = "calc" /\ wish # 0 /\ wish' = wish
    BY <1>1, <1>3, CalcOnly
  <2>2. Ring' = Ring /\ KeepsDivisors /\ OneValue' /\ StaleInv' /\ MinInv' /\ ToldInv'
    BY <1>1, <1>3, <2>1, CalcStep DEF CalcInv, Calculating
  <2>3. wish \in Positive
    BY <1>1, <2>1, GGTAssumption DEF Base, ValuesIn, CoordinatorOK, Positive
  <2>4. \A p \in Ring : Divides(wish, Value(p)')
    BY <2>1, <2>2, <2>3 DEF CalcInv, Calculating, WishInv, KeepsDivisors
  <2> QED
    BY <2>1, <2>2, <2>4 DEF WishInv, Divides
<1> QED
  BY <1>2, <1>3

(***************************************************************************)
(* What a calculation that has come to rest ends with.                     *)
(***************************************************************************)
LEMMA AtTheEnd ==
  ASSUME Ordered, CalcInv, Quiet
  PROVE  NoGreaterNeighbor /\ MinMiIsMinimum /\ EndsAtMultiples
<1>1. Base /\ OrderInv
  BY DEF Ordered
<1>2. OneValue /\ MinInv /\ ToldInv /\ WishInv /\ briefs = {}
  BY DEF CalcInv, Calculating, Quiet
<1>3. ASSUME NEW p \in Ring
      PROVE  News(p) = {} /\ Stale(p) = {} /\ Value(p) = mi[p] /\ p \in Process /\ mi[p] \in Nat
  <2>1. News(p) \cup Stale(p) \subseteq ComingValues(p, {"setpm", "sendy"})
    BY DEF News, Stale, ComingValues
  <2>2. News(p) = {} /\ Stale(p) = {}
    BY <2>1 DEF Quiet
  <2> QED
    BY <1>1, <2>2, ValueIs, BaseFacts
<1>4. NoGreaterNeighbor
  <2> SUFFICES ASSUME NEW p \in Ring, p \in calculated, NEW s \in DOMAIN neighbors[p]
               PROVE  mi[neighbors[p][s]] <= mi[p]
    BY DEF NoGreaterNeighbor
  <2> DEFINE q == neighbors[p][s]
  <2>1. q \in Range(neighbors[p])
    BY DEF Range
  <2>2. q \in Ring
    BY <1>1, <2>1, NeighborsInRing
  <2> HIDE DEF q
  <2>3. ~ Has(mailbox[q], UpTo(mi[p]))
    <3>1. ASSUME NEW j \in DOMAIN mailbox[q], mailbox[q][j] \in UpTo(mi[p])
          PROVE  mailbox[q][j].nr \in Stale(q)
      BY <3>1 DEF UpTo, Ys, Stale, ComingValues
    <3> QED
      BY <1>3, <2>2, <3>1 DEF Has
  <2>4. Value(q) <= mi[p]
    BY <1>2, <1>3, <2>1, <2>3 DEF ToldInv
  <2>5. mi[q] <= mi[p]
    BY <1>3, <2>2, <2>4
  <2> QED
    BY <2>5 DEF q
<1>5. MinMiIsMinimum
  <2> DEFINE S == {mi[p] : p \in Ring}
  <2>1. S \in SUBSET Nat
    BY <1>3
  <2>2. PICK p \in Ring : Value(p) <= minMi
    BY <1>2 DEF MinInv
  <2>3. \A q \in Ring : minMi <= Value(q)
    BY <1>2 DEF MinInv
  <2>4. minMi \in Nat
    BY <1>1 DEF Base, ValuesIn, CoordinatorOK, Positive
  <2>5. mi[p] = minMi
    BY <1>3, <2>2, <2>3, <2>4
  <2>6. minMi \in S /\ \A v \in S : minMi <= v
    BY <1>3, <2>3, <2>5
  <2> HIDE DEF S
  <2>7. Min(S) \in S /\ \A v \in S : Min(S) <= v
    BY <2>1, <2>6, MinLeast
  <2>8. minMi = Min(S)
    <3>1. \A a, b \in Nat : a <= b /\ b <= a => a = b
      OBVIOUS
    <3>2. minMi <= Min(S) /\ Min(S) <= minMi /\ Min(S) \in Nat
      BY <2>1, <2>6, <2>7
    <3> QED
      BY <2>4, <3>1, <3>2
  <2> QED
    BY <2>8 DEF MinMiIsMinimum, S
<1>6. EndsAtMultiples
  BY <1>2, <1>3 DEF EndsAtMultiples, WishInv, Divides
<1> QED
  BY <1>4, <1>5, <1>6

LEMMA GcdStays ==
  ASSUME Ordered, OneNode, WorkInv, CalcInv, CalcInv', [Next]_vars, calcs' = calcs, phase' = "calc"
  PROVE  GcdOfRing' = GcdOfRing
<1>1. Base /\ Base'
  BY ClosedPositive, ValuesNext DEF Ordered, Base, Positive
<1>2. CASE wish = 0
  <2>1. wish' = 0
    BY <1>1, <1>2, CalcOnly
  <2> QED
    BY <1>2, <2>1 DEF GcdOfRing
<1>3. CASE wish # 0
  <2>1. phase = "calc" /\ wish' = wish
    BY <1>1, <1>3, CalcOnly
  <2>2. OneValue /\ StaleInv /\ MinInv /\ ToldInv
    BY <1>3, <2>1 DEF CalcInv, Calculating
  <2>3. Ring' = Ring /\ KeepsDivisors /\ OneValue'
    BY <1>1, <2>1, <2>2, CalcStep
  <2> DEFINE A == {Value(p) : p \in Ring}
             B == {Value(p)' : p \in Ring}
  <2>4. \A p \in Ring : Value(p) \in Positive
    BY <1>1, <2>2, ValueTyped
  <2>5. \A p \in Ring : Value(p)' \in Positive
    <3>1. ASSUME NEW p \in Ring
          PROVE  Value(p)' \in Nat /\ Value(p)' # 0
      <4>1. \A u, v \in News(p)' : u = v
        BY <2>3 DEF OneValue
      <4>2. p \in Process
        BY <1>1, BaseFacts
      <4>3. mi'[p] \in Nat
        BY <1>1, <4>2, BaseFactsNext
      <4>4. News(p)' \subseteq Nat
        <5>1. ASSUME NEW v \in News(p)'
              PROVE  Worth(Mis, v) # {}
          <6>1. Coming(p, Worth(Mis, v))' /\ Worth(Mis, v)' = Worth(Mis, v)
            BY <1>1, <4>2, <5>1, NewsIsNext, WorthNext
          <6> QED
            BY <6>1 DEF Coming, Has, ToTell, ToSend
        <5>2. \A v : Worth(Mis, v) # {} => v \in Nat
          BY DEF Worth, Mis, Messages
        <5> QED
          BY <5>1, <5>2
      <4>5. Value(p)' \in Nat
        BY <4>1, <4>3, <4>4, ValueIsNext
      <4>6. Value(p)' # 0
        BY <2>3 DEF OneValue
      <4> QED
        BY <4>5, <4>6
    <3> QED
      BY <3>1 DEF Positive
  <2>6. Ring # {}
    <3>1. clientList \in Seq(Process) /\ Len(clientList) >= 2
      BY <1>1, <2>1 DEF Base, ValuesIn, CoordinatorOK
    <3>2. 1 \in DOMAIN clientList
      BY <3>1
    <3> QED
      BY <3>2 DEF Ring
  <2>7. A \in SUBSET Positive /\ B \in SUBSET Positive /\ A # {} /\ B # {}
    BY <2>4, <2>5, <2>6
  <2>8. \A d \in Positive : (\A v \in A : Divides(d, v)) <=> (\A v \in B : Divides(d, v))
    BY <2>3 DEF KeepsDivisors
  <2>9. GcdOfRing = GcdOf(A) /\ GcdOfRing' = GcdOf(B)
    BY <1>3, <2>1, <2>3 DEF GcdOfRing, GcdOf
  <2> HIDE DEF A, B
  <2>10. GcdOf(A) = GcdOf(B)
    BY <2>7, <2>8, SameGcd
  <2> QED
    BY <2>9, <2>10
<1> QED
  BY <1>2, <1>3

-----------------------------------------------------------------------------
(***************************************************************************)
(* Calculations on one node.                                               *)
(***************************************************************************)
CalculatesWell == Ordered /\ WorkInv /\ CalcInv

LEMMA CalculatesInit ==
  ASSUME OneNode, Init
  PROVE  CalculatesWell
<1>1. Ordered
  BY OnOneNodeInit DEF OnOneNode, Ordered
<1>2. WorkInv
  BY DEF Init, WorkInv, Alive, Has, ToSend, Ring
<1>3. CalcInv
  BY DEF Init, CalcInv, Calculating
<1> QED
  BY <1>1, <1>2, <1>3 DEF CalculatesWell

LEMMA CalculatesNext ==
  ASSUME OneNode, CalculatesWell, [Next]_vars, calcs' # calcs => AtRest
  PROVE  CalculatesWell'
<1>1. Ordered /\ WorkInv /\ CalcInv
  BY DEF CalculatesWell
<1>2. Ordered'
  BY <1>1, OnOneNodeNext DEF OnOneNode, Ordered
<1>3. WorkInv' /\ CalcInv'
  BY <1>1, WorkNext, CalcNext
<1> QED
  BY <1>2, <1>3 DEF CalculatesWell

(***************************************************************************)
(* The operator waits for the end of a calculation before the next one.    *)
(***************************************************************************)
CalcsFromRest == [][calcs' # calcs => AtRest]_vars

(***************************************************************************)
(* On one node, with any number of processes, resets and calculations: if  *)
(* each calculation starts at rest, it ends where no neighbor of a process *)
(* could be reduced further.                                               *)
(***************************************************************************)
THEOREM NoNeighborIsGreater ==
  ASSUME OneNode
  PROVE  Spec /\ CalcsFromRest => []NoGreaterNeighbor
<1>1. Init => CalculatesWell
  BY CalculatesInit
<1>2. CalculatesWell /\ [Next]_vars /\ (calcs' # calcs => AtRest) => CalculatesWell'
  BY CalculatesNext
<1>3. CalculatesWell /\ UNCHANGED vars => CalculatesWell'
  BY CalculatesNext DEF vars, coordVars
<1>4. CalculatesWell => NoGreaterNeighbor
  BY AtTheEnd DEF CalculatesWell, NoGreaterNeighbor
<1> QED
  BY <1>1, <1>2, <1>3, <1>4, PTL DEF Spec, CalcsFromRest

(***************************************************************************)
(* Then the coordinator knows the smallest Mi of the ring.                 *)
(***************************************************************************)
THEOREM MinimumIsKnown ==
  ASSUME OneNode
  PROVE  Spec /\ CalcsFromRest => []MinMiIsMinimum
<1>1. Init => CalculatesWell
  BY CalculatesInit
<1>2. CalculatesWell /\ [Next]_vars /\ (calcs' # calcs => AtRest) => CalculatesWell'
  BY CalculatesNext
<1>3. CalculatesWell /\ UNCHANGED vars => CalculatesWell'
  BY CalculatesNext DEF vars, coordVars
<1>4. CalculatesWell => MinMiIsMinimum
  BY AtTheEnd DEF CalculatesWell, MinMiIsMinimum
<1> QED
  BY <1>1, <1>2, <1>3, <1>4, PTL DEF Spec, CalcsFromRest

(***************************************************************************)
(* All Mi are then multiples of the gcd wished for last, whatever was      *)
(* wished for before; a calculation that is started while values of the    *)
(* last one are on their way can end below it.                             *)
(***************************************************************************)
THEOREM EndsHaveTheWish ==
  ASSUME OneNode
  PROVE  Spec /\ CalcsFromRest => []EndsAtMultiples
<1>1. Init => CalculatesWell
  BY CalculatesInit
<1>2. CalculatesWell /\ [Next]_vars /\ (calcs' # calcs => AtRest) => CalculatesWell'
  BY CalculatesNext
<1>3. CalculatesWell /\ UNCHANGED vars => CalculatesWell'
  BY CalculatesNext DEF vars, coordVars
<1>4. CalculatesWell => EndsAtMultiples
  BY AtTheEnd DEF CalculatesWell, EndsAtMultiples
<1> QED
  BY <1>1, <1>2, <1>3, <1>4, PTL DEF Spec, CalcsFromRest

(***************************************************************************)
(* The values of the ring have the same gcd throughout a calculation,      *)
(* although a Y may be a value that its sender no longer has.              *)
(***************************************************************************)
THEOREM GcdIsKept ==
  ASSUME OneNode
  PROVE  Spec /\ CalcsFromRest => GcdKept
<1>1. Init => CalculatesWell
  BY CalculatesInit
<1>2. CalculatesWell /\ [Next]_vars /\ (calcs' # calcs => AtRest) => CalculatesWell'
  BY CalculatesNext
<1>3. CalculatesWell /\ UNCHANGED vars => CalculatesWell'
  BY CalculatesNext DEF vars, coordVars
<1>4. CalculatesWell /\ CalculatesWell' /\ [Next]_vars =>
        (calcs' = calcs /\ phase' = "calc" => GcdOfRing' = GcdOfRing)
  BY GcdStays DEF CalculatesWell
<1> QED
  BY <1>1, <1>2, <1>3, <1>4, PTL DEF Spec, CalcsFromRest, GcdKept

(***************************************************************************)
(* The first calculation starts at rest: before it there are no values.    *)
(***************************************************************************)
NoValuesYet == calcs = 0 => ValuesIn({})

THEOREM FirstCalcFromRest ==
  ASSUME MaxCalcs <= 1
  PROVE  Spec => CalcsFromRest
<1>1. Init => Base /\ NoValuesYet
  BY ValuesInit DEF Base, NoValuesYet
<1>2. Base /\ NoValuesYet /\ [Next]_vars => (Base /\ NoValuesYet)'
  <2> SUFFICES ASSUME Base, NoValuesYet, [Next]_vars
               PROVE  (Base /\ NoValuesYet)'
    OBVIOUS
  <2>1. Base'
    BY ClosedPositive, ValuesNext DEF Base, Positive
  <2>2. ASSUME calcs' = 0
        PROVE  ValuesIn({})'
    <3>1. calcs \in Nat
      BY DEF Base, ValuesIn, CoordinatorOK
    <3>2. ~ \E w \in Wish : Calc(w)
      BY <2>2, <3>1 DEF Calc
    <3>3. calcs = 0
      BY <2>2, <3>2, CalcOnlyCounts
    <3>4. Reduces({})
      BY DEF Reduces
    <3> QED
      BY <3>2, <3>3, <3>4, ValuesNextButCalc DEF NoValuesYet
  <2> QED
    BY <2>1, <2>2 DEF NoValuesYet
<1>3. Base /\ NoValuesYet /\ [Next]_vars => [calcs' # calcs => AtRest]_vars
  <2> SUFFICES ASSUME Base, NoValuesYet, [Next]_vars, calcs' # calcs
               PROVE  AtRest
    OBVIOUS
  <2>1. PICK w \in Wish : Calc(w)
    BY CalcOnlyCounts
  <2>2. calcs = 0
    BY <2>1, GGTAssumption DEF Calc, Base, ValuesIn, CoordinatorOK
  <2>3. ValuesIn({})
    BY <2>2 DEF NoValuesYet
  <2> QED
    BY <2>3, ComingIn DEF AtRest, ValuesIn, HelloOK
<1> QED
  BY <1>1, <1>2, <1>3, PTL DEF Spec, CalcsFromRest

(***************************************************************************)
(* So all of this is true without a condition of one calculation.          *)
(***************************************************************************)
THEOREM OneCalculation ==
  ASSUME OneNode, MaxCalcs <= 1
  PROVE  Spec => [](NoGreaterNeighbor /\ MinMiIsMinimum /\ EndsAtMultiples) /\ GcdKept
<1>1. Spec => CalcsFromRest
  BY FirstCalcFromRest
<1>2. Spec /\ CalcsFromRest => []NoGreaterNeighbor /\ []MinMiIsMinimum /\ []EndsAtMultiples /\ GcdKept
  BY NoNeighborIsGreater, MinimumIsKnown, EndsHaveTheWish, GcdIsKept
<1> QED
  BY <1>1, <1>2, PTL
-----------------------------------------------------------------------------
(***************************************************************************)
(* What a step adds to a mailbox or takes out of it, in any order.         *)
(***************************************************************************)
LEMMA HasRemoved ==
  ASSUME NEW S, NEW s \in Seq(S), NEW i \in DOMAIN s
  PROVE  \A M : /\ Has(RemoveAt(s, i), M) => Has(s, M)
                /\ Has(s, M) /\ s[i] \notin M => Has(RemoveAt(s, i), M)
<1> DEFINE t == RemoveAt(s, i)
           a == SubSeq(s, 1, i - 1)
           b == SubSeq(s, i + 1, Len(s))
<1>1. i \in Nat /\ Len(s) \in Nat /\ 1 <= i /\ i <= Len(s) /\ DOMAIN s = 1..Len(s)
  OBVIOUS
<1>2. t = a \o b
  BY DEF RemoveAt
<1>3. a \in Seq(S) /\ Len(a) = i - 1 /\ \A k \in 1..i - 1 : a[k] = s[k]
  BY <1>1
<1>4. b \in Seq(S) /\ Len(b) = Len(s) - i /\ \A k \in 1..Len(s) - i : b[k] = s[k + i]
  BY <1>1
<1> HIDE DEF t, a, b
<1>5. DOMAIN t = 1..Len(s) - 1
  <2>1. t \in Seq(S) /\ Len(t) = Len(a) + Len(b)
    BY <1>2, <1>3, <1>4
  <2>2. Len(a) + Len(b) = Len(s) - 1 /\ DOMAIN t = 1..Len(t)
    BY <1>1, <1>3, <1>4, <2>1
  <2> QED
    BY <2>1, <2>2
<1>6. \A k \in DOMAIN t : t[k] = IF k < i THEN s[k] ELSE s[k + 1]
  <2> TAKE k \in DOMAIN t
  <2>1. k \in 1..Len(a) + Len(b)
    BY <1>1, <1>3, <1>4, <1>5
  <2>2. t[k] = IF k <= Len(a) THEN a[k] ELSE b[k - Len(a)]
    BY <1>2, <1>3, <1>4, <2>1
  <2>3. CASE k < i
    BY <1>1, <1>3, <2>1, <2>2, <2>3
  <2>4. CASE ~ (k < i)
    <3>1. k - Len(a) \in 1..Len(s) - i /\ k - Len(a) + i = k + 1 /\ ~ (k <= Len(a))
      BY <1>1, <1>3, <1>4, <2>1, <2>4
    <3> QED
      BY <1>4, <2>2, <2>4, <3>1
  <2> QED
    BY <2>3, <2>4
<1>7. ASSUME NEW M, Has(t, M)
      PROVE  Has(s, M)
  <2>1. PICK k \in DOMAIN t : t[k] \in M
    BY <1>7 DEF Has
  <2>2. k \in DOMAIN s /\ k + 1 \in DOMAIN s
    BY <1>1, <1>5
  <2> QED
    BY <1>6, <2>1, <2>2 DEF Has
<1>8. ASSUME NEW M, Has(s, M), s[i] \notin M
      PROVE  Has(t, M)
  <2>1. PICK k \in DOMAIN s : s[k] \in M
    BY <1>8 DEF Has
  <2>2. k # i /\ k \in 1..Len(s)
    BY <1>1, <1>8, <2>1
  <2>3. CASE k < i
    <3>1. k \in DOMAIN t /\ t[k] = s[k]
      BY <1>1, <1>5, <1>6, <2>2, <2>3
    <3> QED
      BY <2>1, <3>1 DEF Has
  <2>4. CASE ~ (k < i)
    <3>1. k - 1 \in DOMAIN t /\ ~ (k - 1 < i) /\ k - 1 + 1 = k
      BY <1>1, <1>5, <2>2, <2>4
    <3>2. t[k - 1] = s[k]
      BY <1>6, <3>1
    <3> QED
      BY <2>1, <3>1, <3>2 DEF Has
  <2> QED
    BY <2>3, <2>4
<1> QED
  BY <1>7, <1>8 DEF t

LEMMA TakenMail ==
  ASSUME Base, NEW p \in Process, NEW i \in DOMAIN mailbox[p]
  PROVE  /\ Taken(p, i) \in [Process -> Seq(Messages)]
         /\ \A q \in Process : q # p => Taken(p, i)[q] = mailbox[q]
         /\ \A M : /\ Has(Taken(p, i)[p], M) => Has(mailbox[p], M)
                   /\ Has(mailbox[p], M) /\ mailbox[p][i] \notin M => Has(Taken(p, i)[p], M)
<1>1. mailbox \in [Process -> Seq(Messages)] /\ mailbox[p] \in Seq(Messages)
  BY BaseFacts
<1>2. Taken(p, i) = [mailbox EXCEPT ![p] = RemoveAt(mailbox[p], i)]
  BY DEF Taken
<1>3. RemoveAt(mailbox[p], i) \in Seq(Messages)
  BY <1>1, RemoveAtType
<1>4. /\ Taken(p, i) \in [Process -> Seq(Messages)]
      /\ \A q \in Process : q # p => Taken(p, i)[q] = mailbox[q]
      /\ Taken(p, i)[p] = RemoveAt(mailbox[p], i)
  BY <1>1, <1>2, <1>3
<1>5. \A M : /\ Has(RemoveAt(mailbox[p], i), M) => Has(mailbox[p], M)
             /\ Has(mailbox[p], M) /\ mailbox[p][i] \notin M => Has(RemoveAt(mailbox[p], i), M)
  BY <1>1, HasRemoved
<1> QED
  BY <1>4, <1>5

LEMMA SentMail ==
  ASSUME NEW box \in [Process -> Seq(Messages)], NEW out \in [Process -> Seq(Messages)],
         Send(box, out), NEW q \in Process, NEW L, \A i \in DOMAIN out[q] : out[q][i] \in L,
         mailbox'[q] \in Seq(Messages)
  PROVE  \A M : /\ Has(box[q], M) => Has(mailbox'[q], M)
                /\ Has(mailbox'[q], M) => Has(box[q], M) \/ M \cap L # {}
<1> DEFINE s == box[q]
           t == mailbox'[q]
<1>1. s \in Seq(Messages) /\ t \in Seq(Messages) /\ Grows(s, t, L)
  BY SendGrows
<1> HIDE DEF s, t
<1>2. \A M : (Has(s, M) => Has(t, M)) /\ (Has(t, M) => Has(s, M) \/ M \cap L # {})
  BY <1>1, GrowsOrder
<1> QED
  BY <1>2 DEF s, t

LEMMA SendNextMail ==
  ASSUME Base, Base', SendNext
  PROVE  /\ 1 \in DOMAIN outbox /\ outbox[1].to \in Process /\ outbox[1].message \in Messages
         /\ \A k \in DOMAIN outbox' : k + 1 \in DOMAIN outbox /\ outbox'[k] = outbox[k + 1]
         /\ \A q \in Process : q # outbox[1].to => mailbox'[q] = mailbox[q]
         /\ \A M : \A q \in Process : /\ Has(mailbox[q], M) => Has(mailbox'[q], M)
                                      /\ Has(mailbox'[q], M) =>
                                           Has(mailbox[q], M) \/ outbox[1].message \in M
<1> DEFINE d == outbox[1].to
           m == outbox[1].message
           out == [q \in Process |-> IF d = q THEN <<m>> ELSE << >>]
<1>1. /\ mailbox \in [Process -> Seq(Messages)] /\ mailbox' \in [Process -> Seq(Messages)]
      /\ outbox \in Seq(Letters)
  BY BaseFacts, BaseFactsNext
<1>2. outbox # << >> /\ outbox' = Tail(outbox)
  BY DEF SendNext
<1>3. 1 \in DOMAIN outbox /\ Head(outbox) = outbox[1] /\ outbox[1] \in Letters
  BY <1>1, <1>2
<1>4. d \in Process /\ m \in Messages
  BY <1>3 DEF Letters
<1>5. Send(mailbox, out)
  BY <1>3 DEF SendNext
<1>6. \A k \in DOMAIN outbox' : k + 1 \in DOMAIN outbox /\ outbox'[k] = outbox[k + 1]
  <2>1. Len(outbox) \in Nat /\ Len(outbox) >= 1 /\ DOMAIN outbox = 1..Len(outbox)
    BY <1>1, <1>3
  <2>2. Tail(outbox) \in Seq(Letters) /\ Len(Tail(outbox)) = Len(outbox) - 1
    BY <1>1, <1>2
  <2>3. \A k \in 1..Len(outbox) - 1 : Tail(outbox)[k] = outbox[k + 1]
    BY <1>1, <1>2
  <2>4. DOMAIN outbox' = 1..Len(outbox) - 1
    BY <1>2, <2>1, <2>2
  <2> QED
    BY <1>2, <2>1, <2>3, <2>4
<1> HIDE DEF d, m
<1>7. <<m>> \in Seq(Messages) /\ << >> \in Seq(Messages)
  BY <1>4
<1>8. out \in [Process -> Seq(Messages)]
  BY <1>7
<1>9. \A q \in Process : /\ q = d => out[q] = <<m>>
                         /\ q # d => out[q] = << >>
  OBVIOUS
<1> HIDE DEF out
<1>10. \A q \in Process : q # d => mailbox'[q] = mailbox[q]
  <2> SUFFICES ASSUME NEW q \in Process, q # d
               PROVE  mailbox'[q] = mailbox[q]
    OBVIOUS
  <2>1. out[q] = << >> /\ \A i \in DOMAIN out[q] : out[q][i] \in {}
    BY <1>9
  <2> QED
    BY <1>1, <1>5, <1>8, <2>1, SendGrows
<1>11. \A M : /\ Has(mailbox[d], M) => Has(mailbox'[d], M)
              /\ Has(mailbox'[d], M) => Has(mailbox[d], M) \/ m \in M
  <2>1. \A i \in DOMAIN out[d] : out[d][i] \in {m}
    BY <1>4, <1>9
  <2>2. mailbox'[d] \in Seq(Messages)
    BY <1>1, <1>4
  <2>3. \A M : /\ Has(mailbox[d], M) => Has(mailbox'[d], M)
               /\ Has(mailbox'[d], M) => Has(mailbox[d], M) \/ M \cap {m} # {}
    BY <1>1, <1>4, <1>5, <1>8, <2>1, <2>2, SentMail
  <2> QED
    BY <2>3
<1>12. \A M : \A q \in Process : /\ Has(mailbox[q], M) => Has(mailbox'[q], M)
                                 /\ Has(mailbox'[q], M) => Has(mailbox[q], M) \/ m \in M
  BY <1>10, <1>11
<1> QED
  BY <1>3, <1>4, <1>6, <1>10, <1>12 DEF d, m

LEMMA MulticastMail ==
  ASSUME Base, Base', NEW h \in DOMAIN votes, Multicast(h)
  PROVE  /\ \A M : \A q \in Process : /\ Has(mailbox[q], M) => Has(mailbox'[q], M)
                                      /\ Has(mailbox'[q], M) => Has(mailbox[q], M) \/ vote(h) \in M
         /\ \A q \in Process : state[q] = "work" => Has(mailbox'[q], {vote(h)})
<1> DEFINE out == [q \in Process |-> <<vote(h)>>]
<1>1. mailbox \in [Process -> Seq(Messages)] /\ mailbox' \in [Process -> Seq(Messages)]
  BY BaseFacts, BaseFactsNext
<1>2. h \in Nat
  BY DEF Base, ValuesIn, VotesOK
<1>3. vote(h) \in Messages
  BY <1>2, OtherMessages DEF Others
<1>4. \A m \in Messages : <<m>> \in Seq(Messages)
  OBVIOUS
<1>5. <<vote(h)>> \in Seq(Messages)
  BY <1>3, <1>4
<1>6. out \in [Process -> Seq(Messages)] /\ \A q \in Process : out[q] = <<vote(h)>>
  BY <1>5
<1>7. Send(mailbox, out)
  BY DEF Multicast
<1> HIDE DEF out
<1>8. \A M : \A q \in Process : /\ Has(mailbox[q], M) => Has(mailbox'[q], M)
                                /\ Has(mailbox'[q], M) => Has(mailbox[q], M) \/ vote(h) \in M
  <2> TAKE M
  <2> TAKE q \in Process
  <2>1. \A i \in DOMAIN out[q] : out[q][i] \in {vote(h)}
    BY <1>6
  <2>2. mailbox'[q] \in Seq(Messages)
    BY <1>1
  <2>3. /\ Has(mailbox[q], M) => Has(mailbox'[q], M)
        /\ Has(mailbox'[q], M) => Has(mailbox[q], M) \/ M \cap {vote(h)} # {}
    BY <1>1, <1>6, <1>7, <2>1, <2>2, SentMail
  <2> QED
    BY <2>3
<1>9. ASSUME NEW q \in Process, state[q] = "work"
      PROVE  Has(mailbox'[q], {vote(h)})
  <2>1. mailbox'[q] = mailbox[q] \o <<vote(h)>>
    BY <1>6, <1>7, <1>9 DEF Send
  <2>2. \A s \in Seq(Messages), m \in Messages : Has(s \o <<m>>, {m})
    <3> TAKE s \in Seq(Messages), m \in Messages
    <3>1. Len(s) + 1 \in DOMAIN (s \o <<m>>) /\ (s \o <<m>>)[Len(s) + 1] = m
      OBVIOUS
    <3> QED
      BY <3>1 DEF Has
  <2> QED
    BY <1>1, <1>3, <2>1, <2>2
<1> QED
  BY <1>8, <1>9

LEMMA TimerMail ==
  ASSUME Base, NEW p \in Process, TimerFires(p)
  PROVE  /\ \A q \in Process : q # p => mailbox'[q] = mailbox[q]
         /\ Has(mailbox'[p], {timeout})
         /\ \A M : /\ Has(mailbox[p], M) => Has(mailbox'[p], M)
                   /\ Has(mailbox'[p], M) => Has(mailbox[p], M) \/ timeout \in M
<1>1. mailbox \in [Process -> Seq(Messages)] /\ timeout \in Messages
  BY BaseFacts, OtherMessages DEF Others
<1>2. mailbox' = [mailbox EXCEPT ![p] = Append(mailbox[p], timeout)]
  BY DEF TimerFires
<1>3. /\ mailbox'[p] = Append(mailbox[p], timeout)
      /\ \A q \in Process : q # p => mailbox'[q] = mailbox[q]
  BY <1>1, <1>2
<1>4. \A s \in Seq(Messages), m \in Messages :
        /\ Append(s, m) \in Seq(Messages) /\ Grows(s, Append(s, m), {m})
        /\ Has(Append(s, m), {m})
  <2> TAKE s \in Seq(Messages), m \in Messages
  <2>1. Len(s) + 1 \in DOMAIN Append(s, m) /\ Append(s, m)[Len(s) + 1] = m
    OBVIOUS
  <2>2. Has(Append(s, m), {m})
    BY <2>1 DEF Has
  <2> QED
    BY <2>2, AppendGrows
<1>5. \A s \in Seq(Messages), m \in Messages : \A M :
        /\ Has(s, M) => Has(Append(s, m), M)
        /\ Has(Append(s, m), M) => Has(s, M) \/ m \in M
  <2> TAKE s \in Seq(Messages), m \in Messages
  <2> TAKE M
  <2> DEFINE t == Append(s, m)
  <2>1. t \in Seq(Messages) /\ Grows(s, t, {m})
    BY <1>4
  <2> HIDE DEF t
  <2>2. (Has(s, M) => Has(t, M)) /\ (Has(t, M) => Has(s, M) \/ M \cap {m} # {})
    BY <2>1, GrowsOrder
  <2> QED
    BY <2>2 DEF t
<1>6. mailbox[p] \in Seq(Messages)
  BY <1>1
<1> QED
  BY <1>1, <1>3, <1>4, <1>5, <1>6

LEMMA ReduceMail ==
  ASSUME Base, Base', NEW p \in Process, NEW i \in DOMAIN mailbox[p],
         Receives(p, i, "sendy"), Reduce(p, i)
  PROVE  \A M : \A q \in Process : /\ M \cap Ys = {} /\ Has(mailbox[q], M) => Has(mailbox'[q], M)
                                   /\ M \cap Ys = {} /\ Has(mailbox'[q], M) => Has(mailbox[q], M)
<1> DEFINE new == calc(mi[p], mailbox[p][i].nr)
           out == [q \in Process |->
                     [k \in 1..Cardinality({s \in 1..2 : neighbors[p][s] = q}) |-> sendy(p, new)]]
<1>1. mailbox' \in [Process -> Seq(Messages)] /\ mailbox[p] \in Seq(Messages)
  BY BaseFacts, BaseFactsNext
<1>2. mailbox[p][i] \in Ys
  BY <1>1 DEF Receives, Ys
<1>3. Send(Taken(p, i), out)
  BY DEF Reduce
<1>4. new \in Nat
  <2>1. \A m \in Nat, y \in Positive : calc(m, y) \in Nat
    BY DEF calc, Positive
  <2>2. mi[p] \in Nat
    BY BaseFacts
  <2>3. mailbox[p][i].nr \in Positive
    <3>1. mailbox[p][i] \in Carrying(Positive) /\ mailbox[p][i].type = "sendy"
      BY TakenType DEF Base, ValuesIn, Receives
    <3> QED
      BY <3>1, MessageFields
  <2> QED
    BY <2>1, <2>2, <2>3
<1> HIDE DEF new
<1>5. sendy(p, new) \in Ys
  <2>1. << >> \in Seq(Process)
    OBVIOUS
  <2> QED
    BY <1>4, <2>1 DEF sendy, Message, Ys, Messages
<1>6. \A q \in Process : Cardinality({s \in 1..2 : neighbors[p][s] = q}) \in Nat
  <2> TAKE q \in Process
  <2>1. IsFiniteSet(1..2)
    <3>1. 1 \in Int /\ 2 \in Int
      OBVIOUS
    <3> QED
      BY <3>1, FS_Interval
  <2>2. IsFiniteSet({s \in 1..2 : neighbors[p][s] = q})
    BY <2>1, FS_Subset
  <2> QED
    BY <2>2, FS_CardinalityType
<1>7. /\ out \in [Process -> Seq(Messages)]
      /\ \A q \in Process : \A k \in DOMAIN out[q] : out[q][k] \in Ys
  BY <1>5, <1>6 DEF Ys
<1> HIDE DEF out
<1>8. Taken(p, i) \in [Process -> Seq(Messages)]
  BY TakenMail
<1>9. \A M : \A q \in Process : /\ M \cap Ys = {} /\ Has(mailbox[q], M) => Has(Taken(p, i)[q], M)
                                /\ Has(Taken(p, i)[q], M) => Has(mailbox[q], M)
  BY <1>2, TakenMail
<1>10. \A M : \A q \in Process : /\ Has(Taken(p, i)[q], M) => Has(mailbox'[q], M)
                                 /\ Has(mailbox'[q], M) => Has(Taken(p, i)[q], M) \/ M \cap Ys # {}
  <2> TAKE M
  <2> TAKE q \in Process
  <2>1. mailbox'[q] \in Seq(Messages) /\ \A k \in DOMAIN out[q] : out[q][k] \in Ys
    BY <1>1, <1>7
  <2>2. \E box \in [Process -> Seq(Messages)] : box = Taken(p, i)
    BY <1>8
  <2> QED
    BY <1>3, <1>7, <1>8, <2>1, SentMail
<1> QED
  BY <1>9, <1>10

-----------------------------------------------------------------------------
(***************************************************************************)
(* In any order of the messages: whoever has said hello, and the ring as   *)
(* long as the coordinator is at work, is not killed; a process that was   *)
(* ended by a Y had no Mi.                                                 *)
(***************************************************************************)
Ready(p) ==
  /\ state[p] = "work" \/ (state[p] = "crashed" /\ mi[p] = 0)
  /\ ~ Has(mailbox[p], Killings)

Fresh(p) == mi[p] = 0 /\ ~ Has(mailbox[p], Killings)

KillsToRing ==
  \A k \in DOMAIN outbox :
    outbox[k].message.type = "kill" => outbox[k].to \in Ring /\ phase \notin {"init", "calc"}

ReadyInv ==
  /\ KillsToRing
  /\ \A p \in greetings : Ready(p)
  /\ \A p \in Process : state[p] = "new" => Fresh(p)
  /\ phase \in {"init", "calc"} => \A p \in Ring : Ready(p)

LEMMA ReadyStays ==
  ASSUME Base, ReadyInv, KillsToRing', greetings' \subseteq greetings,
         phase' \in {"init", "calc"} =>
           Ring' = {} \/ (phase \in {"init", "calc"} /\ Ring' \subseteq Ring \cup greetings),
         \A p \in Process :
           /\ (p \in greetings \/ phase \in {"init", "calc"}) /\ Ready(p) => Ready(p)'
           /\ state'[p] = "new" => state[p] = "new" /\ (Fresh(p) => Fresh(p)')
  PROVE  ReadyInv'
<1>1. greetings \subseteq Process /\ Ring \subseteq Process
  BY BaseFacts
<1>2. \A p \in greetings' : Ready(p)'
  BY <1>1 DEF ReadyInv
<1>3. \A p \in Process : state'[p] = "new" => Fresh(p)'
  BY DEF ReadyInv
<1>4. ASSUME phase' \in {"init", "calc"}
      PROVE  \A p \in Ring' : Ready(p)'
  <2>1. CASE Ring' = {}
    BY <2>1
  <2>2. CASE phase \in {"init", "calc"} /\ Ring' \subseteq Ring \cup greetings
    BY <1>1, <2>2 DEF ReadyInv
  <2> QED
    BY <1>4, <2>1, <2>2
<1> QED
  BY <1>2, <1>3, <1>4 DEF ReadyInv

(***************************************************************************)
(* A mailbox that has got no kill.                                         *)
(***************************************************************************)
NoKill(s, t) == Has(t, Killings) => Has(s, Killings)

LEMMA MailReady ==
  ASSUME Base, ReadyInv, UNCHANGED <<phase, clientList, outbox>>, greetings' \subseteq greetings,
         \A p \in Process : NoKill(mailbox[p], mailbox'[p]),
         \A p \in Process :
           /\ state[p] = "work" => state'[p] = "work" \/ (state'[p] = "crashed" /\ mi'[p] = 0)
           /\ state[p] # "work" => state'[p] = state[p] /\ mi'[p] = mi[p]
  PROVE  ReadyInv'
<1>1. Ring' = Ring /\ KillsToRing'
  BY DEF ReadyInv, KillsToRing, Ring
<1>2. \A p \in Process : /\ Ready(p) => Ready(p)'
                         /\ state'[p] = "new" => state[p] = "new" /\ (Fresh(p) => Fresh(p)')
  BY DEF Ready, Fresh, NoKill, Killings, Messages
<1> QED
  BY <1>1, <1>2, ReadyStays

LEMMA NotAKill ==
  /\ timeout \notin Killings /\ (\A h : vote(h) \notin Killings) /\ Killings \cap Ys = {}
  /\ \A l, r : setneighbors(l, r).type # "kill"
  /\ \A n : setpm(n).type # "kill"
  /\ \A p, y : sendy(p, y).type # "kill"
BY DEF timeout, vote, setneighbors, setpm, sendy, Message, Killings, Ys

LEMMA CoordinatorReady ==
  ASSUME Base, Base', ReadyInv, CoordinatorStep \/ \E h \in DOMAIN votes : Multicast(h)
  PROVE  ReadyInv'
<1>0. Ring \subseteq Process /\ greetings \subseteq Process
  BY BaseFacts
<1>1. CASE \E h \in DOMAIN votes : Multicast(h)
  <2>1. PICK h \in DOMAIN votes : Multicast(h)
    BY <1>1
  <2>2. UNCHANGED <<phase, clientList, outbox, greetings, state, mi>>
    BY <2>1 DEF Multicast, coordVars, procVars
  <2>3. \A p \in Process : NoKill(mailbox[p], mailbox'[p])
    BY <2>1, MulticastMail, NotAKill DEF NoKill
  <2> QED
    BY <2>2, <2>3, MailReady
<1>2. CASE \E v \in briefs : BriefMi(v)
  <2>1. UNCHANGED <<phase, clientList, outbox, greetings, state, mi, mailbox>>
    BY <1>2 DEF BriefMi, procVars
  <2> QED
    BY <2>1, MailReady DEF NoKill
<1>3. CASE \E p \in Process : Hello(p)
  <2>1. PICK p \in Process : Hello(p)
    BY <1>3
  <2>2. /\ UNCHANGED <<phase, outbox, state, mi, mailbox>> /\ greetings' = greetings \ {p}
        /\ p \in greetings /\ outbox = << >> /\ phase \in {"init", "calc"}
        /\ phase # "init" => UNCHANGED clientList
    BY <2>1 DEF Hello, Receiving, procVars
  <2>3. Ring' \subseteq Ring \cup {p}
    BY <2>1, <2>2, HelloRing DEF Ring
  <2>4. KillsToRing'
    BY <2>2 DEF KillsToRing
  <2>5. \A q \in Process : /\ Ready(q) => Ready(q)'
                           /\ state'[q] = "new" => state[q] = "new" /\ (Fresh(q) => Fresh(q)')
    BY <2>2 DEF Ready, Fresh, Killings, Messages
  <2> QED
    BY <2>2, <2>3, <2>4, <2>5, ReadyStays
<1>4. CASE StartAgain
  <2>1. /\ UNCHANGED <<state, mi, mailbox>> /\ greetings' \subseteq greetings
        /\ Ring' = {} /\ outbox' = << >>
    BY <1>4 DEF StartAgain, Receiving, procVars, Ring
  <2>2. KillsToRing'
    BY <2>1 DEF KillsToRing
  <2>3. \A q \in Process : /\ Ready(q) => Ready(q)'
                           /\ state'[q] = "new" => state[q] = "new" /\ (Fresh(q) => Fresh(q)')
    BY <2>1 DEF Ready, Fresh, Killings, Messages
  <2> QED
    BY <2>1, <2>2, <2>3, ReadyStays
<1>5. CASE SendNext
  <2> DEFINE d == outbox[1].to
             m == outbox[1].message
  <2>1. /\ 1 \in DOMAIN outbox /\ d \in Process /\ m \in Messages
        /\ \A k \in DOMAIN outbox' : k + 1 \in DOMAIN outbox /\ outbox'[k] = outbox[k + 1]
        /\ \A q \in Process : q # d => mailbox'[q] = mailbox[q]
        /\ \A M : \A q \in Process : Has(mailbox'[q], M) => Has(mailbox[q], M) \/ m \in M
    BY <1>5, SendNextMail
  <2>2. UNCHANGED <<phase, clientList, greetings, state, mi>> /\ Ring' = Ring
    BY <1>5 DEF SendNext, procVars, Ring
  <2>3. KillsToRing'
    BY <2>1, <2>2 DEF ReadyInv, KillsToRing
  <2>4. m \in Killings => d \in Ring /\ phase \notin {"init", "calc"}
    BY <2>1 DEF ReadyInv, KillsToRing, Killings
  <2>5. m \in Killings => d \notin greetings /\ state[d] # "new" /\ phase \notin {"init", "calc"}
    BY <2>4, BaseFacts
  <2> HIDE DEF d, m
  <2>6. Killings' = Killings
    BY DEF Killings, Messages
  <2>7. ASSUME NEW q \in Process, q \in greetings \/ phase \in {"init", "calc"} \/ state[q] = "new"
        PROVE  NoKill(mailbox[q], mailbox'[q])
    <3>1. CASE q # d
      BY <2>1, <3>1 DEF NoKill
    <3>2. CASE q = d
      <4>1. m \notin Killings
        BY <2>5, <2>7, <3>2
      <4> QED
        BY <2>1, <4>1 DEF NoKill
    <3> QED
      BY <3>1, <3>2
  <2>8. \A q \in Process :
          /\ (q \in greetings \/ phase \in {"init", "calc"}) /\ Ready(q) => Ready(q)'
          /\ state'[q] = "new" => state[q] = "new" /\ (Fresh(q) => Fresh(q)')
    BY <2>2, <2>6, <2>7 DEF Ready, Fresh, NoKill
  <2> QED
    BY <2>2, <2>3, <2>8, ReadyStays
<1> QED
  BY <1>1, <1>2, <1>3, <1>4, <1>5 DEF CoordinatorStep

LEMMA CommandReady ==
  ASSUME Base, ReadyInv, OperatorCommand
  PROVE  ReadyInv'
<1>0. Ring \subseteq Process /\ greetings \subseteq Process
  BY BaseFacts
<1>1. ASSUME UNCHANGED <<greetings, clientList, state, mi, mailbox>>, KillsToRing',
             phase' \in {"init", "calc"} => phase \in {"init", "calc"}
      PROVE  ReadyInv'
  <2>1. Ring' = Ring
    BY <1>1 DEF Ring
  <2>2. \A q \in Process : /\ Ready(q) => Ready(q)'
                           /\ state'[q] = "new" => state[q] = "new" /\ (Fresh(q) => Fresh(q)')
    BY <1>1 DEF Ready, Fresh, Killings, Messages
  <2> QED
    BY <1>1, <2>1, <2>2, ReadyStays
<1>2. CASE Toggle \/ Reset \/ Kill
  <2>1. /\ UNCHANGED <<greetings, clientList, state, mi, mailbox>>
        /\ phase' \notin {"init", "calc"} /\ outbox = << >> /\ outbox' \in {outbox, Kills}
    BY <1>2 DEF Toggle, Reset, Kill, Receiving, procVars
  <2>2. \A k \in DOMAIN Kills : Kills[k].to \in Ring
    BY DEF Kills, Ring
  <2>3. KillsToRing'
    <3>1. Ring' = Ring
      BY <2>1 DEF Ring
    <3>2. \A k \in DOMAIN outbox' : outbox'[k].to \in Ring
      <4>1. outbox' = << >> \/ outbox' = Kills
        BY <2>1
      <4> QED
        BY <2>2, <4>1
    <3> QED
      BY <2>1, <3>1, <3>2 DEF KillsToRing
  <2> QED
    BY <1>1, <2>1, <2>3
<1>3. CASE Step /\ phase' = "crashed"
  <2>1. UNCHANGED <<greetings, clientList, state, mi, mailbox>> /\ outbox = << >>
    BY <1>3 DEF Step, Receiving, procVars
  <2>2. outbox' = << >>
    BY <1>3, <2>1 DEF Step
  <2>3. KillsToRing'
    BY <2>2 DEF KillsToRing
  <2> QED
    BY <1>1, <1>3, <2>1, <2>3
<1>4. CASE (Step /\ phase' # "crashed") \/ \E w \in Wish : Calc(w)
  <2>1. /\ phase \in {"init", "calc"}
        /\ UNCHANGED <<greetings, clientList, state, mi, mailbox>>
    BY <1>4 DEF Step, Calc, Receiving, procVars
  <2>2. \A k \in DOMAIN outbox' : outbox'[k].message \in Rings \cup Mis \cup Ys
    <3>1. CASE Step /\ phase' # "crashed"
      BY <3>1, StepTells
    <3>2. CASE \E w \in Wish : Calc(w)
      <4>1. PICK n, k, f : Begins(n, k, f)
        BY <3>2, CalcBegins
      <4>2. \A i \in 1..n : f[i] \in Nat
        BY <4>1 DEF Begins, Positive
      <4>3. \A i \in 1..n : setpm(f[i]) \in Mis /\ sendy(Coordinator, f[i]) \in Ys
        BY <4>2, ValueMessages
      <4>4. \A j \in DOMAIN outbox' : j \in 1..n \/ j \in n + 1..n + k
        BY <4>1 DEF Begins
      <4>5. \A i \in 1..n : outbox'[i].message \in Mis
        BY <4>1, <4>3 DEF Begins
      <4>6. \A j \in n + 1..n + k : outbox'[j].message \in Ys
        BY <4>1, <4>3 DEF Begins
      <4> QED
        BY <4>4, <4>5, <4>6
    <3> QED
      BY <1>4, <3>1, <3>2
  <2>3. KillsToRing'
    BY <2>2 DEF KillsToRing, Rings, Mis, Ys
  <2> QED
    BY <1>1, <2>1, <2>3
<1> QED
  BY <1>2, <1>3, <1>4 DEF OperatorCommand

LEMMA ProcessReady ==
  ASSUME Base, Base', ReadyInv, NEW p \in Process,
         StartProcess(p) \/ ProcessStep(p) \/ TimerFires(p)
  PROVE  ReadyInv'
<1>0. /\ Ring \subseteq Process /\ greetings \subseteq Process /\ Killings' = Killings
      /\ state \in [Process -> {"new", "work", "dead", "crashed"}]
      /\ mi \in [Process -> Nat] /\ mailbox \in [Process -> Seq(Messages)]
  BY BaseFacts DEF Killings, Messages
<1>1. CASE StartProcess(p)
  <2>1. /\ state[p] = "new" /\ \A q \in Process : q # p => state'[q] = state[q]
        /\ state'[p] = "work" /\ greetings' = greetings \cup {p} /\ UNCHANGED <<mailbox, mi>>
        /\ UNCHANGED <<phase, clientList, outbox>> /\ Ring' = Ring
    BY <1>0, <1>1 DEF StartProcess, coordVars, Ring
  <2>2. \A q \in Process : Ready(q) => Ready(q)'
    BY <1>0, <2>1 DEF Ready
  <2>3. Ready(p)'
    BY <1>0, <2>1 DEF Ready, Fresh, ReadyInv
  <2>4. \A q \in greetings' : Ready(q)'
    BY <1>0, <2>1, <2>2, <2>3 DEF ReadyInv
  <2>5. \A q \in Process : state'[q] = "new" => Fresh(q)'
    BY <1>0, <2>1 DEF ReadyInv, Fresh
  <2>6. KillsToRing'
    BY <2>1 DEF ReadyInv, KillsToRing
  <2>7. phase' \in {"init", "calc"} => \A q \in Ring' : Ready(q)'
    BY <1>0, <2>1, <2>2 DEF ReadyInv
  <2> QED
    BY <2>4, <2>5, <2>6, <2>7 DEF ReadyInv
<1>2. CASE TimerFires(p)
  <2>1. UNCHANGED <<phase, clientList, outbox, greetings, state, mi>>
    BY <1>2 DEF TimerFires, coordVars
  <2>2. \A q \in Process : NoKill(mailbox[q], mailbox'[q])
    BY <1>2, TimerMail, NotAKill DEF NoKill
  <2> QED
    BY <2>1, <2>2, MailReady
<1>3. ASSUME NEW i \in DOMAIN mailbox[p]
      PROVE  \A q \in Process : NoKill(mailbox[q], Taken(p, i)[q])
  BY TakenMail DEF NoKill
<1>4. CASE \E i \in DOMAIN mailbox[p] :
             ReceiveSetneighbors(p, i) \/ ReceiveSetpm(p, i) \/ ReceiveTimeout(p, i) \/ ReceiveVote(p, i)
  <2>1. PICK i \in DOMAIN mailbox[p] :
          ReceiveSetneighbors(p, i) \/ ReceiveSetpm(p, i) \/ ReceiveTimeout(p, i) \/ ReceiveVote(p, i)
    BY <1>4
  <2>2. /\ UNCHANGED <<phase, clientList, outbox, greetings, state>> /\ mailbox' = Taken(p, i)
        /\ state[p] = "work"
    BY <2>1 DEF ReceiveSetneighbors, ReceiveSetpm, ReceiveTimeout, ReceiveVote, Receives, coordVars
  <2>3. \A q \in Process : q # p => mi'[q] = mi[q]
    BY <1>0, <2>1 DEF ReceiveSetneighbors, ReceiveSetpm, ReceiveTimeout, ReceiveVote
  <2>4. \A q \in Process : NoKill(mailbox[q], mailbox'[q])
    BY <1>3, <2>2
  <2> QED
    BY <2>2, <2>3, <2>4, MailReady
<1>5. CASE \E i \in DOMAIN mailbox[p] : ReceiveSendy(p, i)
  <2>1. PICK i \in DOMAIN mailbox[p] : ReceiveSendy(p, i)
    BY <1>5
  <2>2. /\ UNCHANGED <<phase, clientList, outbox, greetings, state>> /\ state[p] = "work"
        /\ Receives(p, i, "sendy")
    BY <2>1 DEF ReceiveSendy, Receives, coordVars
  <2>3. \A q \in Process : q # p => mi'[q] = mi[q]
    BY <1>0, <2>1 DEF ReceiveSendy, Reduce
  <2>4. \A q \in Process : NoKill(mailbox[q], mailbox'[q])
    <3>1. CASE Reduce(p, i)
      BY <2>2, <3>1, ReduceMail, NotAKill DEF NoKill
    <3>2. CASE ~ Reduce(p, i)
      BY <1>3, <2>1, <3>2 DEF ReceiveSendy
    <3> QED
      BY <3>1, <3>2
  <2> QED
    BY <2>2, <2>3, <2>4, MailReady
<1>6. CASE \E i \in DOMAIN mailbox[p] : SendyTooEarly(p, i) \/ ReceiveKill(p, i)
  <2>1. PICK i \in DOMAIN mailbox[p] : SendyTooEarly(p, i) \/ ReceiveKill(p, i)
    BY <1>6
  <2>2. PICK how \in {"dead", "crashed"} : End(p, how)
    BY <2>1 DEF SendyTooEarly, ReceiveKill
  <2>3. /\ UNCHANGED <<phase, clientList, outbox, greetings, mi>> /\ Ring' = Ring
        /\ \A q \in Process : q # p => state'[q] = state[q] /\ mailbox'[q] = mailbox[q]
        /\ state'[p] = how /\ mailbox'[p] = << >>
    BY <1>0, <2>2 DEF End, coordVars, Ring
  <2>4. Ready(p) => Ready(p)'
    <3>1. CASE SendyTooEarly(p, i)
      <4>1. mi[p] = 0 /\ state'[p] = "crashed"
        BY <1>0, <3>1 DEF SendyTooEarly, End
      <4> QED
        BY <1>0, <2>3, <4>1 DEF Ready, Has
    <3>2. CASE ReceiveKill(p, i)
      <4>1. mailbox[p][i] \in Messages /\ mailbox[p][i].type = "kill"
        BY <1>0, <3>2 DEF ReceiveKill, Receives
      <4>2. Has(mailbox[p], Killings)
        BY <4>1 DEF Has, Killings
      <4> QED
        BY <4>2 DEF Ready
    <3> QED
      BY <2>1, <3>1, <3>2
  <2>5. \A q \in Process : /\ Ready(q) => Ready(q)'
                           /\ state'[q] = "new" => state[q] = "new" /\ (Fresh(q) => Fresh(q)')
    BY <1>0, <2>3, <2>4 DEF Ready, Fresh
  <2>6. KillsToRing'
    BY <2>3 DEF ReadyInv, KillsToRing
  <2> QED
    BY <2>3, <2>5, <2>6, ReadyStays
<1> QED
  BY <1>1, <1>2, <1>4, <1>5, <1>6 DEF ProcessStep

LEMMA ReadyNext ==
  ASSUME Base, Base', ReadyInv, [Next]_vars
  PROVE  ReadyInv'
<1>1. CASE UNCHANGED vars
  <2>1. UNCHANGED <<phase, clientList, outbox, greetings, state, mi, mailbox>>
    BY <1>1 DEF vars, coordVars, procVars
  <2> QED
    BY <2>1, MailReady DEF NoKill
<1> QED
  BY <1>1, CoordinatorReady, CommandReady, ProcessReady DEF Next

-----------------------------------------------------------------------------
(***************************************************************************)
(* Votes.  own[p]: the vote that p has started since its last value, 0 if  *)
(* it has not; till then a timer of p runs or its timeout waits.  got[p]:  *)
(* who has answered that vote since; rank[p]: when the name service has    *)
(* sent it out, so that a vote reaches every process whose own vote was    *)
(* sent out before.                                                        *)
(***************************************************************************)
Asked(own, p) == own[p] # 0 /\ votes[own[p]].asked

TimersRun(own) ==
  \A p \in Process : own[p] = 0 /\ state[p] = "work" /\ mi[p] # 0 =>
                       timers[p] > 0 \/ Has(mailbox[p], {timeout})

OwnVotes(own, got) ==
  \A p \in Process : own[p] # 0 =>
    /\ own[p] \in DOMAIN votes
    /\ state[p] = "work" /\ consense[p]
    /\ votes[own[p]].mi = mi[p]
    /\ votes[own[p]].needed = 0 \/ votes[own[p]].needed + Cardinality(got[p]) <= Quota

VotesReach(own, got, rank) ==
  \A p, q \in Process :
    Asked(own, p) /\ Asked(own, q) /\ rank[q] <= rank[p] =>
      q \in got[p] \/ Has(mailbox[q], {vote(own[p])})

History(own, got, rank, last) ==
  /\ own \in [Process -> Nat] /\ rank \in [Process -> Nat] /\ last \in Nat
  /\ got \in [Process -> SUBSET Process]
  /\ \A p \in Process : rank[p] <= last /\ IsFiniteSet(got[p])

VoteInv ==
  \E own, got, rank, last :
    /\ History(own, got, rank, last)
    /\ TimersRun(own) /\ OwnVotes(own, got) /\ VotesReach(own, got, rank)

(***************************************************************************)
(* A step after which the processes of Z begin anew and the votes are as   *)
(* before.                                                                 *)
(***************************************************************************)
LEMMA VotesContinue ==
  ASSUME VoteInv, NEW Z, UNCHANGED votes,
         \A p \in Z : state'[p] = "work" /\ mi'[p] # 0 => timers'[p] > 0,
         \A p \in Process \ Z :
           /\ mi'[p] = mi[p]
           /\ state'[p] = "work" /\ mi[p] # 0 => state[p] = "work"
           /\ state[p] = "work" /\ consense[p] => state'[p] = "work" /\ consense'[p]
           /\ timers[p] > 0 \/ Has(mailbox[p], {timeout}) =>
                timers'[p] > 0 \/ Has(mailbox'[p], {timeout})
           /\ consense[p] => \A h : Has(mailbox[p], {vote(h)}) => Has(mailbox'[p], {vote(h)})
  PROVE  VoteInv'
<1>1. PICK own, got, rank, last :
        /\ History(own, got, rank, last)
        /\ TimersRun(own) /\ OwnVotes(own, got) /\ VotesReach(own, got, rank)
  BY DEF VoteInv
<1> DEFINE new == [p \in Process |-> IF p \in Z THEN 0 ELSE own[p]]
<1>2. /\ new \in [Process -> Nat]
      /\ \A p \in Process : new[p] # 0 => p \notin Z /\ new[p] = own[p]
      /\ \A p \in Process : new[p] = 0 => p \in Z \/ own[p] = 0
  BY <1>1 DEF History
<1> HIDE DEF new
<1>3. History(new, got, rank, last)
  BY <1>1, <1>2 DEF History
<1>4. timeout' = timeout /\ \A h : vote(h)' = vote(h)
  BY DEF timeout, vote, Message
<1>5. TimersRun(new)'
  <2> SUFFICES ASSUME NEW p \in Process, new[p] = 0, state'[p] = "work", mi'[p] # 0
               PROVE  timers'[p] > 0 \/ Has(mailbox'[p], {timeout})
    BY <1>4 DEF TimersRun
  <2> QED
    BY <1>1, <1>2 DEF TimersRun
<1>6. OwnVotes(new, got)'
  BY <1>1, <1>2 DEF OwnVotes
<1>7. VotesReach(new, got, rank)'
  <2> SUFFICES ASSUME NEW p \in Process, NEW q \in Process,
                      Asked(new, p)', Asked(new, q)', rank[q] <= rank[p]
               PROVE  q \in got[p] \/ Has(mailbox'[q], {vote(new[p])})
    BY <1>4 DEF VotesReach
  <2>1. /\ Asked(own, p) /\ Asked(own, q) /\ new[p] = own[p] /\ q \notin Z
    BY <1>2 DEF Asked
  <2>2. consense[q]
    BY <1>1, <2>1 DEF OwnVotes, Asked
  <2> QED
    BY <1>1, <2>1, <2>2 DEF VotesReach
<1> QED
  BY <1>3, <1>5, <1>6, <1>7 DEF VoteInv

(***************************************************************************)
(* No process begins anew.                                                 *)
(***************************************************************************)
LEMMA VotesGoOn ==
  ASSUME VoteInv, UNCHANGED <<mi, votes>>,
         \A p \in Process :
           /\ state'[p] = "work" /\ mi[p] # 0 => state[p] = "work"
           /\ state[p] = "work" /\ consense[p] => state'[p] = "work" /\ consense'[p]
           /\ timers[p] > 0 \/ Has(mailbox[p], {timeout}) =>
                timers'[p] > 0 \/ Has(mailbox'[p], {timeout})
           /\ consense[p] => \A h : Has(mailbox[p], {vote(h)}) => Has(mailbox'[p], {vote(h)})
  PROVE  VoteInv'
<1> DEFINE Z == {}
<1>1. /\ \A p \in Z : state'[p] = "work" /\ mi'[p] # 0 => timers'[p] > 0
      /\ \A p \in Process \ Z :
           /\ mi'[p] = mi[p]
           /\ state'[p] = "work" /\ mi[p] # 0 => state[p] = "work"
           /\ state[p] = "work" /\ consense[p] => state'[p] = "work" /\ consense'[p]
           /\ timers[p] > 0 \/ Has(mailbox[p], {timeout}) =>
                timers'[p] > 0 \/ Has(mailbox'[p], {timeout})
           /\ consense[p] => \A h : Has(mailbox[p], {vote(h)}) => Has(mailbox'[p], {vote(h)})
  OBVIOUS
<1> HIDE DEF Z
<1> QED
  BY <1>1, VotesContinue

LEMMA VoteIsOther ==
  /\ \A h : timeout # vote(h)
  /\ \A h, k : vote(h) = vote(k) => h = k
  /\ timeout \notin Ys /\ \A h : vote(h) \notin Ys
  /\ timeout.type = "timeout" /\ \A h : vote(h).type = "vote" /\ vote(h).nr = h
BY DEF timeout, vote, Message, Ys

LEMMA CoordinatorVotes ==
  ASSUME Base, Base', VoteInv, CoordinatorStep \/ OperatorCommand
  PROVE  VoteInv'
<1>1. UNCHANGED <<state, mi, consense, timers, votes>>
  BY DEF CoordinatorStep, SendNext, StartAgain, Hello, BriefMi, OperatorCommand, Step, Calc, Toggle,
     Reset, Kill, procVars
<1>2. \A M : \A q \in Process : Has(mailbox[q], M) => Has(mailbox'[q], M)
  <2> TAKE M
  <2> TAKE q \in Process
  <2>1. CASE SendNext
    <3>1. \A N : \A r \in Process :
            /\ Has(mailbox[r], N) => Has(mailbox'[r], N)
            /\ Has(mailbox'[r], N) => Has(mailbox[r], N) \/ outbox[1].message \in N
      BY <2>1, SendNextMail
    <3> QED
      BY <3>1
  <2>2. CASE ~ SendNext
    <3>1. UNCHANGED mailbox
      BY <2>2 DEF CoordinatorStep, StartAgain, Hello, BriefMi, OperatorCommand, Step, Calc, Toggle,
         Reset, Kill
    <3> QED
      BY <3>1
  <2> QED
    BY <2>1, <2>2
<1> QED
  BY <1>1, <1>2, VotesGoOn

LEMMA StartVotes ==
  ASSUME Base, ReadyInv, VoteInv, NEW p \in Process, StartProcess(p)
  PROVE  VoteInv'
<1>1. /\ UNCHANGED <<mi, consense, timers, votes, mailbox>>
      /\ state[p] = "new" /\ mi[p] = 0
      /\ \A q \in Process : q # p => state'[q] = state[q]
  BY BaseFacts DEF StartProcess, ReadyInv, Fresh
<1> QED
  BY <1>1, VotesGoOn

LEMMA TimerVotes ==
  ASSUME Base, VoteInv, NEW p \in Process, TimerFires(p)
  PROVE  VoteInv'
<1>1. UNCHANGED <<state, mi, consense, votes>> /\ \A q \in Process : q # p => timers'[q] = timers[q]
  BY DEF TimerFires, Base, ValuesIn, ProcessesOK
<1>2. /\ \A q \in Process : q # p => mailbox'[q] = mailbox[q]
      /\ Has(mailbox'[p], {timeout})
      /\ \A M : Has(mailbox[p], M) => Has(mailbox'[p], M)
  BY TimerMail
<1>3. \A q \in Process : \A h : Has(mailbox[q], {vote(h)}) => Has(mailbox'[q], {vote(h)})
  BY <1>2
<1>4. \A q \in Process : timers[q] > 0 \/ Has(mailbox[q], {timeout}) =>
                           timers'[q] > 0 \/ Has(mailbox'[q], {timeout})
  BY <1>1, <1>2
<1> QED
  BY <1>1, <1>3, <1>4, VotesGoOn

(***************************************************************************)
(* A new value, a neighbor's value and new neighbors make a process begin  *)
(* anew; the end of a process ends its part.                               *)
(***************************************************************************)
LEMMA AnewVotes ==
  ASSUME Base, Base', VoteInv, NEW p \in Process, NEW i \in DOMAIN mailbox[p],
         \/ ReceiveSetneighbors(p, i) \/ ReceiveSetpm(p, i) \/ ReceiveSendy(p, i)
         \/ SendyTooEarly(p, i) \/ ReceiveKill(p, i)
  PROVE  VoteInv'
<1>0. /\ state \in [Process -> {"new", "work", "dead", "crashed"}]
      /\ mi \in [Process -> Nat] /\ mailbox \in [Process -> Seq(Messages)]
      /\ timers \in [Process -> Nat] /\ consense \in [Process -> BOOLEAN]
  BY BaseFacts DEF Base, ValuesIn, ProcessesOK
<1>1. ASSUME UNCHANGED <<state, votes>>, state[p] = "work",
             mi'[p] = 0 \/ timers'[p] > 0,
             \A q \in Process : q # p => /\ mi'[q] = mi[q] /\ timers'[q] = timers[q]
                                         /\ consense'[q] = consense[q],
             \A M : \A q \in Process :
               q # p /\ M \cap Ys = {} /\ Has(mailbox[q], M) => Has(mailbox'[q], M)
      PROVE  VoteInv'
  <2>1. \A q \in Process : q # p => /\ Has(mailbox[q], {timeout}) => Has(mailbox'[q], {timeout})
                                    /\ \A h : Has(mailbox[q], {vote(h)}) => Has(mailbox'[q], {vote(h)})
    <3>1. {timeout} \cap Ys = {} /\ \A h : {vote(h)} \cap Ys = {}
      BY VoteIsOther
    <3> QED
      BY <1>1, <3>1
  <2> DEFINE Z == {p}
  <2>2. \A q \in Process \ Z :
           /\ mi'[q] = mi[q]
           /\ state'[q] = "work" /\ mi[q] # 0 => state[q] = "work"
           /\ state[q] = "work" /\ consense[q] => state'[q] = "work" /\ consense'[q]
           /\ timers[q] > 0 \/ Has(mailbox[q], {timeout}) =>
                timers'[q] > 0 \/ Has(mailbox'[q], {timeout})
           /\ consense[q] => \A h : Has(mailbox[q], {vote(h)}) => Has(mailbox'[q], {vote(h)})
    BY <1>1, <2>1
  <2>3. \A q \in Z : state'[q] = "work" /\ mi'[q] # 0 => timers'[q] > 0
    BY <1>1
  <2> HIDE DEF Z
  <2> QED
    BY <1>1, <2>2, <2>3, VotesContinue
<1>2. \A M : \A q \in Process : q # p /\ Has(mailbox[q], M) => Has(Taken(p, i)[q], M)
  BY TakenMail
<1>3. CASE ReceiveSetneighbors(p, i)
  <2>1. /\ UNCHANGED <<state, votes, timers, consense>> /\ state[p] = "work" /\ mailbox' = Taken(p, i)
        /\ mi' = [mi EXCEPT ![p] = 0]
    BY <1>3 DEF ReceiveSetneighbors, Receives
  <2>2. mi'[p] = 0 /\ \A q \in Process : q # p => mi'[q] = mi[q]
    BY <1>0, <2>1
  <2> QED
    BY <1>1, <1>2, <2>1, <2>2
<1>4. ASSUME Restart(p)
      PROVE  /\ timers'[p] > 0
             /\ \A q \in Process : q # p => timers'[q] = timers[q] /\ consense'[q] = consense[q]
  <2>1. timers' = [timers EXCEPT ![p] = timers[p] + 1] /\ consense' = [consense EXCEPT ![p] = FALSE]
    BY <1>4 DEF Restart
  <2>2. timers[p] \in Nat /\ timers'[p] = timers[p] + 1
    BY <1>0, <2>1
  <2>3. \A q \in Process : q # p => timers'[q] = timers[q] /\ consense'[q] = consense[q]
    BY <1>0, <2>1
  <2> QED
    BY <2>2, <2>3
<1>5. CASE ReceiveSetpm(p, i)
  <2>1. /\ UNCHANGED <<state, votes>> /\ state[p] = "work" /\ mailbox' = Taken(p, i) /\ Restart(p)
        /\ \A q \in Process : q # p => mi'[q] = mi[q]
    BY <1>0, <1>5 DEF ReceiveSetpm, Receives
  <2> QED
    BY <1>1, <1>2, <1>4, <2>1
<1>6. CASE ReceiveSendy(p, i)
  <2>1. /\ UNCHANGED <<state, votes>> /\ state[p] = "work" /\ Restart(p)
        /\ Receives(p, i, "sendy")
        /\ \A q \in Process : q # p => mi'[q] = mi[q]
    BY <1>0, <1>6 DEF ReceiveSendy, Receives, Reduce
  <2>2. \A M : \A q \in Process :
          q # p /\ M \cap Ys = {} /\ Has(mailbox[q], M) => Has(mailbox'[q], M)
    <3> TAKE M
    <3> TAKE q \in Process
    <3>1. CASE Reduce(p, i)
      <4>1. \A N : \A r \in Process :
              /\ N \cap Ys = {} /\ Has(mailbox[r], N) => Has(mailbox'[r], N)
              /\ N \cap Ys = {} /\ Has(mailbox'[r], N) => Has(mailbox[r], N)
        BY <2>1, <3>1, ReduceMail
      <4> QED
        BY <4>1
    <3>2. CASE ~ Reduce(p, i)
      BY <1>2, <1>6, <3>2 DEF ReceiveSendy
    <3> QED
      BY <3>1, <3>2
  <2> QED
    BY <1>1, <1>4, <2>1, <2>2
<1>7. CASE SendyTooEarly(p, i) \/ ReceiveKill(p, i)
  <2>1. PICK how \in {"dead", "crashed"} : End(p, how)
    BY <1>7 DEF SendyTooEarly, ReceiveKill
  <2>2. /\ UNCHANGED <<mi, timers, consense, votes>> /\ state'[p] # "work"
        /\ \A q \in Process : q # p => state'[q] = state[q] /\ mailbox'[q] = mailbox[q]
    BY <1>0, <2>1 DEF End
  <2> DEFINE Z == {p}
  <2>3. \A q \in Process \ Z :
           /\ mi'[q] = mi[q]
           /\ state'[q] = "work" /\ mi[q] # 0 => state[q] = "work"
           /\ state[q] = "work" /\ consense[q] => state'[q] = "work" /\ consense'[q]
           /\ timers[q] > 0 \/ Has(mailbox[q], {timeout}) =>
                timers'[q] > 0 \/ Has(mailbox'[q], {timeout})
           /\ consense[q] => \A h : Has(mailbox[q], {vote(h)}) => Has(mailbox'[q], {vote(h)})
    BY <2>2
  <2>4. \A q \in Z : state'[q] = "work" /\ mi'[q] # 0 => timers'[q] > 0
    BY <2>2
  <2> HIDE DEF Z
  <2> QED
    BY <2>2, <2>3, <2>4, VotesContinue
<1> QED
  BY <1>3, <1>5, <1>6, <1>7

LEMMA TimeoutVotes ==
  ASSUME Base, VoteInv, NEW p \in Process, NEW i \in DOMAIN mailbox[p], ReceiveTimeout(p, i)
  PROVE  VoteInv'
<1>0. /\ mailbox \in [Process -> Seq(Messages)]
      /\ timers \in [Process -> Nat] /\ consense \in [Process -> BOOLEAN]
      /\ votes \in Seq(Ballot(Positive))
  BY BaseFacts DEF Base, ValuesIn, ProcessesOK, VotesOK
<1>1. /\ UNCHANGED <<state, mi>> /\ mailbox' = Taken(p, i) /\ state[p] = "work"
      /\ consense' = [consense EXCEPT ![p] = TRUE] /\ mailbox[p][i].type = "timeout"
  BY DEF ReceiveTimeout, Receives
<1>2. consense'[p] /\ \A q \in Process : q # p => consense'[q] = consense[q]
  BY <1>0, <1>1
<1>3. /\ \A q \in Process : q # p => mailbox'[q] = mailbox[q]
      /\ \A q \in Process : \A h : Has(mailbox[q], {vote(h)}) => Has(mailbox'[q], {vote(h)})
  <2>1. /\ \A q \in Process : q # p => mailbox'[q] = mailbox[q]
        /\ \A M : Has(mailbox[p], M) /\ mailbox[p][i] \notin M => Has(mailbox'[p], M)
    BY <1>1, TakenMail
  <2>2. \A h : mailbox[p][i] \notin {vote(h)}
    BY <1>1, VoteIsOther
  <2> QED
    BY <2>1, <2>2
<1>4. CASE ~ consense[p]
  <2>1. timers' = [timers EXCEPT ![p] = timers[p] + 1] /\ UNCHANGED votes
    BY <1>4 DEF ReceiveTimeout
  <2>2. /\ timers[p] \in Nat /\ timers'[p] = timers[p] + 1
        /\ \A q \in Process : q # p => timers'[q] = timers[q]
    BY <1>0, <2>1
  <2> QED
    BY <1>1, <1>2, <1>3, <2>1, <2>2, VotesGoOn
<1>5. CASE consense[p]
  <2>1. /\ votes' = Append(votes, [mi |-> mi[p], needed |-> Quota, asked |-> FALSE])
        /\ UNCHANGED timers
    BY <1>5 DEF ReceiveTimeout
  <2>2. PICK own, got, rank, last :
          /\ History(own, got, rank, last)
          /\ TimersRun(own) /\ OwnVotes(own, got) /\ VotesReach(own, got, rank)
    BY DEF VoteInv
  <2>3. PICK n \in Nat : n = Len(votes) + 1
    BY <1>0
  <2>4. /\ n # 0 /\ n \in DOMAIN votes'
        /\ votes'[n] = [mi |-> mi[p], needed |-> Quota, asked |-> FALSE]
        /\ \A h \in DOMAIN votes : h # n /\ h \in DOMAIN votes' /\ votes'[h] = votes[h]
    BY <1>0, <2>1, <2>3
  <2> DEFINE new == [q \in Process |-> IF q = p THEN n ELSE own[q]]
             heard == [q \in Process |-> IF q = p THEN {} ELSE got[q]]
  <2>5. /\ new \in [Process -> Nat] /\ new[p] = n
        /\ \A q \in Process : q # p => new[q] = own[q] /\ heard[q] = got[q]
        /\ heard[p] = {} /\ heard \in [Process -> SUBSET Process]
    BY <2>2 DEF History
  <2> HIDE DEF new, heard
  <2>6. IsFiniteSet({}) /\ Cardinality({}) = 0 /\ Quota \in Nat
    BY FS_EmptySet, GGTAssumption
  <2>7. History(new, heard, rank, last)
    BY <2>2, <2>5, <2>6 DEF History
  <2>8. timeout' = timeout /\ \A h : vote(h)' = vote(h)
    BY DEF timeout, vote, Message
  <2>9. TimersRun(new)'
    BY <1>1, <1>3, <2>1, <2>2, <2>4, <2>5, <2>8 DEF TimersRun
  <2>10. OwnVotes(new, heard)'
    <3> SUFFICES ASSUME NEW q \in Process, new[q] # 0
                 PROVE  /\ new[q] \in DOMAIN votes'
                        /\ state'[q] = "work" /\ consense'[q]
                        /\ votes'[new[q]].mi = mi'[q]
                        /\ \/ votes'[new[q]].needed = 0
                           \/ votes'[new[q]].needed + Cardinality(heard[q]) <= Quota
      BY DEF OwnVotes
    <3>1. CASE q = p
      <4>1. new[q] = n /\ n \in DOMAIN votes' /\ state'[q] = "work" /\ consense'[q] /\ mi'[q] = mi[p]
        BY <1>1, <1>2, <2>4, <2>5, <3>1
      <4>2. votes'[n].mi = mi[p] /\ votes'[n].needed = Quota
        BY <2>4
      <4>3. Cardinality(heard[q]) = 0 /\ Quota + 0 <= Quota
        BY <2>5, <2>6, <3>1
      <4> QED
        BY <4>1, <4>2, <4>3
    <3>2. CASE q # p
      BY <1>1, <1>2, <2>2, <2>4, <2>5, <3>2 DEF OwnVotes
    <3> QED
      BY <3>1, <3>2
  <2>11. VotesReach(new, heard, rank)'
    <3> SUFFICES ASSUME NEW a \in Process, NEW b \in Process,
                        Asked(new, a)', Asked(new, b)', rank[b] <= rank[a]
                 PROVE  b \in heard[a] \/ Has(mailbox'[b], {vote(new[a])})
      BY <2>8 DEF VotesReach
    <3>1. ~ votes'[n].asked
      BY <2>4
    <3>2. a # p /\ b # p
      BY <2>5, <3>1 DEF Asked
    <3>3. Asked(own, a) /\ Asked(own, b)
      BY <2>2, <2>4, <2>5, <3>2 DEF Asked, OwnVotes
    <3> QED
      BY <1>3, <2>2, <2>5, <3>2, <3>3 DEF VotesReach
  <2> QED
    BY <2>7, <2>9, <2>10, <2>11 DEF VoteInv
<1> QED
  BY <1>0, <1>4, <1>5

LEMMA MulticastVotes ==
  ASSUME Base, Base', VoteInv, NEW h \in DOMAIN votes, Multicast(h)
  PROVE  VoteInv'
<1>0. votes \in Seq(Ballot(Positive))
  BY DEF Base, ValuesIn, VotesOK
<1>1. /\ UNCHANGED <<state, mi, timers, consense>>
      /\ votes' = [votes EXCEPT ![h].asked = TRUE]
  BY DEF Multicast, procVars
<1>2. /\ DOMAIN votes' = DOMAIN votes
      /\ \A k \in DOMAIN votes : /\ votes'[k].mi = votes[k].mi /\ votes'[k].needed = votes[k].needed
                                 /\ k # h => votes'[k].asked = votes[k].asked
  <2>1. votes' = [votes EXCEPT ![h] = [votes[h] EXCEPT !.asked = TRUE]]
    BY <1>1
  <2>2. votes[h] \in Ballot(Positive)
    BY <1>0
  <2>3. PICK b : b = [votes[h] EXCEPT !.asked = TRUE]
    OBVIOUS
  <2>4. b.mi = votes[h].mi /\ b.needed = votes[h].needed
    BY <2>2, <2>3 DEF Ballot
  <2>5. votes' = [votes EXCEPT ![h] = b]
    BY <2>1, <2>3
  <2>6. /\ DOMAIN votes' = DOMAIN votes /\ votes'[h] = b
        /\ \A k \in DOMAIN votes : k # h => votes'[k] = votes[k]
    BY <1>0, <2>5
  <2> QED
    BY <2>4, <2>6
<1>3. PICK own, got, rank, last :
        /\ History(own, got, rank, last)
        /\ TimersRun(own) /\ OwnVotes(own, got) /\ VotesReach(own, got, rank)
  BY DEF VoteInv
<1> DEFINE later == [q \in Process |-> IF own[q] = h THEN last + 1 ELSE rank[q]]
<1>4. /\ later \in [Process -> Nat] /\ last + 1 \in Nat
      /\ \A q \in Process : /\ own[q] = h => later[q] = last + 1
                            /\ own[q] # h => later[q] = rank[q]
                            /\ later[q] <= last + 1 /\ rank[q] <= last
                            /\ rank[q] \in Nat /\ last \in Nat
  BY <1>3 DEF History
<1> HIDE DEF later
<1>5. History(own, got, later, last + 1)
  BY <1>3, <1>4 DEF History
<1>6. timeout' = timeout /\ \A k : vote(k)' = vote(k)
  BY DEF timeout, vote, Message
<1>7. /\ \A M : \A q \in Process : Has(mailbox[q], M) => Has(mailbox'[q], M)
      /\ \A q \in Process : state[q] = "work" => Has(mailbox'[q], {vote(h)})
  <2>1. \A M : \A q \in Process :
          /\ Has(mailbox[q], M) => Has(mailbox'[q], M)
          /\ Has(mailbox'[q], M) => Has(mailbox[q], M) \/ vote(h) \in M
    BY MulticastMail
  <2>2. \A q \in Process : state[q] = "work" => Has(mailbox'[q], {vote(h)})
    BY MulticastMail
  <2> QED
    BY <2>1, <2>2
<1>8. TimersRun(own)'
  BY <1>1, <1>3, <1>6, <1>7 DEF TimersRun
<1>9. OwnVotes(own, got)'
  BY <1>1, <1>2, <1>3 DEF OwnVotes
<1>10. VotesReach(own, got, later)'
  <2> SUFFICES ASSUME NEW p \in Process, NEW q \in Process,
                      Asked(own, p)', Asked(own, q)', later[q] <= later[p]
               PROVE  q \in got[p] \/ Has(mailbox'[q], {vote(own[p])})
    BY <1>6 DEF VotesReach
  <2>1. state[q] = "work" /\ own[p] \in DOMAIN votes /\ own[q] \in DOMAIN votes
    BY <1>3 DEF Asked, OwnVotes
  <2>2. CASE own[p] = h
    BY <1>7, <2>1, <2>2
  <2>3. CASE own[p] # h
    <3>1. own[q] # h
      BY <1>4, <2>3
    <3>2. Asked(own, p) /\ Asked(own, q) /\ rank[q] <= rank[p]
      BY <1>2, <1>4, <2>1, <2>3, <3>1 DEF Asked
    <3> QED
      BY <1>3, <1>7, <3>2 DEF VotesReach
  <2> QED
    BY <2>2, <2>3
<1> QED
  BY <1>5, <1>8, <1>9, <1>10 DEF VoteInv

(***************************************************************************)
(* An answer counts a vote down and adds to those who have answered it; a  *)
(* process without Consense has no vote of its own that the one it leaves  *)
(* unanswered would have to reach.                                         *)
(***************************************************************************)
LEMMA AnswerVotes ==
  ASSUME Base, VoteInv, NEW p \in Process, NEW i \in DOMAIN mailbox[p], ReceiveVote(p, i)
  PROVE  VoteInv'
<1>0. /\ mailbox \in [Process -> Seq(Messages)] /\ mailbox[p] \in Seq(Messages)
      /\ consense \in [Process -> BOOLEAN] /\ votes \in Seq(Ballot(Positive))
  BY BaseFacts DEF Base, ValuesIn, ProcessesOK, VotesOK
<1>1. /\ UNCHANGED <<state, mi, timers>> /\ mailbox' = Taken(p, i) /\ state[p] = "work"
      /\ consense' = [consense EXCEPT ![p] = TRUE] /\ mailbox[p][i].type = "vote"
  BY DEF ReceiveVote, Receives
<1>2. consense'[p] /\ \A q \in Process : q # p => consense'[q] = consense[q]
  BY <1>0, <1>1
<1>3. /\ \A q \in Process : q # p => mailbox'[q] = mailbox[q]
      /\ \A M : Has(mailbox[p], M) /\ mailbox[p][i] \notin M => Has(mailbox'[p], M)
  BY <1>1, TakenMail
<1>4. \A q \in Process : Has(mailbox[q], {timeout}) => Has(mailbox'[q], {timeout})
  <2>1. mailbox[p][i] \notin {timeout}
    BY <1>1, VoteIsOther
  <2> QED
    BY <1>3, <2>1
<1>5. CASE ~ consense[p]
  <2>1. UNCHANGED votes
    BY <1>5 DEF ReceiveVote
  <2>2. \A q \in Process : consense[q] => q # p
    BY <1>5
  <2> QED
    BY <1>1, <1>2, <1>3, <1>4, <2>1, <2>2, VotesGoOn
<1>6. CASE consense[p]
  <2>1. PICK h \in Nat : h = mailbox[p][i].nr
    <3>1. mailbox[p][i] \in Messages
      BY <1>0
    <3> QED
      BY <3>1 DEF Messages
  <2>2. votes' = [votes EXCEPT ![h] = [votes[h] EXCEPT !.needed = voteHandler(votes[h].needed)]]
    BY <1>6, <2>1 DEF ReceiveVote
  <2>3. /\ DOMAIN votes' = DOMAIN votes
        /\ \A k \in DOMAIN votes : /\ votes'[k].mi = votes[k].mi /\ votes'[k].asked = votes[k].asked
                                   /\ k # h => votes'[k].needed = votes[k].needed
                                   /\ k = h => votes'[k].needed = voteHandler(votes[k].needed)
    <3>1. PICK b : b = [votes[h] EXCEPT !.needed = voteHandler(votes[h].needed)]
      OBVIOUS
    <3>2. votes' = [votes EXCEPT ![h] = b]
      BY <2>2, <3>1
    <3>3. /\ DOMAIN votes' = DOMAIN votes
          /\ \A k \in DOMAIN votes : /\ k # h => votes'[k] = votes[k]
                                     /\ k = h => votes'[k] = b
      BY <1>0, <3>2
    <3>4. h \in DOMAIN votes => /\ b.mi = votes[h].mi /\ b.asked = votes[h].asked
                                /\ b.needed = voteHandler(votes[h].needed)
      <4> SUFFICES ASSUME h \in DOMAIN votes
                   PROVE  /\ b.mi = votes[h].mi /\ b.asked = votes[h].asked
                          /\ b.needed = voteHandler(votes[h].needed)
        OBVIOUS
      <4>1. votes[h] \in Ballot(Positive)
        BY <1>0
      <4> QED
        BY <3>1, <4>1 DEF Ballot
    <3> QED
      BY <3>3, <3>4
  <2>4. PICK own, got, rank, last :
          /\ History(own, got, rank, last)
          /\ TimersRun(own) /\ OwnVotes(own, got) /\ VotesReach(own, got, rank)
    BY DEF VoteInv
  <2> DEFINE heard == [q \in Process |-> IF own[q] = h THEN got[q] \cup {p} ELSE got[q]]
  <2>5. /\ heard \in [Process -> SUBSET Process]
        /\ \A q \in Process : /\ own[q] = h => heard[q] = got[q] \cup {p}
                              /\ own[q] # h => heard[q] = got[q]
                              /\ got[q] \subseteq heard[q] /\ IsFiniteSet(got[q])
    BY <2>4 DEF History
  <2> HIDE DEF heard
  <2>6. \A S : IsFiniteSet(S) =>
          /\ IsFiniteSet(S \cup {p}) /\ Cardinality(S) \in Nat /\ Cardinality(S \cup {p}) \in Nat
          /\ Cardinality(S \cup {p}) <= Cardinality(S) + 1
    <3> TAKE S
    <3> SUFFICES ASSUME IsFiniteSet(S)
                 PROVE  /\ IsFiniteSet(S \cup {p}) /\ Cardinality(S) \in Nat
                        /\ Cardinality(S \cup {p}) \in Nat
                        /\ Cardinality(S \cup {p}) <= Cardinality(S) + 1
      OBVIOUS
    <3>1. /\ IsFiniteSet(S \cup {p})
          /\ Cardinality(S \cup {p}) = IF p \in S THEN Cardinality(S) ELSE Cardinality(S) + 1
      BY FS_AddElement
    <3>2. Cardinality(S) \in Nat
      BY FS_CardinalityType
    <3> QED
      BY <3>1, <3>2
  <2>7. History(own, heard, rank, last)
    <3>1. \A q \in Process : IsFiniteSet(heard[q])
      BY <2>5, <2>6
    <3> QED
      BY <2>4, <2>5, <3>1 DEF History
  <2>8. timeout' = timeout /\ \A k : vote(k)' = vote(k)
    BY DEF timeout, vote, Message
  <2>9. TimersRun(own)'
    BY <1>1, <1>4, <2>4, <2>8 DEF TimersRun
  <2>10. OwnVotes(own, heard)'
    <3> SUFFICES ASSUME NEW q \in Process, own[q] # 0
                 PROVE  /\ own[q] \in DOMAIN votes'
                        /\ state'[q] = "work" /\ consense'[q]
                        /\ votes'[own[q]].mi = mi'[q]
                        /\ \/ votes'[own[q]].needed = 0
                           \/ votes'[own[q]].needed + Cardinality(heard[q]) <= Quota
      BY DEF OwnVotes
    <3>1. /\ own[q] \in DOMAIN votes /\ state[q] = "work" /\ consense[q]
          /\ votes[own[q]].mi = mi[q]
          /\ votes[own[q]].needed = 0 \/ votes[own[q]].needed + Cardinality(got[q]) <= Quota
      BY <2>4 DEF OwnVotes
    <3>2. CASE own[q] # h
      BY <1>1, <1>2, <2>3, <2>5, <3>1, <3>2
    <3>3. CASE own[q] = h
      <4>1. votes[own[q]] \in Ballot(Positive)
        BY <1>0, <3>1
      <4>2. PICK n \in 0..Quota : n = votes[own[q]].needed
        BY <4>1 DEF Ballot
      <4>3. voteHandler(n) \in {0, n - 1} /\ voteHandler(n) >= 0 /\ voteHandler(n) >= n - 1
        <5>1. 0 \in Int /\ n - 1 \in Int
          BY <4>2
        <5> QED
          BY <5>1, MaxOfTwo DEF voteHandler
      <4>4. votes'[own[q]].needed = voteHandler(n) /\ heard[q] = got[q] \cup {p}
        BY <2>3, <2>5, <3>1, <3>3, <4>2
      <4>5. PICK c \in Nat, d \in Nat :
              c = Cardinality(got[q]) /\ d = Cardinality(got[q] \cup {p}) /\ d <= c + 1
        BY <2>5, <2>6
      <4>6. n = 0 \/ n + c <= Quota
        BY <3>1, <4>2, <4>5
      <4>7. Quota \in Nat /\ n \in Int /\ n >= 0
        BY GGTAssumption, <4>2
      <4>8. voteHandler(n) = 0 \/ voteHandler(n) + d <= Quota
        BY <4>3, <4>5, <4>6, <4>7
      <4> QED
        BY <1>1, <1>2, <2>3, <3>1, <4>4, <4>5, <4>8
    <3> QED
      BY <3>2, <3>3
  <2>11. VotesReach(own, heard, rank)'
    <3> SUFFICES ASSUME NEW a \in Process, NEW b \in Process,
                        Asked(own, a)', Asked(own, b)', rank[b] <= rank[a]
                 PROVE  b \in heard[a] \/ Has(mailbox'[b], {vote(own[a])})
      BY <2>8 DEF VotesReach
    <3>1. Asked(own, a) /\ Asked(own, b)
      BY <2>3, <2>4 DEF Asked, OwnVotes
    <3>2. b \in got[a] \/ Has(mailbox[b], {vote(own[a])})
      BY <2>4, <3>1 DEF VotesReach
    <3>3. CASE b = p /\ own[a] = h
      BY <2>5, <3>3
    <3>4. CASE b = p /\ own[a] # h
      <4>1. mailbox[p][i] \notin {vote(own[a])}
        BY <2>1, <3>4, VoteIsOther
      <4> QED
        BY <1>3, <2>5, <3>2, <3>4, <4>1
    <3>5. CASE b # p
      BY <1>3, <2>5, <3>2, <3>5
    <3> QED
      BY <3>3, <3>4, <3>5
  <2> QED
    BY <2>7, <2>9, <2>10, <2>11 DEF VoteInv
<1> QED
  BY <1>0, <1>5, <1>6

LEMMA VotesNext ==
  ASSUME Base, Base', ReadyInv, VoteInv, [Next]_vars
  PROVE  VoteInv'
<1>1. CASE UNCHANGED vars
  BY <1>1, VotesGoOn DEF vars, procVars
<1>2. CASE CoordinatorStep \/ OperatorCommand
  BY <1>2, CoordinatorVotes
<1>3. CASE \E h \in DOMAIN votes : Multicast(h)
  BY <1>3, MulticastVotes
<1>4. CASE \E p \in Process : StartProcess(p) \/ TimerFires(p)
  BY <1>4, StartVotes, TimerVotes
<1>5. CASE \E p \in Process : ProcessStep(p)
  BY <1>5, AnewVotes, TimeoutVotes, AnswerVotes DEF ProcessStep
<1> QED
  BY <1>1, <1>2, <1>3, <1>4, <1>5 DEF Next

(***************************************************************************)
(* Among the processes of the ring one has the vote that was sent out last *)
(* and had an answer from all of them.                                     *)
(***************************************************************************)
LEMMA LargestOf ==
  ASSUME NEW S, S # {}, NEW f \in [S -> Nat], NEW last \in Nat, \A x \in S : f[x] <= last
  PROVE  \E x \in S : \A y \in S : f[y] <= f[x]
<1> DEFINE below == {last - f[x] : x \in S}
<1>1. \A x \in S : f[x] \in Nat /\ last - f[x] \in Nat
  OBVIOUS
<1>2. below \in SUBSET Nat /\ below # {}
  BY <1>1
<1>3. \A x \in S : last - f[x] \in below
  OBVIOUS
<1>4. \A b \in below : \E x \in S : b = last - f[x]
  OBVIOUS
<1> HIDE DEF below
<1>5. PICK m \in below : \A b \in below : m <= b
  BY <1>2, MinLeast
<1>6. PICK x \in S : m = last - f[x]
  BY <1>4, <1>5
<1>7. \A y \in S : f[y] <= f[x]
  BY <1>1, <1>3, <1>5, <1>6
<1> QED
  BY <1>7

LEMMA EndReported ==
  ASSUME Base, ReadyInv, VoteInv, Quota <= Cardinality(Ring), Quiet, VotesTaken
  PROVE  \E h \in DOMAIN votes : votes[h].needed = 0 /\ \E p \in Ring : votes[h].mi = mi[p]
<1>1. PICK own, got, rank, last :
        /\ History(own, got, rank, last)
        /\ TimersRun(own) /\ OwnVotes(own, got) /\ VotesReach(own, got, rank)
  BY DEF VoteInv
<1>2. /\ Ring \subseteq Process /\ clientList \in Seq(Process) /\ votes \in Seq(Ballot(Positive))
      /\ IsInjective(clientList) /\ phase = "calc" /\ Len(clientList) >= 2
  BY BaseFacts DEF Base, ValuesIn, CoordinatorOK, VotesOK, Quiet
<1>3. \A p \in Ring : own[p] # 0
  <2> SUFFICES ASSUME NEW p \in Ring, own[p] = 0
               PROVE  FALSE
    OBVIOUS
  <2>1. mi[p] # 0 /\ timers[p] = 0 /\ mailbox[p] = << >>
    BY DEF Quiet, VotesTaken
  <2>2. state[p] = "work"
    BY <1>2, <2>1 DEF ReadyInv, Ready
  <2>3. timers[p] > 0 \/ Has(mailbox[p], {timeout})
    BY <1>1, <1>2, <2>1, <2>2 DEF TimersRun
  <2> QED
    BY <2>1, <2>3 DEF Has
<1>4. \A p \in Ring : Asked(own, p)
  BY <1>1, <1>2, <1>3 DEF Asked, OwnVotes, VotesTaken
<1>5. PICK p \in Ring : \A q \in Ring : rank[q] <= rank[p]
  <2> DEFINE f == [x \in Ring |-> rank[x]]
  <2>1. f \in [Ring -> Nat] /\ last \in Nat /\ \A x \in Ring : f[x] = rank[x] /\ f[x] <= last
    BY <1>1, <1>2 DEF History
  <2>2. Ring # {}
    BY <1>2 DEF Ring
  <2> HIDE DEF f
  <2>3. PICK S : S = Ring
    OBVIOUS
  <2>4. PICK g : g = f
    OBVIOUS
  <2>5. \E x \in S : \A y \in S : g[y] <= g[x]
    BY <2>1, <2>2, <2>3, <2>4, LargestOf
  <2> QED
    BY <2>1, <2>3, <2>4, <2>5
<1>6. Ring \subseteq got[p]
  <2> SUFFICES ASSUME NEW q \in Ring
               PROVE  q \in got[p]
    OBVIOUS
  <2>1. q \in got[p] \/ Has(mailbox[q], {vote(own[p])})
    BY <1>1, <1>2, <1>4, <1>5 DEF VotesReach
  <2>2. mailbox[q] = << >>
    BY DEF VotesTaken
  <2> QED
    BY <2>1, <2>2 DEF Has
<1>7. /\ Cardinality(Ring) \in Nat /\ Cardinality(got[p]) \in Nat
      /\ Cardinality(Ring) <= Cardinality(got[p])
  <2>1. IsFiniteSet(got[p])
    BY <1>1, <1>2 DEF History
  <2> QED
    BY <1>6, <2>1, FS_Subset, FS_CardinalityType
<1>8. /\ own[p] \in DOMAIN votes /\ votes[own[p]].mi = mi[p]
      /\ votes[own[p]].needed = 0 \/ votes[own[p]].needed + Cardinality(got[p]) <= Quota
  BY <1>1, <1>2, <1>3 DEF OwnVotes
<1>9. votes[own[p]].needed = 0
  <2>1. votes[own[p]] \in Ballot(Positive)
    BY <1>2, <1>8
  <2>2. PICK n \in 0..Quota : n = votes[own[p]].needed
    BY <2>1 DEF Ballot
  <2>3. Quota \in Nat
    BY GGTAssumption
  <2> QED
    BY <1>7, <1>8, <2>2, <2>3
<1> QED
  BY <1>8, <1>9

LEMMA VotesInit ==
  ASSUME Init
  PROVE  Base /\ ReadyInv /\ VoteInv
<1>1. Base
  BY OnOneNodeInit DEF OnOneNode
<1>2. ReadyInv
  BY DEF Init, ReadyInv, KillsToRing, Fresh, Has, Ring
<1>3. VoteInv
  <2> DEFINE none == [p \in Process |-> 0]
             nobody == [p \in Process |-> {}]
  <2>1. none \in [Process -> Nat] /\ \A p \in Process : none[p] = 0
    OBVIOUS
  <2>2. nobody \in [Process -> SUBSET Process] /\ \A p \in Process : nobody[p] = {}
    OBVIOUS
  <2> HIDE DEF none, nobody
  <2>3. 0 \in Nat /\ 0 <= 0 /\ IsFiniteSet({})
    BY FS_EmptySet
  <2>4. History(none, nobody, none, 0)
    BY <2>1, <2>2, <2>3 DEF History
  <2>5. TimersRun(none) /\ OwnVotes(none, nobody) /\ VotesReach(none, nobody, none)
    BY <2>1 DEF Init, TimersRun, OwnVotes, VotesReach, Asked
  <2> QED
    BY <2>4, <2>5 DEF VoteInv
<1> QED
  BY <1>1, <1>2, <1>3

(***************************************************************************)
(* The end of a calculation is reported, in any order of the messages and  *)
(* through any number of calculations and resets, if the coordinator's     *)
(* quota is no more than the processes of the ring: of the processes that  *)
(* start a vote the one whose vote is sent out last is answered by all of  *)
(* them, because each has Consense by then.                                *)
(***************************************************************************)
THEOREM EndIsKnown == Spec => [](Quota <= Cardinality(Ring) => EndIsReported)
<1> DEFINE Inv == Base /\ ReadyInv /\ VoteInv
<1>1. Init => Inv
  BY VotesInit
<1>2. Inv /\ [Next]_vars => Inv'
  <2> SUFFICES ASSUME Inv, [Next]_vars
               PROVE  Inv'
    OBVIOUS
  <2>1. Base'
    BY ClosedPositive, ValuesNext DEF Base, Positive
  <2> QED
    BY <2>1, ReadyNext, VotesNext
<1>3. Inv => (Quota <= Cardinality(Ring) => EndIsReported)
  BY EndReported DEF EndIsReported
<1> HIDE DEF Inv
<1> QED
  BY <1>1, <1>2, <1>3, PTL DEF Spec

(***************************************************************************)
(* A ring has two processes, so a quota of two needs no condition.         *)
(***************************************************************************)
THEOREM EndIsKnownByTwo ==
  ASSUME Quota <= 2
  PROVE  Spec => []EndIsReported
<1> DEFINE Inv == ValuesIn(Nat \ {0})
<1>1. Init => Inv
  BY ClosedPositive, ValuesInit
<1>2. Inv /\ [Next]_vars => Inv'
  BY ClosedPositive, ValuesNext
<1>3. Inv /\ (Quota <= Cardinality(Ring) => EndIsReported) => EndIsReported
  <2> SUFFICES ASSUME Inv, Quiet
               PROVE  Quota <= Cardinality(Ring)
    BY DEF EndIsReported
  <2>1. clientList \in Seq(Process) /\ IsInjective(clientList) /\ Len(clientList) >= 2
    BY DEF ValuesIn, CoordinatorOK, Quiet
  <2>2. Cardinality(Ring) = Len(clientList) /\ Len(clientList) \in Nat
    BY <2>1, RingSize DEF Ring
  <2> QED
    BY <2>1, <2>2, GGTAssumption
<1>4. Spec => [](Quota <= Cardinality(Ring) => EndIsReported)
  BY EndIsKnown
<1> HIDE DEF Inv
<1> QED
  BY <1>1, <1>2, <1>3, <1>4, PTL DEF Spec
=============================================================================
