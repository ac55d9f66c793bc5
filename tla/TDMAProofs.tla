----------------------------- MODULE TDMAProofs -----------------------------
(***************************************************************************)
(* Proofs about the stations of Termin 3, for every set of stations, every *)
(* number of slots that is enough for them and every order in which the    *)
(* messages of a slot are received.                                        *)
(***************************************************************************)
EXTENDS TDMA, SequenceTheorems, FiniteSetTheorems,
        WellFoundedInduction, TLAPS

USE DEF None

(***************************************************************************)
(* A non-empty set of natural numbers has a least element, and Min is it.  *)
(***************************************************************************)
LEMMA LeastElement ==
  ASSUME NEW S \in SUBSET Nat, S # {}
  PROVE  Min(S) \in S /\ \A x \in S : Min(S) <= x
<1> DEFINE R == OpToRel(<, Nat)
<1>0. \A x, y \in Nat : <<x, y>> \in R <=> x < y
  BY DEF OpToRel
<1>1. PICK x \in S : \A y \in S : ~ (<<y, x>> \in R)
  <2>1. IsWellFoundedOn(R, Nat)
    BY NatLessThanWellFounded
  <2> HIDE DEF R
  <2> QED
    BY <2>1, WFMin
<1>2. ASSUME NEW y \in S
      PROVE  x <= y
  <2> HIDE DEF R
  <2>1. x \in Nat /\ y \in Nat
    OBVIOUS
  <2>2. <<y, x>> \in R <=> y < x
    BY <1>0, <2>1
  <2>3. ~ (y < x)
    BY <1>1, <2>2
  <2> QED
    BY <2>1, <2>3
<1> QED
  BY <1>2 DEF Min

(***************************************************************************)
(* The image of a finite set is finite.                                    *)
(***************************************************************************)
LEMMA FiniteImage ==
  ASSUME NEW S, IsFiniteSet(S), NEW f
  PROVE  IsFiniteSet({f[x] : x \in S})
<1> DEFINE T == {f[x] : x \in S}
           g == [x \in S |-> f[x]]
<1>1. g \in Surjection(S, T)
  BY DEF Surjection
<1> QED
  BY <1>1, FS_Surjection

(***************************************************************************)
(* Inserting at a position of a sequence.                                  *)
(***************************************************************************)
LEMMA InsertAtEffect ==
  ASSUME NEW S, NEW s \in Seq(S), NEW p \in 0..Len(s), NEW e \in S
  PROVE  /\ InsertAt(s, p + 1, e) \in Seq(S)
         /\ Len(InsertAt(s, p + 1, e)) = Len(s) + 1
         /\ \A k \in 1..Len(s) + 1 :
              InsertAt(s, p + 1, e)[k] = IF k <= p THEN s[k] ELSE IF k = p + 1 THEN e ELSE s[k - 1]
<1> DEFINE a == SubSeq(s, 1, p)
           b == SubSeq(s, p + 1, Len(s))
<1>1. a \in Seq(S) /\ Len(a) = p /\ \A k \in 1..p : a[k] = s[k]
  OBVIOUS
<1>2. b \in Seq(S) /\ Len(b) = Len(s) - p /\ \A k \in 1..Len(s) - p : b[k] = s[p + k]
  <2>1. p + 1 \in Int /\ Len(s) \in Int /\ \A k \in p + 1..Len(s) : s[k] \in S
    OBVIOUS
  <2>2. /\ b \in Seq(S)
        /\ Len(b) = IF p + 1 <= Len(s) THEN Len(s) - (p + 1) + 1 ELSE 0
        /\ \A k \in 1..Len(s) - (p + 1) + 1 : b[k] = s[(p + 1) + k - 1]
    BY <2>1, SubSeqProperties
  <2> HIDE DEF b
  <2>3. Len(s) - (p + 1) + 1 = Len(s) - p /\ \A k \in Nat : (p + 1) + k - 1 = p + k
    OBVIOUS
  <2>4. ASSUME NEW k \in 1..Len(s) - p PROVE b[k] = s[p + k]
    <3>1. k \in 1..Len(s) - (p + 1) + 1 /\ (p + 1) + k - 1 = p + k
      OBVIOUS
    <3> QED
      BY <2>2, <3>1
  <2>5. Len(b) = Len(s) - p
    BY <2>2
  <2> QED
    BY <2>2, <2>4, <2>5
<1>3. InsertAt(s, p + 1, e) = (a \o <<e>>) \o b
  <2>1. (p + 1) - 1 = p
    OBVIOUS
  <2> QED
    BY <2>1, Zenon DEF InsertAt
<1> HIDE DEF a, b
<1>4. /\ a \o <<e>> \in Seq(S) /\ Len(a \o <<e>>) = p + 1
      /\ \A k \in 1..p + 1 : (a \o <<e>>)[k] = IF k <= p THEN s[k] ELSE e
  BY <1>1
<1> DEFINE c == a \o <<e>>
<1>5. c \in Seq(S) /\ Len(c) = p + 1 /\ \A k \in 1..p + 1 : c[k] = IF k <= p THEN s[k] ELSE e
  BY <1>4
<1> HIDE DEF c
<1>6. /\ c \o b \in Seq(S) /\ Len(c \o b) = Len(s) + 1
      /\ \A k \in 1..Len(s) + 1 :
           (c \o b)[k] = IF k <= p + 1 THEN c[k] ELSE b[k - (p + 1)]
  BY <1>2, <1>5
<1>7. ASSUME NEW k \in 1..Len(s) + 1, ~ (k <= p + 1)
      PROVE  b[k - (p + 1)] = s[k - 1]
  <2>1. k - (p + 1) \in 1..Len(s) - p /\ p + (k - (p + 1)) = k - 1
    BY <1>7
  <2> QED
    BY <1>2, <2>1
<1>8. ASSUME NEW k \in 1..Len(s) + 1
      PROVE  (c \o b)[k] = IF k <= p THEN s[k] ELSE IF k = p + 1 THEN e ELSE s[k - 1]
  <2>1. CASE k <= p + 1
    BY <1>5, <1>6, <2>1
  <2>2. CASE ~ (k <= p + 1)
    BY <1>6, <1>7, <2>2
  <2> QED
    BY <2>1, <2>2
<1>9. c \o b \in Seq(S) /\ Len(c \o b) = Len(s) + 1
  BY <1>6
<1> DEFINE t == c \o b
           r == InsertAt(s, p + 1, e)
<1>10. /\ t \in Seq(S) /\ Len(t) = Len(s) + 1
       /\ \A k \in 1..Len(s) + 1 : t[k] = IF k <= p THEN s[k] ELSE IF k = p + 1 THEN e ELSE s[k - 1]
  BY <1>8, <1>9
<1>11. r = t
  BY <1>3 DEF c
<1> HIDE DEF r, t
<1>12. /\ r \in Seq(S) /\ Len(r) = Len(s) + 1
       /\ \A k \in 1..Len(s) + 1 : r[k] = IF k <= p THEN s[k] ELSE IF k = p + 1 THEN e ELSE s[k - 1]
  BY <1>10, <1>11
<1> QED
  BY <1>12 DEF r

-----------------------------------------------------------------------------
(***************************************************************************)
(* The list of a frame and the threads of a receiver, as long as no        *)
(* message was late: the list is grouped by slots, what the threads still  *)
(* have to put is of the last slot, no two messages came at one time, and  *)
(* an invalid message has another one in its slot.                         *)
(***************************************************************************)
Msg == [index : Nat, slot : Slots, nextSlot : Slots, valide : BOOLEAN]

Base(s) == Cardinality(Everybody) * s

Tidy(list, T, s) ==
  /\ list \in Seq(Msg) /\ T \subseteq Msg
  /\ \A k, l \in DOMAIN list : k < l => list[k].slot <= list[l].slot
  /\ \A k, l \in DOMAIN list : list[k].index = list[l].index => k = l
  /\ \A k \in DOMAIN list :
       /\ list[k].slot < s /\ list[k].index < Base(s)
       /\ list[k].slot < s - 1 => list[k].index < Base(s - 1)
       /\ list[k].valide \/ \E l \in DOMAIN list : l # k /\ list[l].slot = list[k].slot
       /\ \A m \in T : list[k].index # m.index
  /\ \A m \in T : m.slot = s - 1 /\ Base(s - 1) <= m.index /\ m.index < Base(s) /\ m.valide
  /\ \A m, n \in T : m.index = n.index => m = n

(***************************************************************************)
(* A message whose time of receipt is not in the list is put behind the    *)
(* first one that is not earlier, or at the end.                           *)
(***************************************************************************)
LEMMA PutEffect ==
  ASSUME NEW list \in Seq(Msg), NEW m \in Msg, \A k \in DOMAIN list : list[k].index # m.index
  PROVE  \E p \in 0..Len(list) :
           /\ p # Len(list) => p >= 1 /\ list[p].index >= m.index
           /\ put(list, m) \in Seq(Msg) /\ Len(put(list, m)) = Len(list) + 1
           /\ \A k \in 1..Len(list) + 1 :
                put(list, m)[k] = IF k <= p THEN list[k] ELSE IF k = p + 1 THEN m ELSE list[k - 1]
<1>0. ASSUME NEW q \in 0..Len(list)
      PROVE  /\ InsertAt(list, q + 1, m) \in Seq(Msg)
             /\ Len(InsertAt(list, q + 1, m)) = Len(list) + 1
             /\ \A k \in 1..Len(list) + 1 :
                  InsertAt(list, q + 1, m)[k] =
                    IF k <= q THEN list[k] ELSE IF k = q + 1 THEN m ELSE list[k - 1]
  <2>1. list \in Seq(Msg) /\ m \in Msg
    OBVIOUS
  <2> QED
    BY <2>1, InsertAtEffect
<1> DEFINE i == m.index
           S == {k \in DOMAIN list : list[k].index >= i}
           p == StopsAt(list, i)
           F == {n \in i .. i + Len(list) : ~ Taken(list, n)}
<1>1. i \in Nat /\ Len(list) \in Nat /\ S \in SUBSET Nat
  BY DEF Msg
<1>2. /\ p \in 0..Len(list)
      /\ p # Len(list) => p >= 1 /\ list[p].index >= i
      /\ list # << >> => p \in DOMAIN list
  <2>1. CASE S = {}
    BY <2>1 DEF StopsAt
  <2>2. CASE S # {}
    <3>1. Min(S) \in S
      BY <1>1, <2>2, LeastElement
    <3>2. p = Min(S)
      BY <2>2 DEF StopsAt
    <3> QED
      BY <3>1, <3>2
  <2> QED
    BY <2>1, <2>2
<1>3. ~ Taken(list, i)
  BY <1>2 DEF Taken
<1>4. Min(F) = i
  <2>1. i \in F /\ F \in SUBSET Nat
    BY <1>1, <1>3
  <2>2. Min(F) \in F /\ \A x \in F : Min(F) <= x
    BY <2>1, LeastElement
  <2>3. Min(F) \in Nat /\ i <= Min(F)
    BY <1>1, <2>2
  <2> HIDE DEF F, i
  <2> QED
    BY <1>1, <2>1, <2>2, <2>3
<1>5. [m EXCEPT !.index = i] = m
  BY DEF Msg
<1>6. put(list, m) = InsertAt(list, p + 1, m)
  BY <1>4, <1>5 DEF put
<1> HIDE DEF p
<1> DEFINE r == InsertAt(list, p + 1, m)
<1>7. /\ r \in Seq(Msg) /\ Len(r) = Len(list) + 1
      /\ \A k \in 1..Len(list) + 1 :
           r[k] = IF k <= p THEN list[k] ELSE IF k = p + 1 THEN m ELSE list[k - 1]
  BY <1>0, <1>2, Zenon
<1> HIDE DEF r
<1>8. put(list, m) = r
  BY <1>6 DEF r
<1> QED
  BY <1>2, <1>7, <1>8

(***************************************************************************)
(* What a receiver has heard in the frame: times, slots and announcements; *)
(* and the messages that had their slot alone.                             *)
(***************************************************************************)
Key(m) == <<m.index, m.slot, m.nextSlot>>

HeardOf(list, T) == {Key(list[k]) : k \in DOMAIN list} \cup {Key(m) : m \in T}

Sole(H) == {h \in H : \A g \in H : g[2] = h[2] => g = h}

Announced(H) == {h[3] : h \in Sole(H)}

(***************************************************************************)
(* A thread that puts its message keeps the list tidy and changes nothing  *)
(* of what was heard.                                                      *)
(***************************************************************************)
LEMMA PutTidy ==
  ASSUME NEW list, NEW T, NEW s \in Nat, Tidy(list, T, s), NEW m \in T
  PROVE  /\ Tidy(put(list, m), T \ {m}, s)
         /\ HeardOf(put(list, m), T \ {m}) = HeardOf(list, T)
<1>1. /\ list \in Seq(Msg) /\ m \in Msg /\ T \subseteq Msg
      /\ \A k \in DOMAIN list : list[k].index # m.index
      /\ DOMAIN list = 1..Len(list) /\ Len(list) \in Nat
  BY DEF Tidy
<1> DEFINE r == put(list, m)
<1>2. PICK p \in 0..Len(list) :
         /\ p # Len(list) => p >= 1 /\ list[p].index >= m.index
         /\ r \in Seq(Msg) /\ Len(r) = Len(list) + 1
         /\ \A k \in 1..Len(list) + 1 :
              r[k] = IF k <= p THEN list[k] ELSE IF k = p + 1 THEN m ELSE list[k - 1]
  BY <1>1, PutEffect
<1> HIDE DEF r
<1> DEFINE old(k) == IF k <= p THEN k ELSE k - 1
           new(k) == IF k <= p THEN k ELSE k + 1
<1>3. DOMAIN r = 1..Len(list) + 1 /\ r[p + 1] = m /\ p + 1 \in DOMAIN r
  BY <1>2
<1>4. \A k \in DOMAIN r : k # p + 1 => old(k) \in DOMAIN list /\ r[k] = list[old(k)]
  <2> SUFFICES ASSUME NEW k \in DOMAIN r, k # p + 1
               PROVE  old(k) \in DOMAIN list /\ r[k] = list[old(k)]
    OBVIOUS
  <2>1. CASE k <= p
    <3>1. k \in 1..Len(list) + 1 /\ k \in 1..Len(list)
      BY <1>1, <1>3, <2>1
    <3>2. r[k] = list[k]
      BY <1>2, <2>1, <3>1
    <3> QED
      BY <1>1, <2>1, <3>1, <3>2
  <2>2. CASE ~ (k <= p)
    <3>1. k \in 1..Len(list) + 1 /\ k - 1 \in 1..Len(list)
      BY <1>1, <1>3, <2>2
    <3>2. r[k] = list[k - 1]
      BY <1>2, <2>2, <3>1
    <3> QED
      BY <1>1, <2>2, <3>1, <3>2
  <2> QED
    BY <2>1, <2>2
<1>5. \A k \in DOMAIN list : new(k) \in DOMAIN r /\ new(k) # p + 1 /\ r[new(k)] = list[k]
  <2> SUFFICES ASSUME NEW k \in DOMAIN list
               PROVE  new(k) \in DOMAIN r /\ new(k) # p + 1 /\ r[new(k)] = list[k]
    OBVIOUS
  <2>1. CASE k <= p
    <3>1. k \in 1..Len(list) + 1 /\ k # p + 1
      BY <1>1, <2>1
    <3>2. r[k] = list[k]
      BY <1>2, <2>1, <3>1
    <3> QED
      BY <1>3, <2>1, <3>1, <3>2
  <2>2. CASE ~ (k <= p)
    <3>1. k + 1 \in 1..Len(list) + 1 /\ ~ (k + 1 <= p) /\ k + 1 # p + 1 /\ (k + 1) - 1 = k
      BY <1>1, <2>2
    <3> QED
      BY <1>2, <1>3, <2>2, <3>1
  <2> QED
    BY <2>1, <2>2
<1>6. \A k \in DOMAIN list :
        /\ list[k].slot \in Nat /\ list[k].index \in Nat
        /\ list[k].slot <= m.slot
        /\ list[k].slot < m.slot => list[k].index < m.index
        /\ k <= p \/ list[k].slot = m.slot
  <2> SUFFICES ASSUME NEW k \in DOMAIN list
               PROVE  /\ list[k].slot \in Nat /\ list[k].index \in Nat
                      /\ list[k].slot <= m.slot
                      /\ list[k].slot < m.slot => list[k].index < m.index
                      /\ k <= p \/ list[k].slot = m.slot
    OBVIOUS
  <2>1. list[k] \in Msg /\ Slots \subseteq Nat
    BY <1>1 DEF Slots
  <2>2. list[k].slot \in Nat /\ list[k].index \in Nat /\ m.slot \in Nat /\ m.index \in Nat
    BY <1>1, <2>1 DEF Msg
  <2>3. list[k].slot <= m.slot
    BY <2>2 DEF Tidy
  <2>4. \A l \in DOMAIN list : list[l].slot < m.slot => list[l].index < m.index
    <3> SUFFICES ASSUME NEW l \in DOMAIN list, list[l].slot < m.slot
                 PROVE  list[l].index < m.index
      OBVIOUS
    <3>1. list[l].index < Base(s - 1) /\ Base(s - 1) <= m.index
      BY DEF Tidy
    <3>2. list[l].index \in Nat /\ m.index \in Nat /\ Base(s - 1) \in Int
      <4>1. Cardinality(Everybody) \in Nat
        BY TDMAAssumption, FS_CardinalityType
      <4>2. \A c \in Nat : c * (s - 1) \in Int
        OBVIOUS
      <4>3. Base(s - 1) \in Int
        BY <4>1, <4>2 DEF Base
      <4>4. list[l] \in Msg
        BY <1>1
      <4> QED
        BY <1>1, <4>3, <4>4 DEF Msg
    <3> QED
      BY <3>1, <3>2
  <2>5. ASSUME ~ (k <= p) PROVE list[k].slot = m.slot
    <3>1. p >= 1 /\ list[p].index >= m.index /\ p \in DOMAIN list /\ p < k
      BY <1>1, <1>2, <2>5
    <3>2. list[p] \in Msg
      BY <1>1, <3>1
    <3>3. list[p].slot \in Nat /\ list[p].index \in Nat
      BY <2>1, <3>2 DEF Msg
    <3>4. ~ (list[p].slot < m.slot)
      BY <2>2, <2>4, <3>1, <3>3
    <3>5. list[p].slot <= list[k].slot
      BY <3>1 DEF Tidy
    <3> QED
      BY <2>2, <2>3, <3>3, <3>4, <3>5
  <2> QED
    BY <2>2, <2>3, <2>4, <2>5
<1>7. \A k, l \in DOMAIN r : k < l => r[k].slot <= r[l].slot
  <2> SUFFICES ASSUME NEW k \in DOMAIN r, NEW l \in DOMAIN r, k < l
               PROVE  r[k].slot <= r[l].slot
    OBVIOUS
  <2>0. m.slot \in Nat
    BY <1>1 DEF Msg, Slots
  <2>1. CASE k # p + 1 /\ l # p + 1
    <3>1. old(k) < old(l) /\ old(k) \in DOMAIN list /\ old(l) \in DOMAIN list
      BY <1>1, <1>3, <1>4, <2>1
    <3>2. list[old(k)].slot <= list[old(l)].slot
      BY <3>1 DEF Tidy
    <3> QED
      BY <1>4, <2>1, <3>2
  <2>2. CASE l = p + 1
    <3>1. old(k) \in DOMAIN list /\ r[k] = list[old(k)]
      BY <1>3, <1>4, <2>2
    <3> QED
      BY <1>3, <1>6, <2>2, <3>1
  <2>3. CASE k = p + 1
    <3>1. old(l) \in DOMAIN list /\ r[l] = list[old(l)] /\ ~ (old(l) <= p)
      BY <1>3, <1>4, <2>3
    <3>2. list[old(l)].slot = m.slot
      BY <1>6, <3>1
    <3> QED
      BY <1>3, <2>0, <2>3, <3>1, <3>2
  <2> QED
    BY <2>1, <2>2, <2>3
<1>8. \A k, l \in DOMAIN r : r[k].index = r[l].index => k = l
  <2> SUFFICES ASSUME NEW k \in DOMAIN r, NEW l \in DOMAIN r, r[k].index = r[l].index
               PROVE  k = l
    OBVIOUS
  <2>1. CASE k # p + 1 /\ l # p + 1
    <3>1. old(k) = old(l)
      <4>1. old(k) \in DOMAIN list /\ old(l) \in DOMAIN list /\ list[old(k)].index = list[old(l)].index
        BY <1>4, <2>1
      <4> HIDE DEF old
      <4> QED
        BY <4>1 DEF Tidy
    <3> QED
      BY <1>3, <2>1, <3>1
  <2>2. CASE k = p + 1 /\ l # p + 1
    BY <1>1, <1>3, <1>4, <2>2
  <2>3. CASE l = p + 1 /\ k # p + 1
    BY <1>1, <1>3, <1>4, <2>3
  <2> QED
    BY <2>1, <2>2, <2>3
<1>9. ASSUME NEW k \in DOMAIN r
      PROVE  /\ r[k].slot < s /\ r[k].index < Base(s)
             /\ r[k].slot < s - 1 => r[k].index < Base(s - 1)
             /\ r[k].valide \/ \E l \in DOMAIN r : l # k /\ r[l].slot = r[k].slot
             /\ \A n \in T \ {m} : r[k].index # n.index
  <2>1. CASE k = p + 1
    <3>1. m.slot = s - 1 /\ Base(s - 1) <= m.index /\ m.index < Base(s) /\ m.valide
      BY DEF Tidy
    <3>2. \A n \in T \ {m} : m.index # n.index
      BY DEF Tidy
    <3> QED
      BY <1>3, <2>1, <3>1, <3>2
  <2>2. CASE k # p + 1
    <3>1. old(k) \in DOMAIN list /\ r[k] = list[old(k)]
      BY <1>4, <2>2
    <3>2. new(old(k)) = k
      BY <1>3, <2>2
    <3> DEFINE q == old(k)
    <3> HIDE DEF q
    <3>3. /\ list[q].slot < s /\ list[q].index < Base(s)
          /\ list[q].slot < s - 1 => list[q].index < Base(s - 1)
          /\ list[q].valide \/ \E l \in DOMAIN list : l # q /\ list[l].slot = list[q].slot
          /\ \A n \in T : list[q].index # n.index
      BY <3>1 DEF Tidy, q
    <3>4. ASSUME NEW l \in DOMAIN list, l # q, list[l].slot = list[q].slot
          PROVE  \E x \in DOMAIN r : x # k /\ r[x].slot = r[k].slot
      <4>1. new(l) # k
        BY <1>1, <3>1, <3>2, <3>4 DEF q
      <4> QED
        BY <1>5, <3>1, <3>4, <4>1 DEF q
    <3> QED
      BY <3>1, <3>3, <3>4 DEF q
  <2> QED
    BY <2>1, <2>2
<1>10. Tidy(r, T \ {m}, s)
  <2>1. r \in Seq(Msg) /\ T \ {m} \subseteq Msg
    BY <1>1, <1>2
  <2>2. /\ \A n \in T \ {m} : n.slot = s - 1 /\ Base(s - 1) <= n.index /\ n.index < Base(s) /\ n.valide
        /\ \A n, q \in T \ {m} : n.index = q.index => n = q
    BY DEF Tidy
  <2> QED
    BY <1>7, <1>8, <1>9, <2>1, <2>2 DEF Tidy
<1>11. HeardOf(r, T \ {m}) = HeardOf(list, T)
  <2>1. ASSUME NEW h \in HeardOf(r, T \ {m}) PROVE h \in HeardOf(list, T)
    BY <1>3, <1>4 DEF HeardOf
  <2>2. ASSUME NEW h \in HeardOf(list, T) PROVE h \in HeardOf(r, T \ {m})
    BY <1>3, <1>5 DEF HeardOf
  <2> QED
    BY <2>1, <2>2
<1> QED
  BY <1>10, <1>11 DEF r

(***************************************************************************)
(* Removing collisions changes only which messages are valid: those that   *)
(* have their slot alone.                                                  *)
(***************************************************************************)
LEMMA RemoveEffect ==
  ASSUME NEW list \in Seq(Msg)
  PROVE  /\ removeColisons(list) \in Seq(Msg)
         /\ DOMAIN removeColisons(list) = DOMAIN list
         /\ \A k \in DOMAIN list :
              /\ removeColisons(list)[k].index = list[k].index
              /\ removeColisons(list)[k].slot = list[k].slot
              /\ removeColisons(list)[k].nextSlot = list[k].nextSlot
              /\ removeColisons(list)[k].valide <=>
                   /\ list[k].valide
                   /\ \A n \in {k - 1, k + 1} \cap DOMAIN list : list[n].slot # list[k].slot
<1> DEFINE r == removeColisons(list)
<1>1. DOMAIN list = 1..Len(list) /\ Len(list) \in Nat
  OBVIOUS
<1>2. DOMAIN r = DOMAIN list
  BY DEF removeColisons
<1>3. ASSUME NEW k \in DOMAIN list
      PROVE  /\ r[k] \in Msg
             /\ r[k].index = list[k].index /\ r[k].slot = list[k].slot
             /\ r[k].nextSlot = list[k].nextSlot
             /\ r[k].valide <=>
                  /\ list[k].valide
                  /\ \A n \in {k - 1, k + 1} \cap DOMAIN list : list[n].slot # list[k].slot
  <2> DEFINE alone == \A n \in {k - 1, k + 1} \cap DOMAIN list : list[n].slot # list[k].slot
             v == list[k].valide /\ alone
  <2>1. list[k] \in Msg
    OBVIOUS
  <2>2. r[k] = [list[k] EXCEPT !.valide = v]
    BY DEF removeColisons
  <2>3. v \in BOOLEAN
    BY <2>1 DEF Msg
  <2> HIDE DEF v, r
  <2>4. /\ r[k] \in Msg
        /\ r[k].index = list[k].index /\ r[k].slot = list[k].slot
        /\ r[k].nextSlot = list[k].nextSlot /\ r[k].valide = v
    BY <2>1, <2>2, <2>3 DEF Msg
  <2> QED
    BY <2>4 DEF v
<1>4. r \in Seq(Msg)
  <2>1. r = [k \in 1..Len(list) |-> r[k]]
    BY <1>1 DEF removeColisons
  <2>2. \A k \in 1..Len(list) : r[k] \in Msg
    BY <1>1, <1>3
  <2> HIDE DEF r
  <2> QED
    BY <1>1, <2>1, <2>2
<1> QED
  BY <1>2, <1>3, <1>4

Alone(list, k) == \A l \in DOMAIN list : list[l].slot = list[k].slot => l = k

LEMMA ValidIfAlone ==
  ASSUME NEW list, NEW T, NEW s \in Nat, Tidy(list, T, s), NEW k \in DOMAIN list
  PROVE  removeColisons(list)[k].valide <=> Alone(list, k)
<1>1. list \in Seq(Msg) /\ DOMAIN list = 1..Len(list) /\ Len(list) \in Nat
  BY DEF Tidy
<1>2. removeColisons(list)[k].valide <=>
        /\ list[k].valide
        /\ \A n \in {k - 1, k + 1} \cap DOMAIN list : list[n].slot # list[k].slot
  BY <1>1, RemoveEffect
<1>3. \A l \in DOMAIN list : list[l].slot \in Nat
  <2>1. \A l \in DOMAIN list : list[l] \in Msg
    BY <1>1
  <2> QED
    BY <2>1 DEF Msg, Slots
<1>4. ASSUME Alone(list, k) PROVE removeColisons(list)[k].valide
  <2>1. list[k].valide
    BY <1>4 DEF Tidy, Alone
  <2>2. \A n \in {k - 1, k + 1} \cap DOMAIN list : list[n].slot # list[k].slot
    <3>1. \A n \in {k - 1, k + 1} : n # k
      BY <1>1
    <3> QED
      BY <1>4, <3>1 DEF Alone
  <2> QED
    BY <1>2, <2>1, <2>2
<1>5. ASSUME removeColisons(list)[k].valide PROVE Alone(list, k)
  <2> SUFFICES ASSUME NEW l \in DOMAIN list, list[l].slot = list[k].slot, l # k
               PROVE  FALSE
    BY DEF Alone
  <2>1. CASE l < k
    <3>1. k - 1 \in DOMAIN list /\ (l = k - 1 \/ l < k - 1) /\ k - 1 < k
      BY <1>1, <2>1
    <3>2. list[l].slot <= list[k - 1].slot
      BY <1>3, <3>1 DEF Tidy
    <3>3. list[k - 1].slot <= list[k].slot
      BY <3>1 DEF Tidy
    <3>4. list[k - 1].slot = list[k].slot
      BY <1>3, <3>1, <3>2, <3>3
    <3> QED
      BY <1>2, <1>5, <3>1, <3>4
  <2>2. CASE l > k
    <3>1. k + 1 \in DOMAIN list /\ (l = k + 1 \/ k + 1 < l) /\ k < k + 1
      BY <1>1, <2>2
    <3>2. list[k + 1].slot <= list[l].slot
      BY <1>3, <3>1 DEF Tidy
    <3>3. list[k].slot <= list[k + 1].slot
      BY <3>1 DEF Tidy
    <3>4. list[k + 1].slot = list[k].slot
      BY <1>3, <3>1, <3>2, <3>3
    <3> QED
      BY <1>2, <1>5, <3>1, <3>4
  <2> QED
    BY <1>1, <2>1, <2>2
<1> QED
  BY <1>4, <1>5

LEMMA RemoveTidy ==
  ASSUME NEW list, NEW T, NEW s \in Nat, Tidy(list, T, s)
  PROVE  /\ Tidy(removeColisons(list), T, s)
         /\ HeardOf(removeColisons(list), T) = HeardOf(list, T)
<1> DEFINE r == removeColisons(list)
<1>1. list \in Seq(Msg) /\ DOMAIN list = 1..Len(list) /\ Len(list) \in Nat
  BY DEF Tidy
<1>2. /\ r \in Seq(Msg) /\ DOMAIN r = DOMAIN list
      /\ \A k \in DOMAIN list :
           r[k].index = list[k].index /\ r[k].slot = list[k].slot /\ r[k].nextSlot = list[k].nextSlot
  BY <1>1, RemoveEffect
<1>3. \A k \in DOMAIN list : r[k].valide <=> Alone(list, k)
  BY ValidIfAlone
<1> HIDE DEF r
<1>4. \A k \in DOMAIN r : r[k].valide \/ \E l \in DOMAIN r : l # k /\ r[l].slot = r[k].slot
  BY <1>2, <1>3 DEF Alone
<1>5. Tidy(r, T, s)
  BY <1>2, <1>4 DEF Tidy
<1>6. \A k \in DOMAIN list : Key(r[k]) = Key(list[k])
  BY <1>2 DEF Key
<1>7. HeardOf(r, T) = HeardOf(list, T)
  BY <1>2, <1>6 DEF HeardOf
<1> QED
  BY <1>5, <1>7 DEF r

(***************************************************************************)
(* The slots a station takes for used are those announced by the messages  *)
(* it heard that had their slot alone; a message that is valid in its own  *)
(* slot was alone there.                                                   *)
(***************************************************************************)
LEMMA UsedAreAnnounced ==
  ASSUME NEW list, NEW s \in Nat, Tidy(list, {}, s)
  PROVE  /\ UsedSlots(list) = {list[k].nextSlot : k \in {l \in DOMAIN list : Alone(list, l)}}
         /\ UsedSlots(list) = Announced(HeardOf(list, {}))
         /\ \A m \in Valid(removeColisons(list)) :
              \E h \in Sole(HeardOf(list, {})) : h[2] = m.slot
<1> DEFINE r == removeColisons(list)
           H == HeardOf(list, {})
           A == {l \in DOMAIN list : Alone(list, l)}
<1>1. list \in Seq(Msg)
  BY DEF Tidy
<1>2. /\ DOMAIN r = DOMAIN list
      /\ \A k \in DOMAIN list : r[k].slot = list[k].slot /\ r[k].nextSlot = list[k].nextSlot
      /\ \A k \in DOMAIN list : r[k].valide <=> Alone(list, k)
  BY <1>1, RemoveEffect, ValidIfAlone
<1> HIDE DEF r
<1>3. Valid(r) = {r[k] : k \in A}
  BY <1>2 DEF Valid
<1>4. UsedSlots(list) = {list[k].nextSlot : k \in A}
  <2>1. UsedSlots(list) = {m.nextSlot : m \in Valid(r)}
    BY DEF UsedSlots, r
  <2>2. {m.nextSlot : m \in Valid(r)} = {list[k].nextSlot : k \in A}
    BY <1>2, <1>3
  <2> QED
    BY <2>1, <2>2
<1>5. H = {Key(list[k]) : k \in DOMAIN list}
  BY DEF HeardOf
<1> HIDE DEF H
<1>6. \A k \in DOMAIN list : Key(list[k])[1] = list[k].index /\ Key(list[k])[2] = list[k].slot
                              /\ Key(list[k])[3] = list[k].nextSlot
  BY DEF Key
<1>7. ASSUME NEW k \in A PROVE Key(list[k]) \in Sole(H)
  BY <1>5, <1>6 DEF Sole, Alone
<1>8. ASSUME NEW h \in Sole(H) PROVE \E k \in A : h = Key(list[k])
  <2>1. PICK k \in DOMAIN list : h = Key(list[k])
    BY <1>5 DEF Sole
  <2>2. ASSUME NEW l \in DOMAIN list, list[l].slot = list[k].slot PROVE l = k
    <3>1. Key(list[l]) = Key(list[k])
      BY <1>5, <1>6, <2>1, <2>2 DEF Sole
    <3>2. list[l].index = list[k].index
      BY <1>6, <3>1
    <3> QED
      BY <3>2 DEF Tidy
  <2>3. k \in A
    BY <2>2 DEF Alone
  <2> QED
    BY <2>1, <2>3
<1>9. UsedSlots(list) = Announced(H)
  <2>1. ASSUME NEW x \in UsedSlots(list) PROVE x \in Announced(H)
    BY <1>4, <1>6, <1>7 DEF Announced
  <2>2. ASSUME NEW x \in Announced(H) PROVE x \in UsedSlots(list)
    BY <1>4, <1>6, <1>8 DEF Announced
  <2> QED
    BY <2>1, <2>2
<1>10. \A m \in Valid(r) : \E h \in Sole(H) : h[2] = m.slot
  BY <1>2, <1>3, <1>6, <1>7
<1> QED
  BY <1>4, <1>9, <1>10 DEF H, r

(***************************************************************************)
(* Fewer slots are announced than have passed, so a station whose turn it  *)
(* is finds a free one.                                                    *)
(***************************************************************************)
LEMMA FreeSlotIsLeft ==
  ASSUME NEW list, NEW s \in Slots, Tidy(list, {}, s)
  PROVE  FreeSlots(list) # {}
<1> SUFFICES ASSUME FreeSlots(list) = {}
             PROVE  FALSE
  OBVIOUS
<1> DEFINE A == {l \in DOMAIN list : Alone(list, l)}
           S == {list[k].slot : k \in A}
           f == [x \in S |-> list[CHOOSE k \in A : list[k].slot = x].nextSlot]
<1>1. list \in Seq(Msg) /\ s \in Nat /\ SlotCount \in Nat /\ s < SlotCount
  BY TDMAAssumption DEF Tidy, Slots
<1>2. Slots \subseteq UsedSlots(list) /\ UsedSlots(list) = {list[k].nextSlot : k \in A}
  BY <1>1, UsedAreAnnounced DEF FreeSlots
<1>3. \A k \in A : list[k] \in Msg
  BY <1>1
<1>4. \A k \in A : f[list[k].slot] = list[k].nextSlot
  <2> SUFFICES ASSUME NEW k \in A
               PROVE  f[list[k].slot] = list[k].nextSlot
    OBVIOUS
  <2> DEFINE l == CHOOSE l \in A : list[l].slot = list[k].slot
  <2>1. l \in A /\ list[l].slot = list[k].slot
    OBVIOUS
  <2>2. f[list[k].slot] = list[l].nextSlot
    OBVIOUS
  <2> HIDE DEF l, f
  <2>3. l = k
    BY <2>1 DEF Alone
  <2> QED
    BY <2>2, <2>3
<1>5. f \in Surjection(S, Slots)
  <2>1. \A x \in S : f[x] \in Slots
    BY <1>3, <1>4 DEF Msg
  <2>2. ASSUME NEW y \in Slots PROVE \E x \in S : f[x] = y
    <3>1. PICK k \in A : y = list[k].nextSlot
      BY <1>2
    <3>2. list[k].slot \in S /\ f[list[k].slot] = y
      BY <1>4, <3>1
    <3> QED
      BY <3>2
  <2>3. f = [x \in S |-> f[x]]
    OBVIOUS
  <2> HIDE DEF f, S
  <2>4. f \in [S -> Slots]
    BY <2>1, <2>3
  <2> QED
    BY <2>2, <2>4 DEF Surjection
<1>6. S \subseteq 0..s - 1
  <2>1. \A k \in A : list[k].slot < s
    BY DEF Tidy
  <2> QED
    BY <1>1, <1>3, <2>1 DEF Msg, Slots
<1>7. IsFiniteSet(0..s - 1) /\ Cardinality(0..s - 1) = s
  <2>1. 0 \in Int /\ s - 1 \in Int
    BY <1>1
  <2>2. IsFiniteSet(0..s - 1) /\ Cardinality(0..s - 1) = IF 0 > s - 1 THEN 0 ELSE (s - 1) - 0 + 1
    BY <2>1, FS_Interval
  <2> QED
    BY <1>1, <2>2
<1>8. Cardinality(Slots) = SlotCount
  <2>1. 0 \in Int /\ SlotCount - 1 \in Int
    BY <1>1
  <2>2. Cardinality(0..SlotCount - 1) =
          IF 0 > SlotCount - 1 THEN 0 ELSE (SlotCount - 1) - 0 + 1
    BY <2>1, FS_Interval
  <2> QED
    BY <1>1, <2>2 DEF Slots
<1> HIDE DEF f, S
<1>9. IsFiniteSet(S) /\ Cardinality(S) <= s /\ Cardinality(S) \in Nat
  BY <1>6, <1>7, FS_Subset, FS_CardinalityType
<1>10. Cardinality(Slots) <= Cardinality(S)
  BY <1>5, <1>9, FS_Surjection
<1> QED
  BY <1>1, <1>8, <1>9, <1>10

-----------------------------------------------------------------------------
(***************************************************************************)
(* The inductive invariant.  A station is active in a frame until its loop *)
(* has noticed the next one.                                               *)
(***************************************************************************)
Active(i) == slot < SlotCount \/ i \in toSwitch

Types ==
  /\ slot \in 0..SlotCount
  /\ toSwitch \subseteq Station /\ (toSwitch # {} => slot = SlotCount)
  /\ mySlot \in [Everybody -> Slots \cup {None}]
  /\ \A f \in Foreign : mySlot[f] # None
  /\ myUpdatedSlot \in [Everybody -> Slots \cup {None}]
  /\ joined \in [Station -> BOOLEAN]
  /\ announced \subseteq Slots
  /\ lost \in Nat /\ late \in Nat /\ garbage \in BOOLEAN
  /\ msgForTimeSync = [i \in Station |-> msgForTimeSync[i]]
  /\ threads = [i \in Station |-> threads[i]]
  /\ \A i \in Station : IsFiniteSet(threads[i])

HeardInTime ==
  late = 0 =>
    /\ ~ garbage
    /\ \A i \in Station :
         /\ Tidy(msgForTimeSync[i], threads[i], slot)
         /\ ~ Active(i) => msgForTimeSync[i] = << >> /\ threads[i] = {}

(***************************************************************************)
(* Whoever was heard alone in its slot owns the slot it announced: what it *)
(* has after the next end of a frame.                                      *)
(***************************************************************************)
Heard(i) == HeardOf(msgForTimeSync[i], threads[i])

HeardAlone(i) == \E h \in Sole(Heard(i)) : h[2] = mySlot[i]

Owner(j) ==
  /\ mySlot[j] # None
  /\ j \in Foreign => mySlot[j] < slot
  /\ j \in Station => IF Active(j) THEN HeardAlone(j) ELSE ~ joined[j]

Claim(j) == IF myUpdatedSlot[j] # None THEN myUpdatedSlot[j] ELSE mySlot[j]

OnlyJoinersMeet ==
  \A i, j \in Everybody :
    (i # j /\ mySlot[i] # None /\ mySlot[i] = mySlot[j]) =>
      i \in Station /\ j \in Station /\ joined[i] /\ joined[j]

RingInv ==
  (late = 0 /\ lost = 0) =>
    /\ slot < SlotCount => OnlyJoinersMeet
    /\ \A i \in Station : Active(i) => announced = Announced(Heard(i))
    /\ \A j \in Everybody : Owner(j) => Claim(j) \in announced
    /\ \A i, j \in Everybody : Owner(i) /\ Owner(j) /\ i # j => Claim(i) # Claim(j)
    /\ \A i \in Station : ~ Active(i) =>
         /\ joined[i] => mySlot[i] \notin announced
         /\ myUpdatedSlot[i] = None
    /\ \A j \in Everybody :
         myUpdatedSlot[j] # None => mySlot[j] # None /\ mySlot[j] < slot

TDMAInv == Types /\ HeardInTime /\ RingInv

-----------------------------------------------------------------------------
(***************************************************************************)
(* Constants and counters.                                                 *)
(***************************************************************************)
LEMMA ConstantFacts ==
  /\ Cardinality(Everybody) \in Nat /\ SlotCount \in Nat /\ SlotCount > 0
  /\ IsFiniteSet(Everybody) /\ IsFiniteSet(Station)
  /\ Station \cap Foreign = {} /\ Station \subseteq Everybody /\ Foreign \subseteq Everybody
  /\ Slots \subseteq Nat /\ None \notin Slots /\ 0 \in Slots
  /\ \A x \in Slots : x \in Nat /\ x < SlotCount
<1>1. IsFiniteSet(Everybody) /\ Station \subseteq Everybody /\ Foreign \subseteq Everybody
  BY TDMAAssumption DEF Everybody
<1>2. Cardinality(Everybody) \in Nat /\ IsFiniteSet(Station)
  BY <1>1, FS_CardinalityType, FS_Subset
<1> QED
  BY <1>1, <1>2, TDMAAssumption DEF Slots

LEMMA CounterStays ==
  ASSUME NEW n \in Nat, NEW S, IsFiniteSet(S)
  PROVE  n + Cardinality(S) \in Nat /\ (n + Cardinality(S) = 0 => n = 0 /\ S = {})
<1>1. Cardinality(S) \in Nat /\ (Cardinality(S) = 0 => S = {})
  BY FS_CardinalityType, FS_EmptySet
<1> QED
  BY <1>1

LEMMA NextBase ==
  ASSUME NEW s \in Nat
  PROVE  /\ Base(s) \in Nat
         /\ Base(s + 1) = Base(s) + Cardinality(Everybody)
         /\ Base((s + 1) - 1) = Base(s)
<1>1. \A c \in Nat : c * s \in Nat /\ c * (s + 1) = c * s + c /\ (s + 1) - 1 = s
  OBVIOUS
<1> QED
  BY <1>1, ConstantFacts DEF Base

-----------------------------------------------------------------------------
(***************************************************************************)
(* The first state.                                                        *)
(***************************************************************************)
LEMMA NothingHeard ==
  /\ Tidy(<< >>, {}, 0)
  /\ HeardOf(<< >>, {}) = {} /\ Sole({}) = {} /\ Announced({}) = {}
<1>1. DOMAIN << >> = {} /\ << >> \in Seq(Msg)
  OBVIOUS
<1> QED
  BY <1>1 DEF Tidy, HeardOf, Sole, Announced

LEMMA TDMAInvInit ==
  ASSUME TDMAInit
  PROVE  TDMAInv
<1> USE ConstantFacts
<1>1. Types
  <2>1. /\ slot \in 0..SlotCount /\ toSwitch = {} /\ announced = {} /\ lost = 0 /\ late = 0
        /\ mySlot \in [Everybody -> Slots \cup {None}] /\ \A f \in Foreign : mySlot[f] # None
        /\ garbage = FALSE
    BY DEF TDMAInit
  <2>2. /\ myUpdatedSlot \in [Everybody -> Slots \cup {None}] /\ joined \in [Station -> BOOLEAN]
    BY DEF TDMAInit
  <2>3. /\ msgForTimeSync = [i \in Station |-> msgForTimeSync[i]]
        /\ threads = [i \in Station |-> threads[i]]
        /\ \A i \in Station : threads[i] = {}
    BY DEF TDMAInit
  <2> QED
    BY <2>1, <2>2, <2>3, FS_EmptySet DEF Types
<1>2. slot < SlotCount /\ \A i : Active(i)
  BY DEF TDMAInit, Active
<1>3. HeardInTime
  BY <1>2, NothingHeard DEF TDMAInit, HeardInTime
<1>4. \A i \in Station : Heard(i) = {}
  BY NothingHeard DEF TDMAInit, Heard
<1>5. OnlyJoinersMeet
  <2>1. \A i \in Station : mySlot[i] = None
    BY DEF TDMAInit
  <2>2. \A f, g \in Foreign : f # g => mySlot[f] # mySlot[g]
    BY DEF TDMAInit
  <2> QED
    BY <2>1, <2>2 DEF OnlyJoinersMeet, Everybody
<1>6. \A j \in Everybody : ~ Owner(j)
  <2>1. ASSUME NEW j \in Station PROVE ~ Owner(j)
    BY <1>2, <1>4, NothingHeard DEF Owner, HeardAlone
  <2>2. ASSUME NEW j \in Foreign PROVE ~ Owner(j)
    <3>1. mySlot[j] \in Slots /\ slot = 0
      BY <1>1 DEF Types, TDMAInit
    <3>2. ~ (mySlot[j] < slot)
      <4>1. mySlot[j] \in Nat /\ slot = 0
        BY <3>1
      <4> DEFINE x == mySlot[j]
      <4> HIDE DEF x
      <4>2. x \in Nat => ~ (x < 0)
        OBVIOUS
      <4> QED
        BY <4>1, <4>2 DEF x
    <3> QED
      BY <3>2 DEF Owner
  <2> QED
    BY <2>1, <2>2 DEF Everybody
<1>7. RingInv
  BY <1>2, <1>4, <1>5, <1>6, NothingHeard DEF RingInv, TDMAInit
<1> QED
  BY <1>1, <1>3, <1>7 DEF TDMAInv

-----------------------------------------------------------------------------
(***************************************************************************)
(* A callback thread puts its message: what was heard stays.               *)
(***************************************************************************)
LEMMA RecivedKeeps ==
  ASSUME TDMAInv, NEW i \in Station, NEW m \in threads[i], recived(i, m)
  PROVE  TDMAInv'
<1> USE ConstantFacts
<1> USE DEF TDMAInv
<1>1. /\ UNCHANGED <<slot, toSwitch, mySlot, myUpdatedSlot, joined, announced, lost, late, garbage>>
      /\ threads' = [threads EXCEPT ![i] = threads[i] \ {m}]
      /\ msgForTimeSync' = [msgForTimeSync EXCEPT ![i] = put(msgForTimeSync[i], m)]
  BY DEF recived
<1>2. /\ threads'[i] = threads[i] \ {m} /\ msgForTimeSync'[i] = put(msgForTimeSync[i], m)
      /\ \A r \in Station : r # i => threads'[r] = threads[r] /\ msgForTimeSync'[r] = msgForTimeSync[r]
      /\ threads' = [r \in Station |-> threads'[r]]
      /\ msgForTimeSync' = [r \in Station |-> msgForTimeSync'[r]]
  BY <1>1 DEF Types
<1>3. Types'
  <2>1. \A r \in Station : IsFiniteSet(threads'[r])
    BY <1>2, FS_RemoveElement DEF Types
  <2> QED
    BY <1>1, <1>2, <2>1 DEF Types
<1>4. \A r : Active(r)' <=> Active(r)
  BY <1>1 DEF Active
<1>5. CASE late # 0
  BY <1>1, <1>3, <1>5 DEF HeardInTime, RingInv
<1>6. CASE late = 0
  <2>1. slot \in Nat /\ \A r \in Station : Tidy(msgForTimeSync[r], threads[r], slot)
    BY <1>6 DEF HeardInTime, Types
  <2>2. /\ Tidy(put(msgForTimeSync[i], m), threads[i] \ {m}, slot)
        /\ HeardOf(put(msgForTimeSync[i], m), threads[i] \ {m}) = HeardOf(msgForTimeSync[i], threads[i])
    BY <2>1, PutTidy
  <2>3. Active(i)
    BY <1>6 DEF HeardInTime
  <2>4. HeardInTime'
    BY <1>1, <1>2, <1>4, <2>1, <2>2, <2>3, <1>6 DEF HeardInTime
  <2>5. \A r \in Station : Heard(r)' = Heard(r)
    BY <1>2, <2>2 DEF Heard
  <2>6. \A j \in Everybody : (Owner(j)' <=> Owner(j)) /\ Claim(j)' = Claim(j)
    BY <1>1, <1>4, <2>5 DEF Owner, Claim, HeardAlone
  <2>7. OnlyJoinersMeet' <=> OnlyJoinersMeet
    BY <1>1 DEF OnlyJoinersMeet
  <2>8. RingInv'
    BY <1>1, <1>4, <2>5, <2>6, <2>7 DEF RingInv
  <2> QED
    BY <1>3, <2>4, <2>8
<1> QED
  BY <1>5, <1>6

-----------------------------------------------------------------------------
(***************************************************************************)
(* The end of a frame in one station.                                      *)
(***************************************************************************)
LEMMA FrameEndFacts ==
  ASSUME Types, NEW i \in Station, frameEnd(i)
  PROVE  /\ i \in toSwitch /\ toSwitch' = toSwitch \ {i} /\ slot = SlotCount
         /\ UNCHANGED <<slot, announced, lost, garbage>>
         /\ late' \in Nat /\ (late' = 0 => late = 0 /\ threads[i] = {})
         /\ threads'[i] \subseteq threads[i] /\ msgForTimeSync'[i] = << >> /\ myUpdatedSlot'[i] = None
         /\ \A r \in Station \ {i} :
              /\ threads'[r] = threads[r] /\ msgForTimeSync'[r] = msgForTimeSync[r]
              /\ joined'[r] = joined[r]
         /\ \A r \in Everybody \ {i} : myUpdatedSlot'[r] = myUpdatedSlot[r] /\ mySlot'[r] = mySlot[r]
         /\ \/ Confirmed(i) /\ mySlot'[i] = Claim(i) /\ ~ joined'[i]
            \/ mySlot'[i] = None /\ ~ joined'[i]
            \/ mySlot'[i] \in FreeSlots(msgForTimeSync[i]) /\ joined'[i]
         /\ Types'
<1> USE ConstantFacts
<1>1. i \in toSwitch /\ toSwitch' = toSwitch \ {i} /\ slot = SlotCount
  BY DEF frameEnd, Types
<1>2. UNCHANGED <<slot, announced, lost, garbage>>
  BY DEF frameEnd
<1>3. late' \in Nat /\ (late' = 0 => late = 0 /\ threads[i] = {})
  BY CounterStays DEF frameEnd, Types
<1>4. PICK checked \in SUBSET threads[i] : threads' = [threads EXCEPT ![i] = checked]
  BY DEF frameEnd
<1>5. /\ threads'[i] = checked /\ \A r \in Station \ {i} : threads'[r] = threads[r]
      /\ threads' = [r \in Station |-> threads'[r]]
  BY <1>4 DEF Types
<1>6. /\ msgForTimeSync'[i] = << >>
      /\ \A r \in Station \ {i} : msgForTimeSync'[r] = msgForTimeSync[r]
      /\ msgForTimeSync' = [r \in Station |-> msgForTimeSync'[r]]
  <2>1. msgForTimeSync' = [msgForTimeSync EXCEPT ![i] = << >>]
    BY DEF frameEnd
  <2> QED
    BY <2>1 DEF Types
<1>7. /\ myUpdatedSlot'[i] = None
      /\ \A r \in Everybody \ {i} : myUpdatedSlot'[r] = myUpdatedSlot[r]
      /\ myUpdatedSlot' \in [Everybody -> Slots \cup {None}]
  BY DEF frameEnd, Types
<1>8. \E x \in Slots \cup {None}, b \in BOOLEAN :
         /\ mySlot' = [mySlot EXCEPT ![i] = x] /\ joined' = [joined EXCEPT ![i] = b]
         /\ \/ Confirmed(i) /\ x = Claim(i) /\ ~ b
            \/ x = None /\ ~ b
            \/ x \in FreeSlots(msgForTimeSync[i]) /\ b
  <2>1. CASE /\ Confirmed(i)
             /\ mySlot' = [mySlot EXCEPT ![i] = IF myUpdatedSlot[i] # None THEN myUpdatedSlot[i] ELSE mySlot[i]]
             /\ joined' = [joined EXCEPT ![i] = FALSE]
    <3>1. Claim(i) \in Slots \cup {None}
      BY DEF Types, Claim
    <3>2. mySlot' = [mySlot EXCEPT ![i] = Claim(i)]
      BY <2>1 DEF Claim
    <3> QED
      BY <2>1, <3>1, <3>2
  <2>2. CASE mySlot' = [mySlot EXCEPT ![i] = None] /\ joined' = [joined EXCEPT ![i] = FALSE]
    <3>1. None \in Slots \cup {None} /\ FALSE \in BOOLEAN
      OBVIOUS
    <3> QED
      BY <2>2, <3>1
  <2>3. CASE /\ \E chosen \in FreeSlots(msgForTimeSync[i]) : mySlot' = [mySlot EXCEPT ![i] = chosen]
             /\ joined' = [joined EXCEPT ![i] = TRUE]
    <3>1. FreeSlots(msgForTimeSync[i]) \subseteq Slots
      BY DEF FreeSlots
    <3> QED
      BY <2>3, <3>1
  <2> QED
    BY <2>1, <2>2, <2>3 DEF frameEnd
<1>9. PICK x \in Slots \cup {None}, b \in BOOLEAN :
         /\ mySlot' = [mySlot EXCEPT ![i] = x] /\ joined' = [joined EXCEPT ![i] = b]
         /\ \/ Confirmed(i) /\ x = Claim(i) /\ ~ b
            \/ x = None /\ ~ b
            \/ x \in FreeSlots(msgForTimeSync[i]) /\ b
  BY <1>8
<1>10. /\ mySlot'[i] = x /\ \A r \in Everybody \ {i} : mySlot'[r] = mySlot[r]
       /\ joined'[i] = b /\ \A r \in Station \ {i} : joined'[r] = joined[r]
       /\ mySlot' \in [Everybody -> Slots \cup {None}] /\ joined' \in [Station -> BOOLEAN]
  BY <1>9 DEF Types
<1>11. Types'
  <2>1. \A f \in Foreign : mySlot'[f] # None
    BY <1>10 DEF Types
  <2>2. \A r \in Station : IsFiniteSet(threads'[r])
    BY <1>5, FS_Subset DEF Types
  <2>3. /\ slot' \in 0..SlotCount /\ announced' \subseteq Slots /\ lost' \in Nat /\ garbage' \in BOOLEAN
        /\ toSwitch' \subseteq Station /\ (toSwitch' # {} => slot' = SlotCount)
    BY <1>1, <1>2 DEF Types
  <2> QED
    BY <1>3, <1>5, <1>6, <1>7, <1>10, <2>1, <2>2, <2>3 DEF Types
<1>12. \/ Confirmed(i) /\ mySlot'[i] = Claim(i) /\ ~ joined'[i]
       \/ mySlot'[i] = None /\ ~ joined'[i]
       \/ mySlot'[i] \in FreeSlots(msgForTimeSync[i]) /\ joined'[i]
  BY <1>9, <1>10
<1> QED
  BY <1>1, <1>2, <1>3, <1>5, <1>6, <1>7, <1>10, <1>11, <1>12

(***************************************************************************)
(* A station whose message is confirmed was heard alone and gets what it   *)
(* owns; one that joins takes what nobody owns.                            *)
(***************************************************************************)
LEMMA FrameEndKeeps ==
  ASSUME TDMAInv, NEW i \in Station, frameEnd(i)
  PROVE  TDMAInv'
<1> USE ConstantFacts
<1> USE DEF TDMAInv
<1>1. /\ i \in toSwitch /\ toSwitch' = toSwitch \ {i} /\ slot = SlotCount
      /\ UNCHANGED <<slot, announced, lost, garbage>>
      /\ late' \in Nat /\ (late' = 0 => late = 0 /\ threads[i] = {})
      /\ threads'[i] \subseteq threads[i] /\ msgForTimeSync'[i] = << >> /\ myUpdatedSlot'[i] = None
  BY FrameEndFacts
<1>2. /\ \A r \in Station \ {i} :
           /\ threads'[r] = threads[r] /\ msgForTimeSync'[r] = msgForTimeSync[r]
           /\ joined'[r] = joined[r]
      /\ \A r \in Everybody \ {i} : myUpdatedSlot'[r] = myUpdatedSlot[r] /\ mySlot'[r] = mySlot[r]
  BY FrameEndFacts
<1>3. \/ Confirmed(i) /\ mySlot'[i] = Claim(i) /\ ~ joined'[i]
      \/ mySlot'[i] = None /\ ~ joined'[i]
      \/ mySlot'[i] \in FreeSlots(msgForTimeSync[i]) /\ joined'[i]
  BY FrameEndFacts
<1>4. Types'
  BY FrameEndFacts
<1>5. /\ ~ Active(i)' /\ Active(i)
      /\ \A r : r # i => (Active(r)' <=> Active(r))
  BY <1>1 DEF Active
<1>6. CASE late' # 0
  BY <1>4, <1>6 DEF HeardInTime, RingInv
<1>7. CASE late' = 0
  <2>1. late = 0 /\ threads[i] = {} /\ threads'[i] = {} /\ msgForTimeSync'[i] = << >>
    BY <1>1, <1>7
  <2>2. Tidy(msgForTimeSync[i], {}, slot) /\ slot \in Nat
    BY <1>1, <2>1 DEF HeardInTime
  <2>3. Tidy(<< >>, {}, slot)
    <3>1. DOMAIN << >> = {} /\ << >> \in Seq(Msg)
      OBVIOUS
    <3> QED
      BY <3>1 DEF Tidy
  <2>4. HeardInTime'
    BY <1>1, <1>2, <1>5, <2>1, <2>3 DEF HeardInTime
  <2>5. CASE lost' # 0
    BY <1>4, <2>4, <2>5 DEF RingInv
  <2>6. CASE lost' = 0
    <3>1. lost = 0 /\ late = 0
      BY <1>1, <2>1, <2>6
    <3>2. Heard(i) = HeardOf(msgForTimeSync[i], {}) /\ announced = Announced(Heard(i))
      BY <1>5, <2>1, <3>1 DEF Heard, RingInv
    <3>3. \A r \in Station \ {i} : Heard(r)' = Heard(r)
      BY <1>2 DEF Heard
    <3>4. UsedSlots(msgForTimeSync[i]) = announced
      BY <2>2, <3>2, UsedAreAnnounced
    <3>5. Confirmed(i) => Owner(i)
      <4> SUFFICES ASSUME Confirmed(i) PROVE Owner(i)
        OBVIOUS
      <4>1. PICK m \in Valid(removeColisons(msgForTimeSync[i])) : m.slot = mySlot[i]
        BY DEF Confirmed
      <4>2. PICK h \in Sole(Heard(i)) : h[2] = mySlot[i]
        BY <2>2, <3>2, <4>1, UsedAreAnnounced
      <4>3. mySlot[i] # None
        <5>1. PICK k \in DOMAIN removeColisons(msgForTimeSync[i]) : m = removeColisons(msgForTimeSync[i])[k]
          BY <4>1 DEF Valid
        <5>2. removeColisons(msgForTimeSync[i]) \in Seq(Msg)
          BY <2>2, RemoveEffect DEF Tidy
        <5>3. m \in Msg
          BY <5>1, <5>2
        <5> QED
          BY <4>1, <5>3 DEF Msg
      <4> QED
        BY <1>5, <4>2, <4>3 DEF Owner, HeardAlone
    <3>6. \A j \in Everybody \ {i} : (Owner(j)' <=> Owner(j)) /\ Claim(j)' = Claim(j)
      BY <1>1, <1>2, <1>5, <3>3 DEF Owner, Claim, HeardAlone
    <3>7. /\ Claim(i)' = mySlot'[i]
          /\ Owner(i)' => Owner(i) /\ mySlot'[i] = Claim(i)
      <4>1. Claim(i)' = mySlot'[i]
        BY <1>1 DEF Claim
      <4>2. ASSUME Owner(i)' PROVE Owner(i) /\ mySlot'[i] = Claim(i)
        <5>1. mySlot'[i] # None /\ ~ joined'[i]
          BY <1>5, <4>2 DEF Owner
        <5> QED
          BY <1>3, <3>5, <5>1
      <4> QED
        BY <4>1, <4>2
    <3>8. joined'[i] => mySlot'[i] \notin announced
      BY <1>3, <3>4 DEF FreeSlots
    <3>9. \A j \in Everybody : Owner(j)' => Owner(j) /\ Claim(j)' = Claim(j)
      BY <3>6, <3>7
    <3>10. \A j \in Everybody : Owner(j)' => Claim(j)' \in announced'
      BY <1>1, <3>1, <3>9 DEF RingInv
    <3>11. \A j, k \in Everybody : Owner(j)' /\ Owner(k)' /\ j # k => Claim(j)' # Claim(k)'
      BY <3>1, <3>9 DEF RingInv
    <3>12. \A r \in Station : Active(r)' => announced' = Announced(Heard(r)')
      BY <1>1, <1>5, <3>1, <3>3 DEF RingInv
    <3>13. \A r \in Station : ~ Active(r)' =>
             /\ joined'[r] => mySlot'[r] \notin announced'
             /\ myUpdatedSlot'[r] = None
      BY <1>1, <1>2, <1>5, <3>1, <3>8 DEF RingInv
    <3>14. \A j \in Everybody :
             myUpdatedSlot'[j] # None => mySlot'[j] # None /\ mySlot'[j] < slot'
      BY <1>1, <1>2, <3>1 DEF RingInv
    <3>15. ~ (slot' < SlotCount)
      BY <1>1
    <3>16. RingInv'
      BY <3>10, <3>11, <3>12, <3>13, <3>14, <3>15 DEF RingInv
    <3> QED
      BY <1>4, <2>4, <3>16
  <2> QED
    BY <2>5, <2>6
<1> QED
  BY <1>6, <1>7

-----------------------------------------------------------------------------
(***************************************************************************)
(* The next frame begins: every owner has what it announced.               *)
(***************************************************************************)
LEMMA NewFrameKeeps ==
  ASSUME TDMAInv, NewFrame
  PROVE  TDMAInv'
<1> USE ConstantFacts
<1> USE DEF TDMAInv
<1>1. /\ slot = SlotCount /\ toSwitch = {} /\ slot' = 0 /\ announced' = {}
      /\ UNCHANGED <<toSwitch, msgForTimeSync, threads, joined, lost, late, garbage>>
  BY DEF NewFrame
<1>2. /\ \A j \in Everybody : myUpdatedSlot'[j] = None
      /\ myUpdatedSlot' \in [Everybody -> Slots \cup {None}]
  BY DEF NewFrame
<1>3. /\ \A j \in Foreign : mySlot'[j] = Claim(j)
      /\ \A j \in Station : mySlot'[j] = mySlot[j]
  BY DEF NewFrame, Claim
<1>4. mySlot' \in [Everybody -> Slots \cup {None}] /\ \A f \in Foreign : mySlot'[f] # None
  <2>1. \A j \in Everybody : mySlot'[j] \in Slots \cup {None}
    BY <1>3 DEF Types, Claim, Everybody
  <2>2. mySlot' = [j \in Everybody |-> mySlot'[j]]
    BY DEF NewFrame
  <2>3. \A f \in Foreign : mySlot'[f] # None
    BY <1>3 DEF Types, Claim
  <2> QED
    BY <2>1, <2>2, <2>3
<1>5. Types'
  BY <1>1, <1>2, <1>4 DEF Types
<1>6. \A r : Active(r)' /\ ~ Active(r)
  BY <1>1 DEF Active
<1>7. CASE late # 0
  BY <1>1, <1>5, <1>7 DEF HeardInTime, RingInv
<1>8. CASE late = 0
  <2>1. \A r \in Station : msgForTimeSync[r] = << >> /\ threads[r] = {}
    BY <1>6, <1>8 DEF HeardInTime
  <2>2. HeardInTime'
    BY <1>1, <1>6, <1>8, <2>1, NothingHeard DEF HeardInTime
  <2>3. \A r \in Station : Heard(r)' = {}
    BY <1>1, <2>1, NothingHeard DEF Heard
  <2>4. \A j \in Everybody : ~ Owner(j)'
    <3>1. ASSUME NEW j \in Station PROVE ~ Owner(j)'
      BY <1>6, <2>3, NothingHeard DEF Owner, HeardAlone
    <3>2. ASSUME NEW j \in Foreign PROVE ~ Owner(j)'
      <4>1. mySlot'[j] \in Nat /\ slot' = 0
        BY <1>1, <1>4
      <4> DEFINE x == mySlot'[j]
      <4> HIDE DEF x
      <4>2. x \in Nat => ~ (x < 0)
        OBVIOUS
      <4>3. ~ (mySlot'[j] < slot')
        BY <4>1, <4>2 DEF x
      <4> QED
        BY <4>3 DEF Owner
    <3> QED
      BY <3>1, <3>2 DEF Everybody
  <2>5. CASE lost # 0
    BY <1>1, <1>5, <2>2, <2>5 DEF RingInv
  <2>6. CASE lost = 0
    <3>1. \A j \in Everybody :
            mySlot'[j] # None => \/ Owner(j) /\ mySlot'[j] = Claim(j) /\ mySlot'[j] \in announced
                                 \/ j \in Station /\ joined[j] /\ mySlot'[j] \notin announced
      <4>1. ASSUME NEW j \in Foreign PROVE Owner(j) /\ mySlot'[j] = Claim(j)
        <5>1. mySlot[j] \in Slots
          BY DEF Types
        <5>2. mySlot[j] # None /\ mySlot[j] < slot /\ j \notin Station
          BY <1>1, <5>1
        <5> QED
          BY <1>3, <5>2 DEF Owner
      <4>2. ASSUME NEW j \in Station, mySlot'[j] # None
            PROVE  \/ Owner(j) /\ mySlot'[j] = Claim(j)
                   \/ joined[j] /\ mySlot'[j] \notin announced
        <5>1. mySlot[j] # None /\ mySlot'[j] = mySlot[j] /\ j \notin Foreign
          BY <1>3, <4>2
        <5>2. /\ joined[j] => mySlot[j] \notin announced
              /\ myUpdatedSlot[j] = None
          BY <1>6, <1>8, <2>6 DEF RingInv
        <5>3. CASE joined[j]
          BY <5>1, <5>2, <5>3
        <5>4. CASE ~ joined[j]
          BY <1>6, <5>1, <5>2, <5>4 DEF Owner, Claim
        <5> QED
          BY <5>3, <5>4
      <4>3. \A j \in Everybody : Owner(j) => Claim(j) \in announced
        BY <1>8, <2>6 DEF RingInv
      <4> QED
        BY <4>1, <4>2, <4>3 DEF Everybody
    <3>2. OnlyJoinersMeet'
      <4> SUFFICES ASSUME NEW i \in Everybody, NEW j \in Everybody,
                          i # j, mySlot'[i] # None, mySlot'[i] = mySlot'[j]
                   PROVE  i \in Station /\ j \in Station /\ joined[i] /\ joined[j]
        BY <1>1 DEF OnlyJoinersMeet
      <4>1. Owner(i) /\ Owner(j) => Claim(i) # Claim(j)
        BY <1>8, <2>6 DEF RingInv
      <4> QED
        BY <3>1, <4>1
    <3>3. RingInv'
      <4>1. \A r \in Station : announced' = Announced(Heard(r)')
        BY <1>1, <2>3, NothingHeard
      <4> QED
        BY <1>2, <1>6, <2>4, <3>2, <4>1 DEF RingInv
    <3> QED
      BY <1>5, <2>2, <3>3
  <2> QED
    BY <2>5, <2>6
<1> QED
  BY <1>7, <1>8

-----------------------------------------------------------------------------
(***************************************************************************)
(* A slot passes: who has it sends.                                        *)
(***************************************************************************)
Senders == {i \in Everybody : mySlot[i] = slot}

Sent(next, S) == {Message(i, next[i]) : i \in S}

GotBy(r, missed) == {i \in Senders : <<i, r>> \notin missed}

LEMMA SlotPassesFacts ==
  ASSUME Types, SlotPasses
  PROVE  \E next \in [Senders -> Slots], missed \in SUBSET (Senders \X Station) :
           /\ slot \in Slots /\ slot' = slot + 1
           /\ UNCHANGED <<mySlot, joined>>
           /\ toSwitch' = IF slot' = SlotCount THEN Station ELSE {}
           /\ late' \in Nat /\ (late' = 0 => late = 0 /\ \A r \in Station : threads[r] = {})
           /\ lost' \in Nat /\ (lost' = 0 => lost = 0 /\ missed = {})
           /\ \A i \in Senders :
                next[i] \in IF i \in Station THEN NextSlot(i) ELSE ForeignSlot
           /\ \A r \in Station : threads'[r] = threads[r] \cup Sent(next, GotBy(r, missed))
           /\ \A j \in Everybody :
                myUpdatedSlot'[j] =
                  IF j \in Senders /\ next[j] # mySlot[j] THEN next[j] ELSE myUpdatedSlot[j]
           /\ announced' = IF Cardinality(Senders) = 1
                           THEN announced \cup {next[i] : i \in Senders} ELSE announced
           /\ \A r \in Station :
                \/ msgForTimeSync'[r] = msgForTimeSync[r]
                \/ msgForTimeSync'[r] = removeColisons(msgForTimeSync[r])
           /\ garbage' = (garbage \/ \E i \in Senders \cap Station : ReadsGarbage(i))
           /\ Types'
<1> USE ConstantFacts
<1>1. PICK next \in [Senders -> Slots], missed \in SUBSET (Senders \X Station) :
        /\ \A i \in Senders : next[i] \in IF i \in Station THEN NextSlot(i) ELSE ForeignSlot
        /\ lost + Cardinality(missed) <= MaxLost
        /\ lost' = lost + Cardinality(missed)
        /\ threads' = [r \in Station |-> threads[r] \cup
                         {Message(i, next[i]) : i \in {s \in Senders : <<s, r>> \notin missed}}]
        /\ myUpdatedSlot' = [i \in Everybody |->
             IF i \in Senders /\ next[i] # mySlot[i] THEN next[i] ELSE myUpdatedSlot[i]]
        /\ announced' = IF Cardinality(Senders) = 1
                        THEN announced \cup {next[i] : i \in Senders} ELSE announced
  BY DEF SlotPasses, Senders
<1>2. /\ slot \in Slots /\ slot' = slot + 1
      /\ UNCHANGED <<mySlot, joined>>
      /\ toSwitch' = IF slot' = SlotCount THEN Station ELSE {}
      /\ garbage' = (garbage \/ \E i \in Senders \cap Station : ReadsGarbage(i))
      /\ msgForTimeSync' = [i \in Station |->
           IF i \in Senders THEN removeColisons(msgForTimeSync[i]) ELSE msgForTimeSync[i]]
      /\ late' = late + Cardinality(UNION {threads[r] : r \in Station})
  BY DEF SlotPasses, Senders
<1>3. IsFiniteSet(Senders) /\ Senders \subseteq Everybody
  BY FS_Subset DEF Senders
<1>4. late' \in Nat /\ (late' = 0 => late = 0 /\ \A r \in Station : threads[r] = {})
  <2> DEFINE T == {threads[r] : r \in Station}
  <2>1. IsFiniteSet(T)
    BY FiniteImage
  <2>2. IsFiniteSet(UNION T)
    <3>1. \A t \in T : IsFiniteSet(t)
      BY DEF Types
    <3> HIDE DEF T
    <3> QED
      BY <2>1, <3>1, FS_UNION
  <2>3. late' \in Nat /\ (late' = 0 => late = 0 /\ UNION T = {})
    BY <1>2, <2>2, CounterStays DEF Types
  <2>4. UNION T = {} => \A r \in Station : threads[r] = {}
    OBVIOUS
  <2> QED
    BY <2>3, <2>4
<1>5. lost' \in Nat /\ (lost' = 0 => lost = 0 /\ missed = {})
  <2>1. IsFiniteSet(Senders \X Station)
    BY <1>3, FS_Product
  <2>2. IsFiniteSet(missed)
    BY <2>1, FS_Subset
  <2> QED
    BY <1>1, <2>2, CounterStays DEF Types
<1>6. \A r \in Station : threads'[r] = threads[r] \cup Sent(next, GotBy(r, missed))
  BY <1>1 DEF Sent, GotBy
<1>7. \A r \in Station : IsFiniteSet(threads'[r])
  <2> SUFFICES ASSUME NEW r \in Station PROVE IsFiniteSet(threads'[r])
    OBVIOUS
  <2> DEFINE G == GotBy(r, missed)
             f == [i \in G |-> Message(i, next[i])]
  <2>1. IsFiniteSet(G)
    <3>1. G \subseteq Senders
      BY DEF GotBy
    <3> QED
      BY <1>3, <3>1, FS_Subset
  <2>2. Sent(next, G) = {f[i] : i \in G}
    BY DEF Sent
  <2>3. IsFiniteSet(Sent(next, G))
    <3> HIDE DEF G, f
    <3> QED
      BY <2>1, <2>2, FiniteImage
  <2> HIDE DEF G
  <2>4. threads'[r] = threads[r] \cup Sent(next, G)
    BY <1>6 DEF G
  <2>5. IsFiniteSet(threads[r])
    BY DEF Types
  <2>6. IsFiniteSet(threads[r] \cup Sent(next, G))
    BY <2>3, <2>5, FS_Union
  <2> QED
    BY <2>4, <2>6
<1>8. /\ myUpdatedSlot' \in [Everybody -> Slots \cup {None}]
      /\ \A j \in Everybody :
           myUpdatedSlot'[j] =
             IF j \in Senders /\ next[j] # mySlot[j] THEN next[j] ELSE myUpdatedSlot[j]
  BY <1>1 DEF Types
<1>9. announced' \subseteq Slots
  BY <1>1 DEF Types
<1>10. /\ slot' \in 0..SlotCount /\ toSwitch' \subseteq Station /\ (toSwitch' # {} => slot' = SlotCount)
       /\ garbage' \in BOOLEAN
  <2>1. slot \in Nat /\ slot < SlotCount
    BY <1>2
  <2> QED
    BY <1>2, <2>1 DEF Types
<1>11. /\ msgForTimeSync' = [i \in Station |-> msgForTimeSync'[i]]
       /\ threads' = [i \in Station |-> threads'[i]]
       /\ \A r \in Station : \/ msgForTimeSync'[r] = msgForTimeSync[r]
                             \/ msgForTimeSync'[r] = removeColisons(msgForTimeSync[r])
  BY <1>1, <1>2
<1>12. Types'
  BY <1>2, <1>4, <1>5, <1>7, <1>8, <1>9, <1>10, <1>11 DEF Types
<1>13. /\ slot \in Slots /\ slot' = slot + 1
       /\ UNCHANGED <<mySlot, joined>>
       /\ toSwitch' = IF slot' = SlotCount THEN Station ELSE {}
       /\ late' \in Nat /\ (late' = 0 => late = 0 /\ \A r \in Station : threads[r] = {})
       /\ lost' \in Nat /\ (lost' = 0 => lost = 0 /\ missed = {})
       /\ \A i \in Senders :
            next[i] \in IF i \in Station THEN NextSlot(i) ELSE ForeignSlot
       /\ announced' = IF Cardinality(Senders) = 1
                       THEN announced \cup {next[i] : i \in Senders} ELSE announced
       /\ garbage' = (garbage \/ \E i \in Senders \cap Station : ReadsGarbage(i))
  BY <1>1, <1>2, <1>4, <1>5
<1> QED
  BY <1>6, <1>8, <1>11, <1>12, <1>13

(***************************************************************************)
(* The messages of the slot come after everything in the list.             *)
(***************************************************************************)
LEMMA MessageFacts ==
  ASSUME slot \in Slots, NEW i \in Everybody, NEW n \in Slots
  PROVE  /\ Message(i, n) \in Msg /\ Message(i, n).slot = slot /\ Message(i, n).valide
         /\ Message(i, n).index = Base(slot) + Delay[i]
         /\ Base(slot) <= Message(i, n).index /\ Message(i, n).index < Base(slot + 1)
         /\ Key(Message(i, n)) = <<Base(slot) + Delay[i], slot, n>>
<1> USE ConstantFacts
<1>1. slot \in Nat /\ Base(slot) \in Nat /\ Base(slot + 1) = Base(slot) + Cardinality(Everybody)
  BY NextBase
<1>2. Delay[i] \in Nat /\ Delay[i] < Cardinality(Everybody)
  <2>1. Delay[i] \in 0..Cardinality(Everybody) - 1
    BY TDMAAssumption
  <2> QED
    BY <2>1
<1>3. Message(i, n) = [index |-> Base(slot) + Delay[i], slot |-> slot, nextSlot |-> n, valide |-> TRUE]
  BY DEF Message, Base
<1>4. /\ Base(slot) + Delay[i] \in Nat /\ Base(slot) <= Base(slot) + Delay[i]
      /\ Base(slot) + Delay[i] < Base(slot + 1)
  BY <1>1, <1>2
<1> QED
  BY <1>3, <1>4 DEF Msg, Key

LEMMA DelaysDiffer ==
  ASSUME NEW i \in Everybody, NEW j \in Everybody, NEW b \in Nat, b + Delay[i] = b + Delay[j]
  PROVE  i = j
<1>1. Delay[i] \in 0..Cardinality(Everybody) - 1 /\ Delay[j] \in 0..Cardinality(Everybody) - 1
  BY TDMAAssumption
<1>2. Delay[i] = Delay[j]
  BY <1>1, ConstantFacts
<1> QED
  BY <1>2, TDMAAssumption

LEMMA SlotTidy ==
  ASSUME slot \in Slots, NEW list, Tidy(list, {}, slot),
         NEW next \in [Senders -> Slots], NEW S \in SUBSET Senders
  PROVE  Tidy(list, Sent(next, S), slot + 1)
<1> USE ConstantFacts
<1> DEFINE T == Sent(next, S)
<1>1. slot \in Nat /\ (slot + 1) - 1 = slot
  OBVIOUS
<1>2. Base(slot) \in Nat /\ Base(slot + 1) \in Nat /\ Base(slot) <= Base(slot + 1)
  BY <1>1, NextBase
<1>3. \A i \in S : i \in Everybody /\ next[i] \in Slots
  BY DEF Senders
<1>4. \A m \in T : \E i \in S : m = Message(i, next[i])
  BY DEF Sent
<1> HIDE DEF T
<1>5. \A m \in T : m \in Msg /\ m.slot = slot /\ m.valide /\ Base(slot) <= m.index /\ m.index < Base(slot + 1)
  <2> SUFFICES ASSUME NEW m \in T
               PROVE  /\ m \in Msg /\ m.slot = slot /\ m.valide
                      /\ Base(slot) <= m.index /\ m.index < Base(slot + 1)
    OBVIOUS
  <2>1. PICK i \in S : m = Message(i, next[i])
    BY <1>4
  <2>2. i \in Everybody /\ next[i] \in Slots
    BY <1>3
  <2> QED
    BY <2>1, <2>2, MessageFacts
<1>6. ASSUME NEW m \in T, NEW n \in T, m.index = n.index PROVE m = n
  <2>1. PICK i \in S : m = Message(i, next[i])
    BY <1>4
  <2>2. PICK j \in S : n = Message(j, next[j])
    BY <1>4
  <2>3. Base(slot) + Delay[i] = Base(slot) + Delay[j]
    <3>1. m.index = Base(slot) + Delay[i]
      BY <1>3, <2>1, MessageFacts
    <3>2. n.index = Base(slot) + Delay[j]
      BY <1>3, <2>2, MessageFacts
    <3> QED
      BY <1>6, <3>1, <3>2
  <2>4. i = j
    BY <1>2, <1>3, <2>3, DelaysDiffer
  <2> QED
    BY <2>1, <2>2, <2>4
<1>7. list \in Seq(Msg)
  BY DEF Tidy
<1>8. ASSUME NEW k \in DOMAIN list
      PROVE  /\ list[k].slot < slot + 1 /\ list[k].index < Base(slot + 1)
             /\ list[k].slot < slot => list[k].index < Base(slot)
             /\ \A m \in T : list[k].index # m.index
  <2>1. list[k].slot < slot /\ list[k].index < Base(slot)
    BY DEF Tidy
  <2>2. list[k] \in Msg
    BY <1>7
  <2>3. list[k].slot \in Nat /\ list[k].index \in Nat
    BY <2>2 DEF Msg
  <2>4. ASSUME NEW m \in T PROVE list[k].index # m.index
    <3>1. m.index \in Nat /\ Base(slot) <= m.index
      BY <1>5 DEF Msg
    <3> QED
      BY <1>2, <2>1, <2>3, <3>1
  <2> QED
    BY <1>1, <1>2, <2>1, <2>3, <2>4
<1>9. /\ \A k, l \in DOMAIN list : k < l => list[k].slot <= list[l].slot
      /\ \A k, l \in DOMAIN list : list[k].index = list[l].index => k = l
      /\ \A k \in DOMAIN list : list[k].valide \/ \E l \in DOMAIN list : l # k /\ list[l].slot = list[k].slot
  BY DEF Tidy
<1>10. T \subseteq Msg
  BY <1>5
<1>11. Tidy(list, T, slot + 1)
  BY <1>1, <1>5, <1>6, <1>7, <1>8, <1>9, <1>10 DEF Tidy
<1> QED
  BY <1>11 DEF T

(***************************************************************************)
(* What a station announces has not been announced.                        *)
(***************************************************************************)
LEMMA NextSlotIsNew ==
  ASSUME NEW i \in Station, slot \in Slots, Tidy(msgForTimeSync[i], {}, slot), NEW n \in NextSlot(i)
  PROVE  n \notin UsedSlots(msgForTimeSync[i])
<1>1. FreeSlots(msgForTimeSync[i]) # {}
  BY FreeSlotIsLeft
<1>2. FreeSlots(msgForTimeSync[i]) \in SUBSET Nat
  BY ConstantFacts DEF FreeSlots
<1>3. Min(FreeSlots(msgForTimeSync[i])) \in FreeSlots(msgForTimeSync[i])
  BY <1>1, <1>2, LeastElement
<1> QED
  BY <1>1, <1>3 DEF NextSlot, FreeSlots

(***************************************************************************)
(* A message that has the new slot alone is one more that was heard alone; *)
(* several in the new slot are none.                                       *)
(***************************************************************************)
LEMMA SoleAdded ==
  ASSUME NEW H, NEW N, NEW s \in Slots, \A h \in H : h[2] # s, \A h \in N : h[2] = s
  PROVE  /\ \A h \in N : N = {h} => Sole(H \cup N) = Sole(H) \cup N
         /\ (\A h : N # {h}) => Sole(H \cup N) = Sole(H)
<1>1. ASSUME NEW h, N = {h} PROVE Sole(H \cup N) = Sole(H) \cup N
  BY <1>1 DEF Sole
<1>2. ASSUME \A h : N # {h} PROVE Sole(H \cup N) = Sole(H)
  <2>1. ASSUME NEW h \in Sole(H \cup N) PROVE h \in Sole(H)
    <3>1. CASE h \in N
      <4>1. N = {h}
        BY <2>1, <3>1 DEF Sole
      <4> QED
        BY <1>2, <4>1
    <3>2. CASE h \in H
      BY <2>1, <3>2 DEF Sole
    <3> QED
      BY <2>1, <3>1, <3>2 DEF Sole
  <2>2. ASSUME NEW h \in Sole(H) PROVE h \in Sole(H \cup N)
    BY <2>2 DEF Sole
  <2> QED
    BY <2>1, <2>2
<1> QED
  BY <1>1, <1>2

SlotAdds(H, K, next) ==
  /\ \A h \in H : h[2] < slot
  /\ \A q : Senders = {q} =>
       \E h : h[2] = slot /\ h[3] = next[q] /\ Sole(K) = Sole(H) \cup {h}
  /\ (\A q : Senders # {q}) => Sole(K) = Sole(H)

LEMMA HeardInSlot ==
  ASSUME slot \in Slots, NEW list, NEW new, Tidy(list, {}, slot),
         new = list \/ new = removeColisons(list), NEW next \in [Senders -> Slots]
  PROVE  SlotAdds(HeardOf(list, {}), HeardOf(new, Sent(next, Senders)), next)
<1> USE ConstantFacts
<1> DEFINE H == HeardOf(list, {})
           K == HeardOf(new, Sent(next, Senders))
           key(i) == <<Base(slot) + Delay[i], slot, next[i]>>
           N == {key(i) : i \in Senders}
<1>1. slot \in Nat /\ Base(slot) \in Nat
  BY NextBase
<1>2. HeardOf(new, {}) = H
  BY <1>1, RemoveTidy
<1>3. \A i \in Senders : i \in Everybody /\ next[i] \in Slots
  BY DEF Senders
<1>4. \A i \in Senders : Key(Message(i, next[i])) = key(i)
  BY <1>3, MessageFacts
<1>5. {Key(m) : m \in Sent(next, Senders)} = N
  BY <1>4 DEF Sent
<1>6. K = H \cup N
  <2>1. K = HeardOf(new, {}) \cup {Key(m) : m \in Sent(next, Senders)}
    BY DEF HeardOf
  <2> QED
    BY <1>2, <1>5, <2>1
<1>7. \A h \in H : h[2] \in Nat /\ h[2] < slot
  <2> SUFFICES ASSUME NEW h \in H PROVE h[2] \in Nat /\ h[2] < slot
    OBVIOUS
  <2>1. PICK k \in DOMAIN list : h = Key(list[k])
    BY DEF HeardOf
  <2>2. list[k] \in Msg /\ list[k].slot < slot
    BY DEF Tidy
  <2> QED
    BY <2>1, <2>2 DEF Key, Msg
<1>8. \A h \in N : h[2] = slot
  OBVIOUS
<1>9. \A h \in H : h[2] # slot
  BY <1>1, <1>7
<1> HIDE DEF H, K
<1>10. ASSUME NEW q, Senders = {q} PROVE N = {key(q)}
  BY <1>10
<1>11. ASSUME \A q : Senders # {q}, NEW h, N = {h} PROVE FALSE
  <2>1. PICK i \in Senders : h = key(i)
    BY <1>11
  <2>2. PICK j \in Senders : j # i
    BY <1>11
  <2>3. key(j) = key(i)
    BY <1>11, <2>1
  <2>4. Base(slot) + Delay[i] = Base(slot) + Delay[j]
    BY <2>3
  <2> QED
    BY <1>1, <1>3, <2>2, <2>4, DelaysDiffer
<1>12. ASSUME NEW q, Senders = {q}
       PROVE  \E h : h[2] = slot /\ h[3] = next[q] /\ Sole(K) = Sole(H) \cup {h}
  <2>1. N = {key(q)}
    BY <1>10, <1>12
  <2>2. key(q)[2] = slot /\ key(q)[3] = next[q]
    OBVIOUS
  <2> HIDE DEF key, N
  <2>3. Sole(H \cup N) = Sole(H) \cup N
    <3>1. slot \in Slots /\ key(q) \in N
      BY <2>1
    <3>2. \A h \in N : N = {h} => Sole(H \cup N) = Sole(H) \cup N
      BY <1>8, <1>9, <3>1, SoleAdded
    <3> QED
      BY <2>1, <3>1, <3>2, Zenon
  <2>4. Sole(K) = Sole(H) \cup {key(q)}
    BY <1>6, <2>1, <2>3
  <2> QED
    BY <2>2, <2>4
<1>13. ASSUME \A q : Senders # {q} PROVE Sole(K) = Sole(H)
  <2>1. \A h : N # {h}
    BY <1>11, <1>13
  <2> HIDE DEF N
  <2>2. Sole(H \cup N) = Sole(H)
    BY <1>8, <1>9, <2>1, SoleAdded
  <2> QED
    BY <1>6, <2>2
<1> QED
  BY <1>7, <1>12, <1>13 DEF SlotAdds, H, K

(***************************************************************************)
(* A sender that has its slot alone announces a slot that nobody has       *)
(* announced, and owns it from then on; where stations meet, nobody does.  *)
(***************************************************************************)
LEMMA SlotPassesKeeps ==
  ASSUME TDMAInv, SlotPasses
  PROVE  TDMAInv'
<1> USE ConstantFacts
<1> USE DEF TDMAInv
<1>1. PICK next \in [Senders -> Slots], missed \in SUBSET (Senders \X Station) :
           /\ slot \in Slots /\ slot' = slot + 1
           /\ UNCHANGED <<mySlot, joined>>
           /\ toSwitch' = IF slot' = SlotCount THEN Station ELSE {}
           /\ late' \in Nat /\ (late' = 0 => late = 0 /\ \A r \in Station : threads[r] = {})
           /\ lost' \in Nat /\ (lost' = 0 => lost = 0 /\ missed = {})
           /\ \A i \in Senders :
                next[i] \in IF i \in Station THEN NextSlot(i) ELSE ForeignSlot
           /\ \A r \in Station : threads'[r] = threads[r] \cup Sent(next, GotBy(r, missed))
           /\ \A j \in Everybody :
                myUpdatedSlot'[j] =
                  IF j \in Senders /\ next[j] # mySlot[j] THEN next[j] ELSE myUpdatedSlot[j]
           /\ announced' = IF Cardinality(Senders) = 1
                           THEN announced \cup {next[i] : i \in Senders} ELSE announced
           /\ \A r \in Station :
                \/ msgForTimeSync'[r] = msgForTimeSync[r]
                \/ msgForTimeSync'[r] = removeColisons(msgForTimeSync[r])
           /\ garbage' = (garbage \/ \E i \in Senders \cap Station : ReadsGarbage(i))
           /\ Types'
  BY SlotPassesFacts
<1>2. slot \in Nat /\ slot < SlotCount /\ Senders \subseteq Everybody
  BY <1>1 DEF Senders
<1>3. \A r \in Station : Active(r) /\ Active(r)'
  <2>1. \A r \in Station : Active(r)
    BY <1>2 DEF Active
  <2>2. slot' < SlotCount \/ slot' = SlotCount
    BY <1>1, <1>2
  <2> QED
    BY <1>1, <2>1, <2>2 DEF Active
<1>4. CASE late' # 0
  BY <1>1, <1>4 DEF HeardInTime, RingInv
<1>5. CASE late' = 0
  <2>1. late = 0 /\ \A r \in Station : threads[r] = {} /\ Tidy(msgForTimeSync[r], {}, slot)
    BY <1>1, <1>5 DEF HeardInTime
  <2>2. ASSUME NEW r \in Station PROVE Tidy(msgForTimeSync'[r], threads'[r], slot')
    <3>1. Tidy(msgForTimeSync'[r], {}, slot)
      BY <1>1, <1>2, <2>1, RemoveTidy
    <3>2. threads'[r] = Sent(next, GotBy(r, missed)) /\ GotBy(r, missed) \in SUBSET Senders
      BY <1>1, <2>1 DEF GotBy
    <3> QED
      BY <1>1, <3>1, <3>2, SlotTidy
  <2>3. ~ garbage'
    <3>1. ASSUME NEW i \in Senders \cap Station PROVE ~ ReadsGarbage(i)
      BY <1>1, <2>1, FreeSlotIsLeft DEF ReadsGarbage
    <3> QED
      BY <1>1, <2>1, <3>1 DEF HeardInTime
  <2>4. HeardInTime'
    BY <1>3, <2>2, <2>3 DEF HeardInTime
  <2>5. CASE lost' # 0
    BY <1>1, <2>4, <2>5 DEF RingInv
  <2>6. CASE lost' = 0
    <3>1. lost = 0 /\ \A r \in Station : GotBy(r, missed) = Senders
      BY <1>1, <2>6 DEF GotBy
    <3>2. /\ OnlyJoinersMeet
          /\ \A r \in Station : announced = Announced(Heard(r))
          /\ \A j \in Everybody : Owner(j) => Claim(j) \in announced
          /\ \A i, j \in Everybody : Owner(i) /\ Owner(j) /\ i # j => Claim(i) # Claim(j)
          /\ \A j \in Everybody : myUpdatedSlot[j] # None => mySlot[j] # None /\ mySlot[j] < slot
      BY <1>2, <1>3, <2>1, <3>1 DEF RingInv
    <3>3. \A r \in Station : Heard(r) = HeardOf(msgForTimeSync[r], {})
      BY <2>1 DEF Heard
    <3>4. \A r \in Station : Heard(r)' = HeardOf(msgForTimeSync'[r], Sent(next, Senders))
      BY <1>1, <2>1, <3>1 DEF Heard
    <3>5. ASSUME NEW r \in Station
          PROVE  /\ \A h \in Heard(r) : h[2] < slot
                 /\ \A q : Senders = {q} =>
                      \E h : h[2] = slot /\ h[3] = next[q] /\ Sole(Heard(r)') = Sole(Heard(r)) \cup {h}
                 /\ (\A q : Senders # {q}) => Sole(Heard(r)') = Sole(Heard(r))
      <4>1. slot \in Slots /\ Tidy(msgForTimeSync[r], {}, slot)
        BY <1>1, <2>1
      <4>2. \/ msgForTimeSync'[r] = msgForTimeSync[r]
            \/ msgForTimeSync'[r] = removeColisons(msgForTimeSync[r])
        BY <1>1
      <4>3. Heard(r) = HeardOf(msgForTimeSync[r], {})
        BY <3>3
      <4>4. Heard(r)' = HeardOf(msgForTimeSync'[r], Sent(next, Senders))
        BY <3>4
      <4>5. SlotAdds(HeardOf(msgForTimeSync[r], {}),
                     HeardOf(msgForTimeSync'[r], Sent(next, Senders)), next)
        BY <4>1, <4>2, HeardInSlot
      <4>6. SlotAdds(Heard(r), Heard(r)', next)
        BY <4>3, <4>4, <4>5
      <4> QED
        BY <4>6 DEF SlotAdds
    <3>6. Cardinality(Senders) = 1 <=> \E q : Senders = {q}
      <4>1. IsFiniteSet(Senders)
        BY <1>2, FS_Subset
      <4> QED
        BY <4>1, FS_Singleton
    <3>7. \A j \in Everybody : mySlot'[j] = mySlot[j] /\ (j \in Station => joined'[j] = joined[j])
      BY <1>1
    <3>8. \A j \in Everybody : j \notin Senders => mySlot[j] # slot /\ Claim(j)' = Claim(j)
      BY <1>1, <3>7 DEF Claim, Senders
    <3>9. ASSUME NEW q, Senders = {q}
          PROVE  q \in Everybody /\ mySlot[q] = slot /\ next[q] \notin announced /\ Claim(q)' = next[q]
      <4>1. q \in Senders /\ q \in Everybody /\ mySlot[q] = slot
        BY <3>9 DEF Senders
      <4>2. next[q] \notin announced
        <5>1. CASE q \in Station
          <6>1. next[q] \in NextSlot(q) /\ slot \in Slots /\ Tidy(msgForTimeSync[q], {}, slot)
            BY <1>1, <2>1, <4>1, <5>1
          <6>2. UsedSlots(msgForTimeSync[q]) = announced
            BY <1>2, <3>2, <3>3, <5>1, <6>1, UsedAreAnnounced
          <6> QED
            BY <5>1, <6>1, <6>2, NextSlotIsNew
        <5>2. CASE q \notin Station
          BY <1>1, <4>1, <5>2 DEF ForeignSlot
        <5> QED
          BY <5>1, <5>2
      <4>3. myUpdatedSlot[q] = None
        <5>1. ~ (mySlot[q] < slot)
          BY <1>2, <4>1
        <5> QED
          BY <3>2, <4>1, <5>1
      <4>4. Claim(q)' = next[q]
        <5>1. myUpdatedSlot'[q] = IF next[q] # mySlot[q] THEN next[q] ELSE None
          BY <1>1, <4>1, <4>3
        <5>2. next[q] \in Slots /\ mySlot'[q] = mySlot[q]
          BY <3>7, <4>1
        <5> QED
          BY <5>1, <5>2 DEF Claim
      <4> QED
        BY <4>1, <4>2, <4>4
    <3>10. ASSUME NEW j \in Everybody, Owner(j)'
           PROVE  Senders = {j} \/ (Owner(j) /\ j \notin Senders)
      <4>0. mySlot[j] # None
        BY <3>7, <3>10 DEF Owner
      <4>1. CASE j \in Station
        <5>1. PICK h \in Sole(Heard(j)') : h[2] = mySlot[j]
          BY <1>3, <3>7, <3>10, <4>1 DEF Owner, HeardAlone
        <5>2. CASE h \in Sole(Heard(j))
          <6>1. h[2] < slot /\ h[2] \in Nat
            <7>1. h[2] \in Slots
              BY <4>0, <5>1 DEF Types
            <7> QED
              BY <3>5, <4>1, <5>2, <7>1 DEF Sole
          <6>2. j \notin Senders
            BY <1>2, <5>1, <6>1 DEF Senders
          <6>3. Owner(j)
            BY <1>3, <4>0, <4>1, <5>1, <5>2 DEF Owner, HeardAlone
          <6> QED
            BY <6>2, <6>3
        <5>3. CASE h \notin Sole(Heard(j))
          <6>1. PICK q : Senders = {q}
            BY <3>5, <4>1, <5>1, <5>3
          <6>2. h[2] = slot
            BY <3>5, <4>1, <5>1, <5>3, <6>1
          <6>3. j \in Senders
            BY <5>1, <6>2 DEF Senders
          <6>4. j = q
            BY <6>1, <6>3
          <6> QED
            BY <6>1, <6>4
        <5> QED
          BY <5>2, <5>3
      <4>2. CASE j \in Foreign
        <5>1. mySlot[j] \in Nat /\ mySlot[j] < slot + 1 /\ j \notin Station
          <6>1. mySlot[j] \in Slots
            BY <4>0 DEF Types
          <6> QED
            BY <1>1, <3>7, <3>10, <4>2, <6>1 DEF Owner
        <5>2. CASE mySlot[j] = slot
          <6>1. j \in Senders
            BY <5>2 DEF Senders
          <6>2. ASSUME NEW i \in Senders PROVE i = j
            <7>1. i \in Everybody /\ mySlot[i] = mySlot[j] /\ mySlot[i] # None
              BY <4>0, <5>2 DEF Senders
            <7> QED
              BY <3>2, <5>1, <7>1 DEF OnlyJoinersMeet
          <6>3. Senders = {j}
            BY <6>1, <6>2
          <6> QED
            BY <6>3
        <5>3. CASE mySlot[j] # slot
          <6>1. mySlot[j] < slot /\ j \notin Senders
            BY <1>2, <5>1, <5>3 DEF Senders
          <6> QED
            BY <4>0, <5>1, <6>1 DEF Owner
        <5> QED
          BY <5>2, <5>3
      <4> QED
        BY <4>1, <4>2 DEF Everybody
    <3>11. /\ announced \subseteq announced'
           /\ \A q : Senders = {q} => announced' = announced \cup {next[q]}
           /\ (\A q : Senders # {q}) => announced' = announced
      <4>1. announced' = IF Cardinality(Senders) = 1
                         THEN announced \cup {next[i] : i \in Senders} ELSE announced
        BY <1>1
      <4>2. ASSUME NEW q, Senders = {q} PROVE announced' = announced \cup {next[q]}
        <5>1. announced' = announced \cup {next[i] : i \in Senders}
          BY <3>6, <4>1, <4>2
        <5>2. {next[i] : i \in Senders} = {next[q]}
          BY <4>2
        <5> QED
          BY <5>1, <5>2
      <4>3. ASSUME \A q : Senders # {q} PROVE announced' = announced
        BY <3>6, <4>1, <4>3
      <4>4. announced \subseteq announced'
        BY <4>1
      <4> QED
        BY <4>2, <4>3, <4>4
    <3>13. \A j \in Everybody : Owner(j)' => Claim(j)' \in announced'
      BY <3>2, <3>8, <3>9, <3>10, <3>11
    <3>14. \A i, j \in Everybody : Owner(i)' /\ Owner(j)' /\ i # j => Claim(i)' # Claim(j)'
      <4> SUFFICES ASSUME NEW i \in Everybody, NEW j \in Everybody, Owner(i)', Owner(j)', i # j
                   PROVE  Claim(i)' # Claim(j)'
        OBVIOUS
      <4>1. CASE Senders = {i}
        <5>1. Owner(j) /\ j \notin Senders /\ Claim(j)' = Claim(j)
          BY <3>8, <3>10, <4>1
        <5> QED
          BY <3>2, <3>9, <4>1, <5>1
      <4>2. CASE Senders = {j}
        <5>1. Owner(i) /\ i \notin Senders /\ Claim(i)' = Claim(i)
          BY <3>8, <3>10, <4>2
        <5> QED
          BY <3>2, <3>9, <4>2, <5>1
      <4>3. CASE Senders # {i} /\ Senders # {j}
        BY <3>2, <3>8, <3>10, <4>3
      <4> QED
        BY <4>1, <4>2, <4>3
    <3>15. ASSUME NEW r \in Station PROVE announced' = Announced(Heard(r)')
      <4>1. announced = {h[3] : h \in Sole(Heard(r))}
        BY <3>2 DEF Announced
      <4>2. CASE \E q : Senders = {q}
        <5>1. PICK q : Senders = {q}
          BY <4>2
        <5>2. PICK h : h[3] = next[q] /\ Sole(Heard(r)') = Sole(Heard(r)) \cup {h}
          BY <3>5, <5>1
        <5> QED
          BY <3>11, <4>1, <5>1, <5>2 DEF Announced
      <4>3. CASE \A q : Senders # {q}
        BY <3>5, <3>11, <4>1, <4>3 DEF Announced
      <4> QED
        BY <4>2, <4>3
    <3>16. ASSUME NEW j \in Everybody, myUpdatedSlot'[j] # None
           PROVE  mySlot'[j] # None /\ mySlot'[j] < slot'
      <4>1. CASE j \in Senders
        BY <1>1, <1>2, <3>7, <4>1 DEF Senders
      <4>2. CASE j \notin Senders
        <5>1. mySlot[j] # None /\ mySlot[j] < slot
          BY <1>1, <3>2, <3>16, <4>2
        <5>2. mySlot[j] \in Nat
          BY <5>1 DEF Types
        <5> QED
          BY <1>1, <1>2, <3>7, <5>1, <5>2
      <4> QED
        BY <4>1, <4>2
    <3>17. OnlyJoinersMeet'
      BY <3>2, <3>7 DEF OnlyJoinersMeet
    <3>18. RingInv'
      BY <1>3, <3>13, <3>14, <3>15, <3>16, <3>17 DEF RingInv
    <3> QED
      BY <1>1, <2>4, <3>18
  <2> QED
    BY <2>5, <2>6
<1> QED
  BY <1>4, <1>5

-----------------------------------------------------------------------------
LEMMA TDMAInvNext ==
  ASSUME TDMAInv, [TDMANext]_tdmaVars
  PROVE  TDMAInv'
<1>1. CASE SlotPasses
  BY <1>1, SlotPassesKeeps
<1>2. CASE NewFrame
  BY <1>2, NewFrameKeeps
<1>3. ASSUME NEW i \in Station, frameEnd(i)
      PROVE  TDMAInv'
  BY <1>3, FrameEndKeeps
<1>4. ASSUME NEW i \in Station, NEW m \in threads[i], recived(i, m)
      PROVE  TDMAInv'
  BY <1>4, RecivedKeeps
<1>5. CASE UNCHANGED tdmaVars
  <2>1. UNCHANGED <<slot, toSwitch, mySlot, myUpdatedSlot, msgForTimeSync, threads, joined,
                    announced, lost, late, garbage>>
    BY <1>5 DEF tdmaVars
  <2> QED
    BY <2>1 DEF TDMAInv, Types, HeardInTime, RingInv, Active, Heard, HeardAlone, Owner, Claim,
                OnlyJoinersMeet
<1> QED
  BY <1>1, <1>2, <1>3, <1>4, <1>5 DEF TDMANext

LEMMA TDMAInvHolds == TDMASpec => []TDMAInv
BY TDMAInvInit, TDMAInvNext, PTL DEF TDMASpec

(***************************************************************************)
(* As long as no message was lost or late, a slot has one user, for any    *)
(* number of stations of this and of other programs: only those that have  *)
(* both chosen it at the end of the last frame may meet in it.             *)
(***************************************************************************)
THEOREM SlotsHaveOneUser == TDMASpec => []OneUserOfASlot
<1>1. TDMAInv => OneUserOfASlot
  <2> SUFFICES ASSUME TDMAInv, slot = 0, lost = 0, late = 0
               PROVE  OneUserOfASlot
    BY DEF OneUserOfASlot
  <2>1. slot < SlotCount
    BY ConstantFacts
  <2>2. OnlyJoinersMeet
    BY <2>1 DEF TDMAInv, RingInv
  <2>3. Station \subseteq Everybody
    BY DEF Everybody
  <2> QED
    BY <2>2, <2>3 DEF OneUserOfASlot, OnlyJoinersMeet
<1> QED
  BY <1>1, TDMAInvHolds, PTL

(***************************************************************************)
(* Even if messages get lost, a station that has to move finds a free slot *)
(* and never reads the first element of an empty list, unless a message    *)
(* was late: fewer slots are announced than have passed.                   *)
(***************************************************************************)
THEOREM MovesFindSlots == TDMASpec => []MoveFindsSlot
<1>1. TDMAInv => MoveFindsSlot
  BY DEF TDMAInv, Types, HeardInTime, MoveFindsSlot
<1> QED
  BY <1>1, TDMAInvHolds, PTL
=============================================================================
