-------------------------- MODULE SearchBoxProofs --------------------------
(***************************************************************************)
(* What is proved about the search panel: an open window shows the results *)
(* of what is in the field, Up undoes Down in the results, the search      *)
(* finds what begins with the text, and the menu of filters stays open     *)
(* under the mouse.                                                        *)
(***************************************************************************)
EXTENDS SearchBox, SequenceTheorems, WellFoundedInduction, TLAPS

BoxFields ==
  {"field", "lastSearchValue", "lastResultsPage", "searchIndex", "bullet", "searchActive",
   "active", "results", "menu", "keyTimeout", "strayKeyTimers", "hideTimeout",
   "strayHideTimers", "loading", "astray"}

IsBox(b) == b = [f \in BoxFields |-> b[f]]

-----------------------------------------------------------------------------
(***************************************************************************)
(* Natural numbers: the least and the greatest of a set, and induction.    *)
(***************************************************************************)
LEMMA MinLeast ==
  ASSUME NEW S \in SUBSET Nat, S # {}
  PROVE  Min(S) \in S /\ \A x \in S : Min(S) <= x
<1> DEFINE R == OpToRel(<, Nat)
<1>1. \A x, y \in Nat : <<x, y>> \in R <=> x < y
  BY DEF OpToRel
<1>2. PICK x \in S : \A y \in S : ~ (<<y, x>> \in R)
  <2>1. IsWellFoundedOn(R, Nat)
    BY NatLessThanWellFounded
  <2> HIDE DEF R
  <2> QED
    BY <2>1, WFMin
<1>3. ASSUME NEW y \in S
      PROVE  x <= y
  <2> HIDE DEF R
  <2>1. x \in Nat /\ y \in Nat
    OBVIOUS
  <2>2. ~ (y < x)
    BY <1>1, <1>2, <2>1
  <2> QED
    BY <2>1, <2>2
<1> QED
  BY <1>3 DEF Min

LEMMA MaxGreatest ==
  ASSUME NEW n \in Nat, NEW S \in SUBSET (0 .. n), S # {}
  PROVE  Max(S) \in S /\ \A x \in S : Max(S) >= x
<1> DEFINE mirrored == {n - x : x \in S}
<1>1. mirrored \in SUBSET Nat /\ mirrored # {}
  <2>1. \A x \in S : n - x \in Nat
    OBVIOUS
  <2> QED
    BY <2>1
<1>2. Min(mirrored) \in mirrored /\ \A y \in mirrored : Min(mirrored) <= y
  BY <1>1, MinLeast
<1>3. PICK m \in S : Min(mirrored) = n - m
  BY <1>2
<1>4. \A x \in S : n - m <= n - x
  BY <1>2, <1>3
<1>5. \A x \in S : m >= x
  BY <1>4
<1> QED
  BY <1>5 DEF Max

LEMMA Induction ==
  ASSUME NEW n \in Nat, NEW S, 0 \in S, \A k \in 0 .. n - 1 : k \in S => k + 1 \in S
  PROVE  \A k \in 0 .. n : k \in S
<1> DEFINE missing == {k \in 0 .. n : k \notin S}
<1>1. ASSUME missing # {}
      PROVE  FALSE
  <2>1. Min(missing) \in missing /\ \A k \in missing : Min(missing) <= k
    BY <1>1, MinLeast
  <2>2. PICK m \in missing : \A k \in missing : m <= k
    BY <2>1
  <2>3. m # 0 /\ m - 1 \in 0 .. n - 1 /\ m - 1 \notin missing
    BY <2>2
  <2>4. m - 1 \in S
    BY <2>3
  <2>5. (m - 1) + 1 \in S
    BY <2>3, <2>4
  <2> QED
    BY <2>2, <2>5
<1> QED
  BY <1>1

-----------------------------------------------------------------------------
(***************************************************************************)
(* Removing the blanks of a text.                                          *)
(***************************************************************************)
Kept(s) ==
  CHOOSE kept : kept = [n \in 0 .. Len(s) |->
                          IF n = 0 THEN <<>>
                          ELSE IF s[n] = Blank THEN kept[n - 1]
                          ELSE Append(kept[n - 1], s[n])]

LEMMA StripIsKept ==
  ASSUME NEW s
  PROVE  StripBlanks(s) = Kept(s)[Len(s)]
BY DEF StripBlanks, Kept

(* As far as m, there is such a function.                                  *)
KeptTo(s, m, f) ==
  f = [n \in 0 .. m |-> IF n = 0 THEN <<>>
                        ELSE IF s[n] = Blank THEN f[n - 1]
                        ELSE Append(f[n - 1], s[n])]

LEMMA KeptToExists ==
  ASSUME NEW s, NEW m \in Nat
  PROVE  \E f : KeptTo(s, m, f)
<1> DEFINE S == {k \in 0 .. m : \E f : KeptTo(s, k, f)}
<1>1. 0 \in S
  <2> DEFINE f == [n \in 0 .. 0 |-> <<>>]
  <2>1. f = [n \in 0 .. 0 |-> IF n = 0 THEN <<>>
                        ELSE IF s[n] = Blank THEN f[n - 1]
                        ELSE Append(f[n - 1], s[n])]
    OBVIOUS
  <2>2. KeptTo(s, 0, f)
    BY <2>1 DEF KeptTo
  <2> QED
    BY <2>2
<1>2. ASSUME NEW k \in 0 .. m - 1, k \in S
      PROVE  k + 1 \in S
  <2>1. PICK f : KeptTo(s, k, f)
    BY <1>2
  <2> DEFINE last == IF s[k + 1] = Blank THEN f[k] ELSE Append(f[k], s[k + 1])
             g == [n \in 0 .. k + 1 |-> IF n = k + 1 THEN last ELSE f[n]]
  <2>2. \A n \in 0 .. k : f[n] = IF n = 0 THEN <<>>
                        ELSE IF s[n] = Blank THEN f[n - 1]
                        ELSE Append(f[n - 1], s[n])
    BY <2>1 DEF KeptTo
  <2> HIDE DEF last
  <2>3. \A n \in 0 .. k : n \in 0 .. k + 1 /\ n # k + 1 /\ g[n] = f[n]
    OBVIOUS
  <2>4. k + 1 \in 0 .. k + 1 /\ g[k + 1] = last
    OBVIOUS
  <2>5. g = [n \in 0 .. k + 1 |-> g[n]]
    OBVIOUS
  <2> HIDE DEF g
  <2>6. \A n \in 0 .. k + 1 :
          g[n] = IF n = 0 THEN <<>> ELSE IF s[n] = Blank THEN g[n - 1] ELSE Append(g[n - 1], s[n])
    <3> SUFFICES ASSUME NEW n \in 0 .. k + 1
                 PROVE  g[n] = IF n = 0 THEN <<>> ELSE IF s[n] = Blank THEN g[n - 1]
                               ELSE Append(g[n - 1], s[n])
      OBVIOUS
    <3>1. CASE n = k + 1
      <4>1. n - 1 = k /\ n # 0 /\ k \in 0 .. k
        BY <3>1
      <4>2. g[n - 1] = f[k]
        BY <2>3, <4>1
      <4> QED
        BY <2>4, <3>1, <4>1, <4>2 DEF last
    <3>2. CASE n \in 0 .. k
      <4>1. g[n] = f[n] /\ (n # 0 => g[n - 1] = f[n - 1])
        <5>1. n # 0 => n - 1 \in 0 .. k
          BY <3>2
        <5> QED
          BY <2>3, <3>2, <5>1
      <4> QED
        BY <2>2, <3>2, <4>1
    <3>3. n = k + 1 \/ n \in 0 .. k
      OBVIOUS
    <3> QED
      BY <3>1, <3>2, <3>3
  <2>7. KeptTo(s, k + 1, g)
    BY <2>5, <2>6 DEF KeptTo
  <2> QED
    BY <2>7
<1> HIDE DEF S
<1>3. m \in S
  BY <1>1, <1>2, Induction
<1> QED
  BY <1>3 DEF S

LEMMA KeptDef ==
  ASSUME NEW T, NEW s \in Seq(T)
  PROVE  /\ Kept(s)[0] = <<>>
         /\ \A n \in 1 .. Len(s) :
              Kept(s)[n] = IF s[n] = Blank THEN Kept(s)[n - 1] ELSE Append(Kept(s)[n - 1], s[n])
<1>1. \E f : KeptTo(s, Len(s), f)
  BY KeptToExists
<1>2. KeptTo(s, Len(s), Kept(s))
  BY <1>1 DEF KeptTo, Kept
<1>3. \A n \in 0 .. Len(s) :
          Kept(s)[n] = IF n = 0 THEN <<>> ELSE IF s[n] = Blank THEN Kept(s)[n - 1]
                                          ELSE Append(Kept(s)[n - 1], s[n])
  BY <1>2 DEF KeptTo
<1>4. 0 \in 0 .. Len(s) /\ \A n \in 1 .. Len(s) : n \in 0 .. Len(s) /\ n # 0
  OBVIOUS
<1> QED
  BY <1>3, <1>4

LEMMA KeptIsSolid ==
  ASSUME NEW T, NEW s \in Seq(T), NEW n \in 0 .. Len(s)
  PROVE  Kept(s)[n] \in Seq(T) /\ \A i \in 1 .. Len(Kept(s)[n]) : Kept(s)[n][i] # Blank
<1> DEFINE Solid(t) == t \in Seq(T) /\ \A i \in 1 .. Len(t) : t[i] # Blank
           S == {k \in 0 .. Len(s) : Solid(Kept(s)[k])}
<1>1. 0 \in S
  <2>1. Kept(s)[0] = <<>> /\ 0 \in 0 .. Len(s)
    BY KeptDef
  <2>2. Solid(<<>>)
    OBVIOUS
  <2> HIDE DEF Solid
  <2> QED
    BY <2>1, <2>2
<1>2. ASSUME NEW k \in 0 .. Len(s) - 1, k \in S
      PROVE  k + 1 \in S
  <2>1. Solid(Kept(s)[k]) /\ k + 1 \in 1 .. Len(s) /\ k + 1 \in 0 .. Len(s) /\ (k + 1) - 1 = k
    BY <1>2
  <2>2. Kept(s)[k + 1] = IF s[k + 1] = Blank THEN Kept(s)[k] ELSE Append(Kept(s)[k], s[k + 1])
    BY <2>1, KeptDef
  <2>3. ASSUME NEW t, Solid(t), NEW c \in T, c # Blank
        PROVE  Solid(Append(t, c))
    BY <2>3
  <2>4. s[k + 1] \in T
    BY <2>1
  <2> HIDE DEF Solid
  <2>5. Solid(Kept(s)[k + 1])
    BY <2>1, <2>2, <2>3, <2>4
  <2> QED
    BY <2>1, <2>5
<1>3. n \in S
  <2> HIDE DEF S
  <2> QED
    BY <1>1, <1>2, Induction
<1>4. Solid(Kept(s)[n])
  <2> HIDE DEF Solid
  <2> QED
    BY <1>3
<1> QED
  BY <1>4

LEMMA KeptFirst ==
  ASSUME NEW T, NEW s \in Seq(T), NEW m \in 1 .. Len(s) + 1, \A i \in 1 .. m - 1 : s[i] = Blank,
         m \in 1 .. Len(s) => s[m] # Blank
  PROVE  \A n \in 0 .. Len(s) : IF n < m THEN Kept(s)[n] = <<>>
                                ELSE Kept(s)[n] # <<>> /\ Kept(s)[n][1] = s[m]
<1> DEFINE Starts(n) == IF n < m THEN Kept(s)[n] = <<>>
                        ELSE Kept(s)[n] # <<>> /\ Kept(s)[n][1] = s[m]
           S == {k \in 0 .. Len(s) : Starts(k)}
<1>1. 0 \in S
  BY KeptDef
<1>2. ASSUME NEW k \in 0 .. Len(s) - 1, k \in S
      PROVE  k + 1 \in S
  <2>1. Starts(k) /\ k + 1 \in 1 .. Len(s) /\ k + 1 \in 0 .. Len(s) /\ (k + 1) - 1 = k
    BY <1>2
  <2>2. Kept(s)[k + 1] = IF s[k + 1] = Blank THEN Kept(s)[k] ELSE Append(Kept(s)[k], s[k + 1])
    BY <2>1, KeptDef
  <2>3. Kept(s)[k] \in Seq(T) /\ s[k + 1] \in T
    BY <2>1, KeptIsSolid
  <2>4. CASE k + 1 < m
    <3>1. s[k + 1] = Blank /\ k < m
      BY <2>4
    <3> QED
      BY <2>1, <2>2, <2>4, <3>1
  <2>5. CASE k + 1 = m
    <3>1. s[k + 1] # Blank /\ k < m
      BY <2>1, <2>5
    <3>2. Kept(s)[k + 1] = Append(<<>>, s[m])
      BY <2>1, <2>2, <2>5, <3>1
    <3>3. s[m] \in T
      BY <2>3, <2>5
    <3>4. Kept(s)[k + 1] # <<>> /\ Kept(s)[k + 1][1] = s[m]
      <4>1. Append(<<>>, s[m]) = <<s[m]>>
        BY <3>3
      <4> QED
        BY <3>2, <4>1
    <3> QED
      BY <2>1, <2>5, <3>4
  <2>6. CASE k + 1 > m
    <3>1. k >= m /\ Kept(s)[k] # <<>> /\ Kept(s)[k][1] = s[m]
      BY <2>1, <2>6
    <3>2. \A t \in Seq(T), c \in T : t # <<>> => Append(t, c) # <<>> /\ Append(t, c)[1] = t[1]
      OBVIOUS
    <3>3. Kept(s)[k + 1] # <<>> /\ Kept(s)[k + 1][1] = s[m]
      BY <2>2, <2>3, <3>1, <3>2
    <3> QED
      BY <2>1, <2>6, <3>3
  <2> QED
    BY <2>4, <2>5, <2>6
<1> HIDE DEF S
<1>3. Len(s) \in Nat
  OBVIOUS
<1>4. \A n \in 0 .. Len(s) : n \in S
  BY <1>1, <1>2, <1>3, Induction
<1> QED
  BY <1>4 DEF S

LEMMA KeptShift ==
  ASSUME NEW T, NEW s \in Seq(T), NEW m \in 1 .. Len(s), \A i \in 1 .. m - 1 : s[i] = Blank,
         s[m] # Blank
  PROVE  StripBlanks(SubSeq(s, m, Len(s))) = StripBlanks(s)
<1> DEFINE t == SubSeq(s, m, Len(s))
           S == {k \in 0 .. Len(t) : Kept(t)[k] = Kept(s)[k + m - 1]}
<1>1. t \in Seq(T) /\ Len(t) = Len(s) - m + 1 /\ \A k \in 1 .. Len(t) : t[k] = s[k + m - 1]
  OBVIOUS
<1> HIDE DEF t
<1>2. 0 \in S
  <2>1. Kept(t)[0] = <<>>
    BY <1>1, KeptDef
  <2>2. m - 1 \in 0 .. Len(s) /\ m - 1 < m /\ 0 + m - 1 = m - 1
    OBVIOUS
  <2>3. Kept(s)[m - 1] = <<>>
    BY <2>2, KeptFirst
  <2> QED
    BY <1>1, <2>1, <2>2, <2>3
<1>3. ASSUME NEW k \in 0 .. Len(t) - 1, k \in S
      PROVE  k + 1 \in S
  <2>1. /\ k + 1 \in 1 .. Len(t) /\ k + 1 \in 0 .. Len(t) /\ (k + 1) - 1 = k
        /\ k + m \in 1 .. Len(s) /\ (k + m) - 1 = k + m - 1 /\ (k + 1) + m - 1 = k + m
    BY <1>1
  <2>2. Kept(t)[k + 1] = IF t[k + 1] = Blank THEN Kept(t)[k] ELSE Append(Kept(t)[k], t[k + 1])
    BY <1>1, <2>1, KeptDef
  <2>3. Kept(s)[k + m] = IF s[k + m] = Blank THEN Kept(s)[k + m - 1]
                         ELSE Append(Kept(s)[k + m - 1], s[k + m])
    BY <2>1, KeptDef
  <2>4. Kept(t)[k] = Kept(s)[k + m - 1] /\ t[k + 1] = s[k + m]
    BY <1>1, <1>3, <2>1
  <2> QED
    BY <2>1, <2>2, <2>3, <2>4
<1>4. Len(t) \in S
  <2> HIDE DEF S
  <2>1. Len(t) \in Nat /\ Len(t) \in 0 .. Len(t)
    BY <1>1
  <2> QED
    BY <1>2, <1>3, <2>1, Induction
<1>5. Len(t) + m - 1 = Len(s)
  BY <1>1
<1> QED
  BY <1>4, <1>5, StripIsKept DEF t

LEMMA KeptWhole ==
  ASSUME NEW T, NEW s \in Seq(T), \A i \in 1 .. Len(s) : s[i] # Blank
  PROVE  StripBlanks(s) = s
<1> DEFINE S == {k \in 0 .. Len(s) : Kept(s)[k] = SubSeq(s, 1, k)}
<1>1. 0 \in S
  <2>1. Kept(s)[0] = <<>> /\ 0 \in 0 .. Len(s)
    BY KeptDef
  <2>2. SubSeq(s, 1, 0) = <<>>
    OBVIOUS
  <2> QED
    BY <2>1, <2>2
<1>2. ASSUME NEW k \in 0 .. Len(s) - 1, k \in S
      PROVE  k + 1 \in S
  <2>1. k + 1 \in 1 .. Len(s) /\ k + 1 \in 0 .. Len(s) /\ (k + 1) - 1 = k
    BY <1>2
  <2>2. Kept(s)[k + 1] = Append(SubSeq(s, 1, k), s[k + 1])
    BY <1>2, <2>1, KeptDef
  <2>3. Append(SubSeq(s, 1, k), s[k + 1]) = SubSeq(s, 1, k + 1)
    BY <2>1
  <2> QED
    BY <2>1, <2>2, <2>3
<1>3. Len(s) \in S
  <2>1. Len(s) \in Nat /\ Len(s) \in 0 .. Len(s)
    OBVIOUS
  <2> HIDE DEF S
  <2> QED
    BY <1>1, <1>2, <2>1, Induction
<1>4. SubSeq(s, 1, Len(s)) = s
  OBVIOUS
<1> QED
  BY <1>3, <1>4, StripIsKept

LEMMA StripBlanksProperties ==
  ASSUME NEW T, NEW s \in Seq(T)
  PROVE  StripBlanks(s) \in Seq(T) /\ StripBlanks(StripBlanks(s)) = StripBlanks(s)
<1>1. Len(s) \in 0 .. Len(s)
  OBVIOUS
<1>2. /\ StripBlanks(s) \in Seq(T)
      /\ \A i \in 1 .. Len(StripBlanks(s)) : StripBlanks(s)[i] # Blank
  BY <1>1, KeptIsSolid, StripIsKept
<1> QED
  BY <1>2, KeptWhole

(* The blanks before a text do not count.                                  *)
LEMMA StripLeadingProperties ==
  ASSUME NEW T, NEW s \in Seq(T)
  PROVE  /\ StripLeading(s) \in Seq(T)
         /\ StripLeading(s) = <<>> \/ StripLeading(s)[1] # Blank
         /\ StripBlanks(StripLeading(s)) = StripBlanks(s)
         /\ StripBlanks(s) = <<>> <=> StripLeading(s) = <<>>
         /\ StripBlanks(s) # <<>> => StripLeading(s)[1] = StripBlanks(s)[1]
         /\ (s # <<>> /\ s[1] # Blank) => StripLeading(s) = s
<1> DEFINE solid == {i \in DOMAIN s : s[i] # Blank}
<1>1. CASE solid = {}
  <2>1. StripLeading(s) = <<>>
    BY <1>1 DEF StripLeading
  <2>2. Len(s) + 1 \in 1 .. Len(s) + 1 /\ Len(s) \in 0 .. Len(s) /\ Len(s) < Len(s) + 1
    OBVIOUS
  <2>3. \A i \in 1 .. (Len(s) + 1) - 1 : s[i] = Blank
    BY <1>1
  <2>4. Len(s) + 1 \notin 1 .. Len(s)
    OBVIOUS
  <2>5. StripBlanks(s) = <<>>
    BY <2>2, <2>3, <2>4, KeptFirst, StripIsKept
  <2>6. <<>> \in Seq(T) /\ \A i \in 1 .. Len(<<>>) : <<>>[i] # Blank
    OBVIOUS
  <2>7. StripBlanks(<<>>) = <<>>
    BY <2>6, KeptWhole
  <2>8. ~ (s # <<>> /\ s[1] # Blank)
    BY <1>1
  <2> QED
    BY <2>1, <2>5, <2>6, <2>7, <2>8
<1>2. CASE solid # {}
  <2>1. PICK m \in solid : m = Min(solid) /\ \A i \in solid : m <= i
    <3>1. solid \in SUBSET Nat
      OBVIOUS
    <3> HIDE DEF solid
    <3> QED
      BY <1>2, <3>1, MinLeast
  <2>2. m \in 1 .. Len(s) /\ s[m] # Blank
    OBVIOUS
  <2>3. ASSUME NEW i \in 1 .. m - 1
        PROVE  s[i] = Blank
    <3>1. i \in DOMAIN s /\ ~ (m <= i)
      BY <2>2
    <3>2. i \notin solid
      BY <2>1, <3>1
    <3> QED
      BY <3>1, <3>2
  <2>4. StripLeading(s) = SubSeq(s, m, Len(s))
    BY <1>2, <2>1 DEF StripLeading
  <2> HIDE DEF solid
  <2>5. StripBlanks(StripLeading(s)) = StripBlanks(s)
    BY <2>2, <2>3, <2>4, KeptShift
  <2>6. StripBlanks(s) # <<>> /\ StripBlanks(s)[1] = s[m]
    <3>1. m \in 1 .. Len(s) + 1 /\ Len(s) \in 0 .. Len(s) /\ ~ (Len(s) < m)
      BY <2>2
    <3>2. Kept(s)[Len(s)] # <<>> /\ Kept(s)[Len(s)][1] = s[m]
      <4>1. \A n \in 0 .. Len(s) : IF n < m THEN Kept(s)[n] = <<>>
                                   ELSE Kept(s)[n] # <<>> /\ Kept(s)[n][1] = s[m]
        BY <2>2, <2>3, <3>1, KeptFirst
      <4> QED
        BY <3>1, <4>1
    <3> QED
      BY <3>2, StripIsKept
  <2>7. /\ SubSeq(s, m, Len(s)) \in Seq(T) /\ SubSeq(s, m, Len(s)) # <<>>
        /\ SubSeq(s, m, Len(s))[1] = s[m]
    <3>1. \A k \in 1 .. Len(s) : /\ SubSeq(s, k, Len(s)) \in Seq(T)
                                 /\ Len(SubSeq(s, k, Len(s))) = Len(s) - k + 1
                                 /\ SubSeq(s, k, Len(s))[1] = s[k]
      OBVIOUS
    <3>2. Len(SubSeq(s, m, Len(s))) # 0
      BY <2>2, <3>1
    <3> QED
      BY <2>2, <3>1, <3>2
  <2>8. (s # <<>> /\ s[1] # Blank) => SubSeq(s, m, Len(s)) = s
    <3>1. ASSUME s # <<>>, s[1] # Blank
          PROVE  m = 1
      BY <2>2, <2>3, <3>1
    <3>2. SubSeq(s, 1, Len(s)) = s
      OBVIOUS
    <3> QED
      BY <3>1, <3>2
  <2> QED
    BY <2>2, <2>4, <2>5, <2>6, <2>7, <2>8
<1> QED
  BY <1>1, <1>2

-----------------------------------------------------------------------------
(***************************************************************************)
(* What the panel keeps true of the open results.  Its label or an emptied *)
(* field is not a question: then, and only then, astray is set.            *)
(***************************************************************************)
Character == Letters \cup {Blank} \cup {searchLabel[i] : i \in DOMAIN searchLabel}

Sane(b) ==
  /\ IsBox(b)
  /\ b.results \in BOOLEAN /\ b.searchActive \in BOOLEAN
  /\ b.astray \in BOOLEAN /\ b.keyTimeout \in BOOLEAN
  /\ b.bullet = b.searchIndex
  /\ b.field \in Seq(Character)
  /\ b.lastSearchValue \in Seq(Character)
  /\ b.lastSearchValue = <<>> \/ b.lastSearchValue[1] # Blank
  /\ b.loading[1] \in {NoPage} \cup DOMAIN searchData
  /\ b.loading[2] \in Seq(Character)

Shows(b) == b.results /\ b.searchActive /\ ~ b.astray

(* The window's page is that of the last search under the marked filter.   *)
Fits(b) ==
  Shows(b) /\ ~ SearchThrows(b) =>
    \/ b.lastSearchValue = <<>>
    \/ b.lastResultsPage = ResultsPage(b.searchIndex, b.lastSearchValue)

(* The last search was for what is in the field, or one is due, or it      *)
(* threw, which only a text makes it do.                                   *)
Compared(b) ==
  Shows(b) => IF b.keyTimeout THEN StripBlanks(b.field) # <<>>
              ELSE \/ StripBlanks(b.lastSearchValue) = StripBlanks(b.field)
                   \/ SearchThrows(b) /\ StripBlanks(b.field) # <<>>

(* The frame shows the last search, or what it asked for is still loading. *)
Loads(b, d) ==
  b.results =>
    \/ /\ b.loading[1] = NoPage
       /\ d.page = b.lastResultsPage
       /\ d.display = Search(d.rows, b.lastSearchValue)
    \/ /\ b.loading[1] # NoPage
       /\ b.loading = <<b.lastResultsPage,
                        IF b.lastResultsPage = NoMatches THEN <<>> ELSE b.lastSearchValue>>

Good(b, d) == Sane(b) /\ Fits(b) /\ Loads(b, d)

(***************************************************************************)
(* A handler that does not search: it may close the window or set astray,  *)
(* but leaves the results that stay open, and what they answer, alone.     *)
(***************************************************************************)
Calm(b, c) ==
  /\ Sane(c)
  /\ c.results => /\ b.results
                  /\ c.lastSearchValue = b.lastSearchValue
                  /\ c.lastResultsPage = b.lastResultsPage
                  /\ c.loading = b.loading
  /\ Shows(c) => Shows(b) /\ c.searchIndex = b.searchIndex /\ c.field = b.field

Steady(b, c) == Calm(b, c) /\ (Shows(c) => c.keyTimeout = b.keyTimeout)

LEMMA LabelIsText == searchLabel \in Seq(Character)
<1>1. searchLabel \in Seq(STRING)
  BY SearchAssumption
<1>2. \A i \in 1 .. Len(searchLabel) : searchLabel[i] \in Character
  BY <1>1 DEF Character
<1> QED
  BY <1>1, <1>2

LEMMA CalmIsGood ==
  ASSUME NEW b, NEW c, NEW d, Good(b, d), Calm(b, c)
  PROVE  Good(c, d)
<1>1. Fits(c)
  BY DEF Good, Calm, Fits, Shows, SearchThrows
<1>2. Loads(c, d)
  BY DEF Good, Calm, Loads
<1> QED
  BY <1>1, <1>2 DEF Good, Calm

LEMMA SteadyIsCompared ==
  ASSUME NEW b, NEW c, Compared(b), Steady(b, c)
  PROVE  Compared(c)
BY DEF Compared, Steady, Calm, Shows, SearchThrows

LEMMA SteadyItself ==
  ASSUME NEW b, Sane(b)
  PROVE  Steady(b, b)
BY DEF Steady, Calm

LEMMA SteadyTransitive ==
  ASSUME NEW a, NEW b, NEW c, Steady(a, b), Steady(b, c)
  PROVE  Steady(a, c)
BY DEF Steady, Calm

LEMMA CalmTransitive ==
  ASSUME NEW a, NEW b, NEW c, Calm(a, b), Calm(b, c)
  PROVE  Calm(a, c)
BY DEF Calm

LEMMA ActivateSteady ==
  ASSUME NEW b, Sane(b), NEW isActive
  PROVE  Steady(b, Activate(b, isActive))
<1>1. <<>> \in Seq(Character) /\ searchLabel \in Seq(Character)
  BY LabelIsText
<1>2. CASE isActive \/ b.results
  <2> DEFINE c == Activate(b, isActive)
  <2>1. c = [b EXCEPT !.active = TRUE,
                 !.field = IF @ = searchLabel THEN <<>> ELSE @,
                 !.searchActive = @ \/ b.field = searchLabel,
                 !.astray = @ \/ (b.results /\ b.field = searchLabel)]
    BY <1>2 DEF Activate
  <2> HIDE DEF c
  <2>2. /\ IsBox(c) /\ c.results = b.results /\ c.keyTimeout = b.keyTimeout
        /\ c.bullet = b.bullet /\ c.searchIndex = b.searchIndex
        /\ c.lastSearchValue = b.lastSearchValue /\ c.lastResultsPage = b.lastResultsPage
        /\ c.loading = b.loading
        /\ c.field = IF b.field = searchLabel THEN <<>> ELSE b.field
        /\ c.searchActive = (b.searchActive \/ b.field = searchLabel)
        /\ c.astray = (b.astray \/ (b.results /\ b.field = searchLabel))
    <3>1. /\ b = [f \in BoxFields |-> b[f]]
          /\ b.searchActive \in BOOLEAN /\ b.astray \in BOOLEAN /\ b.results \in BOOLEAN
      BY DEF Sane, IsBox
    <3>2. c = [f \in BoxFields |-> c[f]]
      BY <2>1, <3>1 DEF BoxFields
    <3>3. /\ c.results = b.results /\ c.keyTimeout = b.keyTimeout
          /\ c.bullet = b.bullet /\ c.searchIndex = b.searchIndex
          /\ c.lastSearchValue = b.lastSearchValue /\ c.lastResultsPage = b.lastResultsPage
          /\ c.loading = b.loading
      BY <2>1, <3>1 DEF BoxFields
    <3>4. c.field = IF b.field = searchLabel THEN <<>> ELSE b.field
      BY <2>1, <3>1 DEF BoxFields
    <3>5. c.searchActive = (b.searchActive \/ b.field = searchLabel)
      BY <2>1, <3>1, Zenon DEF BoxFields
    <3>6. c.astray = (b.astray \/ (b.results /\ b.field = searchLabel))
      BY <2>1, <3>1, Zenon DEF BoxFields
    <3> QED
      BY <3>2, <3>3, <3>4, <3>5, <3>6 DEF IsBox
  <2>3. Sane(c)
    BY <1>1, <2>2 DEF Sane
  <2>4. Shows(c) => Shows(b) /\ c.field = b.field
    BY <2>2 DEF Shows
  <2>5. Shows(c) => Shows(b) /\ c.searchIndex = b.searchIndex /\ c.field = b.field
    BY <2>2, <2>4
  <2>6. Calm(b, c)
    BY <2>2, <2>3, <2>5 DEF Calm
  <2>7. Steady(b, c)
    BY <2>2, <2>6 DEF Steady
  <2> QED
    BY <2>7 DEF c
<1>3. CASE ~ (isActive \/ b.results)
  <2> DEFINE c == Activate(b, isActive)
  <2>1. c = [b EXCEPT !.active = FALSE, !.field = searchLabel, !.searchActive = FALSE,
                 !.lastSearchValue = <<>>, !.lastResultsPage = NoPage]
    BY <1>3 DEF Activate
  <2> HIDE DEF c
  <2>2. /\ IsBox(c) /\ c.results = FALSE /\ c.keyTimeout = b.keyTimeout
        /\ c.bullet = b.bullet /\ c.searchIndex = b.searchIndex
        /\ c.lastSearchValue = <<>> /\ c.loading = b.loading
        /\ c.field = searchLabel /\ c.searchActive = FALSE /\ c.astray = b.astray
    <3>1. b = [f \in BoxFields |-> b[f]] /\ b.results = FALSE
      BY <1>3 DEF Sane, IsBox
    <3>2. c = [f \in BoxFields |-> c[f]]
      BY <2>1, <3>1 DEF BoxFields
    <3> QED
      BY <2>1, <3>1, <3>2 DEF IsBox, BoxFields
  <2>3. Sane(c)
    BY <1>1, <2>2 DEF Sane
  <2>4. ~ c.results /\ ~ Shows(c)
    BY <2>2 DEF Shows
  <2>5. Calm(b, c)
    BY <2>3, <2>4 DEF Calm
  <2>6. Steady(b, c)
    BY <2>4, <2>5 DEF Steady
  <2> QED
    BY <2>6 DEF c
<1> QED
  BY <1>2, <1>3

LEMMA HideResultsSteady ==
  ASSUME NEW b, Sane(b)
  PROVE  /\ Steady(b, HideResults(b))
         /\ Steady(b, [HideResults(b) EXCEPT !.lastSearchValue = <<>>])
<1>1. <<>> \in Seq(Character)
  OBVIOUS
<1>2. /\ IsBox(HideResults(b))
      /\ HideResults(b).results = FALSE
      /\ \A f \in BoxFields \ {"results"} : HideResults(b)[f] = b[f]
  BY DEF HideResults, Sane, IsBox, BoxFields
<1>3. Sane(HideResults(b))
  BY <1>2 DEF Sane, BoxFields
<1> DEFINE c == [HideResults(b) EXCEPT !.lastSearchValue = <<>>]
<1>4. /\ IsBox(c) /\ c.results = FALSE /\ c.lastSearchValue = <<>>
      /\ \A f \in BoxFields \ {"results", "lastSearchValue"} : c[f] = b[f]
  BY <1>2 DEF IsBox, BoxFields
<1> HIDE DEF c
<1>5. Sane(c)
  BY <1>1, <1>4 DEF Sane, BoxFields
<1>6. Steady(b, HideResults(b)) /\ Steady(b, c)
  BY <1>2, <1>3, <1>4, <1>5 DEF Steady, Calm, Shows
<1> QED
  BY <1>6 DEF c

LEMMA CloseResultsWindowSteady ==
  ASSUME NEW b, Sane(b)
  PROVE  Steady(b, CloseResultsWindow(b))
<1>1. Steady(b, HideResults(b)) /\ Sane(HideResults(b))
  BY HideResultsSteady DEF Steady, Calm
<1>2. Steady(HideResults(b), CloseResultsWindow(b))
  BY <1>1, ActivateSteady DEF CloseResultsWindow
<1> QED
  BY <1>1, <1>2, SteadyTransitive

(* What else leaves the results alone: the menu and the forgotten timers.  *)
SameResults(b, c) ==
  /\ IsBox(c)
  /\ \A f \in BoxFields \ {"active", "menu", "hideTimeout", "strayHideTimers",
                           "strayKeyTimers"} : c[f] = b[f]

LEMMA SameResultsSteady ==
  ASSUME NEW b, Sane(b), NEW c, SameResults(b, c)
  PROVE  Steady(b, c)
<1>1. /\ c.results = b.results /\ c.keyTimeout = b.keyTimeout /\ c.bullet = b.bullet
      /\ c.searchIndex = b.searchIndex /\ c.lastSearchValue = b.lastSearchValue
      /\ c.lastResultsPage = b.lastResultsPage /\ c.loading = b.loading /\ c.field = b.field
      /\ c.searchActive = b.searchActive /\ c.astray = b.astray
  BY DEF SameResults, BoxFields
<1>2. Sane(c)
  BY <1>1 DEF Sane, SameResults
<1> QED
  BY <1>1, <1>2 DEF Steady, Calm, Shows

LEMMA MenuSteady ==
  ASSUME NEW b, Sane(b)
  PROVE  /\ Steady(b, CloseSelectionWindow(b))
         /\ Steady(b, CloseSelectionWindow([b EXCEPT !.hideTimeout = FALSE]))
         /\ Steady(b, CloseSelectionWindow([b EXCEPT !.strayHideTimers = @ - 1]))
         /\ Steady(b, OnSearchSelectShow(b))
         /\ Steady(b, OnSearchSelectHide(b))
<1>0. IsBox(b)
  BY DEF Sane
<1>1. SameResults(b, CloseSelectionWindow(b))
  BY <1>0 DEF SameResults, CloseSelectionWindow, IsBox, BoxFields
<1>2. SameResults(b, CloseSelectionWindow([b EXCEPT !.hideTimeout = FALSE]))
  BY <1>0 DEF SameResults, CloseSelectionWindow, IsBox, BoxFields
<1>3. SameResults(b, CloseSelectionWindow([b EXCEPT !.strayHideTimers = @ - 1]))
  BY <1>0 DEF SameResults, CloseSelectionWindow, IsBox, BoxFields
<1>4. SameResults(b, OnSearchSelectShow(b))
  BY <1>0 DEF SameResults, OnSearchSelectShow, IsBox, BoxFields
<1>5. SameResults(b, OnSearchSelectHide(b))
  BY <1>0 DEF SameResults, OnSearchSelectHide, IsBox, BoxFields
<1> QED
  BY <1>1, <1>2, <1>3, <1>4, <1>5, SameResultsSteady

LEMMA RefocusSteady ==
  ASSUME NEW b, Sane(b), NEW to
  PROVE  Steady(b, Refocus(b, to))
<1>1. Refocus(b, to) \in {Activate(b, FALSE), Activate(b, TRUE), b}
  BY DEF Refocus
<1> QED
  BY <1>1, ActivateSteady, SteadyItself

(***************************************************************************)
(* Search and the handlers that call it.                                   *)
(***************************************************************************)
LEMMA ResultsPageExists ==
  ASSUME NEW section \in DOMAIN indexSections, NEW searchValue
  PROVE  /\ ResultsPage(section, searchValue) \in DOMAIN searchData
         /\ ResultsPage(section, searchValue) # NoPage
<1> DEFINE letters == indexSections[section]
           found == {k \in DOMAIN letters : searchValue = <<>> \/ letters[k] = searchValue[1]}
<1>1. CASE found = {}
  <2>1. ResultsPage(section, searchValue) = NoMatches
    BY <1>1 DEF ResultsPage
  <2> QED
    BY <2>1, SearchAssumption DEF NoMatches, NoPage
<1>2. CASE found # {}
  <2>1. ResultsPage(section, searchValue) = <<section, letters[Min(found)]>>
    BY <1>2 DEF ResultsPage
  <2>2. found \in SUBSET Nat
    <3>1. letters \in Seq(STRING)
      BY SearchAssumption
    <3> QED
      BY <3>1
  <2>3. Min(found) \in DOMAIN letters
    <3>1. found \subseteq DOMAIN letters
      OBVIOUS
    <3> HIDE DEF found
    <3> QED
      BY <1>2, <2>2, <3>1, MinLeast
  <2> HIDE DEF found
  <2>4. <<section, letters[Min(found)]>> \in DOMAIN searchData
    BY <2>3, SearchAssumption
  <2>5. \A x, y : <<x, y>> # NoPage
    BY DEF NoPage
  <2> QED
    BY <2>1, <2>4, <2>5
<1> QED
  BY <1>1, <1>2

LEMMA SearchPanelGood ==
  ASSUME NEW b, NEW d, Sane(b), Loads(b, d)
  PROVE  /\ Good(SearchPanel(b), d)
         /\ (SearchThrows(b) => Compared(b)) => Compared(SearchPanel(b))
<1> DEFINE forgotten == [b EXCEPT !.keyTimeout = FALSE,
                           !.strayKeyTimers = @ + (IF b.keyTimeout THEN 1 ELSE 0)]
           searchValue == StripLeading(b.field)
           page == ResultsPage(b.searchIndex, searchValue)
           query == IF page = NoMatches THEN <<>> ELSE searchValue
           searched == [forgotten EXCEPT
              !.results = TRUE, !.lastSearchValue = searchValue, !.lastResultsPage = page,
              !.astray = FALSE, !.loading = <<page, query>>]
<1>1. SearchPanel(b) = IF SearchThrows(b) THEN forgotten ELSE searched
  BY DEF SearchPanel
<1>2. /\ IsBox(forgotten) /\ forgotten.keyTimeout = FALSE
      /\ \A f \in BoxFields \ {"keyTimeout", "strayKeyTimers"} : forgotten[f] = b[f]
  BY DEF Sane, IsBox, BoxFields
<1> HIDE DEF forgotten
<1>3. /\ forgotten.results = b.results /\ forgotten.bullet = b.bullet
      /\ forgotten.searchIndex = b.searchIndex /\ forgotten.field = b.field
      /\ forgotten.lastSearchValue = b.lastSearchValue
      /\ forgotten.lastResultsPage = b.lastResultsPage /\ forgotten.loading = b.loading
      /\ forgotten.searchActive = b.searchActive /\ forgotten.astray = b.astray
  BY <1>2 DEF BoxFields
<1>4. Sane(forgotten)
  BY <1>2, <1>3 DEF Sane
<1>5. CASE SearchThrows(b)
  <2>1. SearchThrows(forgotten)
    BY <1>3, <1>5 DEF SearchThrows
  <2>2. Fits(forgotten)
    BY <2>1 DEF Fits
  <2>3. Loads(forgotten, d)
    BY <1>3 DEF Loads
  <2>4. Compared(b) => Compared(forgotten)
    <3>1. Shows(forgotten) => Shows(b)
      BY <1>3 DEF Shows
    <3> QED
      BY <1>2, <1>3, <2>1, <3>1 DEF Compared
  <2> QED
    BY <1>1, <1>4, <1>5, <2>2, <2>3, <2>4 DEF Good
<1>6. CASE ~ SearchThrows(b)
  <2>0. b.searchIndex \in DOMAIN indexSections
    BY <1>6 DEF SearchThrows
  <2>1. page \in DOMAIN searchData /\ page # NoPage
    BY <2>0, ResultsPageExists
  <2>2. b.field \in Seq(Character)
    BY DEF Sane
  <2>3. /\ searchValue \in Seq(Character)
        /\ searchValue = <<>> \/ searchValue[1] # Blank
        /\ StripBlanks(searchValue) = StripBlanks(b.field)
    BY <2>2, StripLeadingProperties
  <2> HIDE DEF searchValue, page, query
  <2>4. /\ IsBox(searched) /\ searched.results = TRUE /\ searched.astray = FALSE
        /\ searched.lastSearchValue = searchValue /\ searched.lastResultsPage = page
        /\ searched.loading = <<page, query>>
        /\ searched.keyTimeout = FALSE /\ searched.bullet = b.bullet
        /\ searched.searchIndex = b.searchIndex /\ searched.field = b.field
        /\ searched.searchActive = b.searchActive
    BY <1>2, <1>3 DEF IsBox, BoxFields
  <2> HIDE DEF searched
  <2>5. Sane(searched)
    <3>1. searched.loading[1] = page /\ searched.loading[2] = query
      BY <2>4
    <3>2. query \in Seq(Character)
      <4>1. <<>> \in Seq(Character)
        OBVIOUS
      <4> QED
        BY <2>3, <4>1 DEF query
    <3> QED
      BY <2>1, <2>3, <2>4, <3>1, <3>2 DEF Sane
  <2>6. Fits(searched)
    BY <2>4 DEF Fits, page
  <2>7. Loads(searched, d)
    <3>1. searched.loading[1] = page
      BY <2>4
    <3> QED
      BY <2>1, <2>4, <3>1 DEF Loads, query
  <2>8. Compared(searched)
    BY <2>3, <2>4 DEF Compared
  <2> QED
    BY <1>1, <1>6, <2>5, <2>6, <2>7, <2>8 DEF Good
<1> QED
  BY <1>5, <1>6

(* A text that begins with a letter is blank only if it is empty.          *)
LEMMA EmptyQuestion ==
  ASSUME NEW b, Sane(b), StripBlanks(b.lastSearchValue) = <<>>
  PROVE  b.lastSearchValue = <<>>
<1>1. b.lastSearchValue \in Seq(Character)
  BY DEF Sane
<1>2. StripLeading(b.lastSearchValue) = <<>>
  BY <1>1, StripLeadingProperties
<1>3. b.lastSearchValue # <<>> => StripLeading(b.lastSearchValue) = b.lastSearchValue
  <2>1. b.lastSearchValue # <<>> => b.lastSearchValue[1] # Blank
    BY DEF Sane
  <2> QED
    BY <1>1, <2>1, StripLeadingProperties
<1> QED
  BY <1>2, <1>3

LEMMA OnSelectItemGood ==
  ASSUME NEW b, NEW d, Good(b, d), Compared(b), NEW id
  PROVE  Good(OnSelectItem(b, id), d) /\ Compared(OnSelectItem(b, id))
<1> DEFINE s == [b EXCEPT !.searchIndex = id, !.bullet = id]
<1>0. Sane(b) /\ IsBox(b)
  BY DEF Good, Sane
<1>1. IsBox(s) /\ s.searchIndex = id /\ s.bullet = id
  BY <1>0 DEF IsBox, BoxFields
<1>2. /\ s.results = b.results /\ s.field = b.field /\ s.keyTimeout = b.keyTimeout
      /\ s.lastSearchValue = b.lastSearchValue /\ s.lastResultsPage = b.lastResultsPage
      /\ s.loading = b.loading /\ s.searchActive = b.searchActive /\ s.astray = b.astray
  BY <1>0 DEF IsBox, BoxFields
<1>3. OnSelectItem(b, id) = IF SearchesOnSelect(s) THEN SearchPanel(s) ELSE s
  BY DEF OnSelectItem
<1> HIDE DEF s
<1>4. Sane(s)
  BY <1>0, <1>1, <1>2 DEF Sane
<1>5. Loads(s, d)
  BY <1>2 DEF Good, Loads
<1>6. Shows(s) => Shows(b)
  BY <1>2 DEF Shows
<1>7. CASE SearchesOnSelect(s)
  <2>1. StripBlanks(s.field) # <<>>
    BY <1>7 DEF SearchesOnSelect
  <2>2. SearchThrows(s) => Compared(s)
    BY <2>1 DEF Compared
  <2> QED
    BY <1>3, <1>4, <1>5, <1>7, <2>2, SearchPanelGood
<1>8. CASE ~ SearchesOnSelect(s)
  <2>1. Shows(s) => StripBlanks(s.field) = <<>>
    BY <1>8 DEF SearchesOnSelect, Shows
  <2>2. Shows(s) => ~ s.keyTimeout /\ StripBlanks(s.lastSearchValue) = <<>>
    BY <1>2, <1>6, <2>1 DEF Compared
  <2>3. Shows(s) => s.lastSearchValue = <<>>
    BY <1>4, <2>2, EmptyQuestion
  <2>4. Fits(s)
    BY <2>3 DEF Fits
  <2>5. Compared(s)
    BY <2>1, <2>2 DEF Compared
  <2> QED
    BY <1>3, <1>4, <1>5, <1>8, <2>4, <2>5 DEF Good
<1> QED
  BY <1>7, <1>8

LEMMA CompareValueGood ==
  ASSUME NEW b, NEW d, Good(b, d), b.keyTimeout = FALSE
  PROVE  Good(CompareValue(b), d) /\ Compared(CompareValue(b))
<1> DEFINE searchValue == StripBlanks(b.field)
           due == [b EXCEPT !.keyTimeout = TRUE]
           hidden == [HideResults(b) EXCEPT !.lastSearchValue = <<>>]
<1>0. Sane(b) /\ IsBox(b) /\ b.field \in Seq(Character)
  BY DEF Good, Sane
<1>1. CASE searchValue = b.lastSearchValue
  <2>1. CompareValue(b) = b
    BY <1>1 DEF CompareValue
  <2>2. StripBlanks(searchValue) = StripBlanks(b.field)
    BY <1>0, StripBlanksProperties
  <2>3. Compared(b)
    BY <1>1, <2>2 DEF Compared
  <2> QED
    BY <2>1, <2>3
<1>2. CASE searchValue # b.lastSearchValue /\ searchValue # <<>>
  <2>1. CompareValue(b) = due
    BY <1>2 DEF CompareValue
  <2>2. /\ IsBox(due) /\ due.keyTimeout = TRUE
        /\ due.results = b.results /\ due.bullet = b.bullet
        /\ due.searchIndex = b.searchIndex /\ due.field = b.field
        /\ due.lastSearchValue = b.lastSearchValue
        /\ due.lastResultsPage = b.lastResultsPage /\ due.loading = b.loading
        /\ due.searchActive = b.searchActive /\ due.astray = b.astray
    BY <1>0 DEF IsBox, BoxFields
  <2> HIDE DEF due
  <2>3. Sane(due)
    BY <1>0, <2>2 DEF Sane
  <2>4. Calm(b, due)
    BY <2>2, <2>3 DEF Calm, Shows
  <2>5. Compared(due)
    BY <1>2, <2>2 DEF Compared
  <2> QED
    BY <2>1, <2>4, <2>5, CalmIsGood
<1>3. CASE searchValue # b.lastSearchValue /\ searchValue = <<>>
  <2>1. CompareValue(b) = hidden
    BY <1>3 DEF CompareValue
  <2>2. Calm(b, hidden)
    BY <1>0, HideResultsSteady DEF Steady
  <2>3. ~ Shows(hidden)
    BY <1>0 DEF HideResults, IsBox, BoxFields, Shows
  <2> HIDE DEF hidden
  <2>4. Compared(hidden)
    BY <2>3 DEF Compared
  <2> QED
    BY <2>1, <2>2, <2>4, CalmIsGood
<1> QED
  BY <1>1, <1>2, <1>3

LEMMA StopKeyTimerCalm ==
  ASSUME NEW b, Sane(b)
  PROVE  Calm(b, StopKeyTimer(b)) /\ StopKeyTimer(b).keyTimeout = FALSE
<1> DEFINE s == StopKeyTimer(b)
<1>1. /\ IsBox(s) /\ s.keyTimeout = FALSE
      /\ s.results = b.results /\ s.bullet = b.bullet
      /\ s.searchIndex = b.searchIndex /\ s.field = b.field
      /\ s.lastSearchValue = b.lastSearchValue
      /\ s.lastResultsPage = b.lastResultsPage /\ s.loading = b.loading
      /\ s.searchActive = b.searchActive /\ s.astray = b.astray
  BY DEF StopKeyTimer, Sane, IsBox, BoxFields
<1> HIDE DEF s
<1>2. Sane(s)
  BY <1>1 DEF Sane
<1>3. Calm(b, s) /\ s.keyTimeout = FALSE
  BY <1>1, <1>2 DEF Calm, Shows
<1> QED
  BY <1>3 DEF s

LEMMA ActivateKeyTimer ==
  ASSUME NEW b, Sane(b), NEW isActive
  PROVE  Activate(b, isActive).keyTimeout = b.keyTimeout
BY DEF Activate, Sane, IsBox, BoxFields

LEMMA OnSearchFieldChangeGood ==
  ASSUME NEW b, NEW d, NEW key, Good(b, d), key = "shift down" => Compared(b)
  PROVE  Good(OnSearchFieldChange(b, key), d) /\ Compared(OnSearchFieldChange(b, key))
<1> DEFINE s == StopKeyTimer(b)
           left == IF FieldTarget(b, key) = Field THEN s ELSE Activate(s, FALSE)
           shown == Activate(OnSearchSelectShow(s), FALSE)
           strayed == [shown EXCEPT !.astray = @ \/ b.keyTimeout]
           hidden == [HideResults(left) EXCEPT !.lastSearchValue = <<>>]
<1>0. Sane(b)
  BY DEF Good
<1>1. Calm(b, s) /\ s.keyTimeout = FALSE /\ Sane(s)
  BY <1>0, StopKeyTimerCalm DEF Calm
<1> HIDE DEF s
<1>2. Steady(s, left) /\ left.keyTimeout = FALSE /\ Sane(left)
  <2>1. Steady(s, Activate(s, FALSE)) /\ Activate(s, FALSE).keyTimeout = FALSE
    BY <1>1, ActivateSteady, ActivateKeyTimer
  <2>2. Steady(s, s)
    BY <1>1, SteadyItself
  <2> QED
    BY <1>1, <2>1, <2>2 DEF Steady, Calm
<1>3. Calm(b, left)
  BY <1>1, <1>2, CalmTransitive DEF Steady
<1> HIDE DEF left
<1>4. CASE key = "shift down"
  <2>1. OnSearchFieldChange(b, key) = strayed
    BY <1>4 DEF OnSearchFieldChange, s
  <2>2. Steady(s, OnSearchSelectShow(s)) /\ Sane(OnSearchSelectShow(s))
    BY <1>1, MenuSteady DEF Steady, Calm
  <2>3. Steady(OnSearchSelectShow(s), shown)
    BY <2>2, ActivateSteady
  <2>4. Steady(s, shown) /\ Calm(s, shown) /\ Sane(shown)
    BY <2>2, <2>3, SteadyTransitive DEF Steady, Calm
  <2>5. Calm(b, shown)
    BY <1>1, <2>4, CalmTransitive
  <2> HIDE DEF shown
  <2>6. b.keyTimeout \in BOOLEAN /\ shown.astray \in BOOLEAN /\ IsBox(shown)
    BY <1>0, <2>4 DEF Sane
  <2>7. /\ IsBox(strayed)
        /\ strayed.results = shown.results /\ strayed.bullet = shown.bullet
        /\ strayed.searchIndex = shown.searchIndex /\ strayed.field = shown.field
        /\ strayed.lastSearchValue = shown.lastSearchValue
        /\ strayed.lastResultsPage = shown.lastResultsPage /\ strayed.loading = shown.loading
        /\ strayed.searchActive = shown.searchActive
        /\ strayed.keyTimeout = shown.keyTimeout
    BY <2>6 DEF IsBox, BoxFields
  <2>8. strayed.astray = (shown.astray \/ b.keyTimeout)
    BY <2>6, Zenon DEF IsBox, BoxFields
  <2> HIDE DEF strayed
  <2>9. Sane(strayed)
    BY <2>4, <2>6, <2>7, <2>8 DEF Sane
  <2>10. Shows(strayed) => Shows(shown) /\ b.keyTimeout = FALSE
    BY <2>6, <2>7, <2>8 DEF Shows
  <2>11. Calm(shown, strayed)
    BY <2>7, <2>9, <2>10 DEF Calm
  <2>12. Calm(b, strayed)
    BY <2>5, <2>11, CalmTransitive
  <2>13. Shows(strayed) => strayed.keyTimeout = FALSE
    <3>1. Shows(shown) => shown.keyTimeout = s.keyTimeout
      BY <2>4 DEF Steady
    <3> QED
      BY <1>1, <2>7, <2>10, <3>1
  <2>14. Steady(b, strayed)
    BY <2>10, <2>12, <2>13 DEF Steady
  <2> QED
    BY <1>4, <2>1, <2>12, <2>14, CalmIsGood, SteadyIsCompared
<1>5. CASE key = "escape"
  <2>1. OnSearchFieldChange(b, key) = Activate(hidden, FALSE)
    BY <1>5 DEF OnSearchFieldChange, left, s
  <2>2. Steady(left, hidden) /\ Sane(hidden)
    BY <1>2, HideResultsSteady DEF Steady, Calm
  <2>3. ~ hidden.results
    BY <1>2 DEF HideResults, Sane, IsBox, BoxFields
  <2> HIDE DEF hidden
  <2>4. Steady(hidden, Activate(hidden, FALSE))
    BY <2>2, ActivateSteady
  <2>5. Calm(b, Activate(hidden, FALSE))
    BY <1>3, <2>2, <2>4, CalmTransitive DEF Steady
  <2>6. ~ Shows(Activate(hidden, FALSE))
    BY <2>3, <2>4 DEF Steady, Calm, Shows
  <2>7. Compared(Activate(hidden, FALSE))
    BY <2>6 DEF Compared
  <2> QED
    BY <2>1, <2>5, <2>7, CalmIsGood
<1>6. CASE key # "shift down" /\ key # "escape"
  <2>1. OnSearchFieldChange(b, key) = CompareValue(left)
    BY <1>6 DEF OnSearchFieldChange, left, s
  <2>2. Good(left, d)
    BY <1>3, CalmIsGood
  <2> QED
    BY <1>2, <2>1, <2>2, CompareValueGood
<1> QED
  BY <1>4, <1>5, <1>6

LEMMA OnSearchSelectKeyGood ==
  ASSUME NEW b, NEW d, NEW key, Good(b, d), Compared(b)
  PROVE  Good(OnSearchSelectKey(b, key), d) /\ Compared(OnSearchSelectKey(b, key))
<1> DEFINE chosen == OnSelectItem(b, b.searchIndex)
           closed == CloseSelectionWindow(chosen)
           active == Activate(closed, TRUE)
           Fine(c) == Good(c, d) /\ Compared(c)
<1>1. Fine(chosen) /\ Sane(chosen)
  BY OnSelectItemGood DEF Good
<1>2. Fine(OnSelectItem(b, b.searchIndex + 1)) /\ Fine(OnSelectItem(b, b.searchIndex - 1))
  BY OnSelectItemGood
<1>3. Fine(active)
  <2> HIDE DEF chosen
  <2>1. Steady(chosen, closed) /\ Sane(closed)
    BY <1>1, MenuSteady DEF Steady, Calm
  <2> HIDE DEF closed
  <2>2. Steady(closed, active)
    BY <2>1, ActivateSteady
  <2>3. Steady(chosen, active)
    BY <2>1, <2>2, SteadyTransitive
  <2> QED
    BY <1>1, <2>3, CalmIsGood, SteadyIsCompared DEF Steady
<1>4. OnSearchSelectKey(b, key) \in {chosen, b, active,
        OnSelectItem(b, b.searchIndex + 1), OnSelectItem(b, b.searchIndex - 1)}
  BY DEF OnSearchSelectKey
<1> HIDE DEF chosen, active
<1> QED
  BY <1>1, <1>2, <1>3, <1>4

-----------------------------------------------------------------------------
(***************************************************************************)
(* Escaping the characters of a name: the codes of its characters, one     *)
(* after the other.                                                        *)
(***************************************************************************)
Code(c) == IF c \in DOMAIN Escapes THEN Escapes[c] ELSE <<c>>

Codes(s) == [i \in DOMAIN s |-> Code(s[i])]

Flattened(q) ==
  CHOOSE flatten : flatten = [i \in 1 .. Len(q) |-> IF i = 1 THEN q[i] ELSE flatten[i - 1] \o q[i]]

FlatTo(q, m, f) ==
  f = [i \in 1 .. m |-> IF i = 1 THEN q[i] ELSE f[i - 1] \o q[i]]

(* The identifier of the first n characters of a name.                     *)
IdTo(s, n) == IF n = 0 THEN <<>> ELSE Flattened(Codes(s))[n]

Sign(T) == T \cup STRING

LEMMA CodeType ==
  ASSUME NEW T, NEW c \in T
  PROVE  Code(c) \in Seq(Sign(T)) /\ Code(c) # <<>>
<1>1. CASE c \in DOMAIN Escapes
  <2>1. Escapes[c] \in Seq(STRING) /\ Escapes[c] # <<>>
    BY <1>1, EscapesAssumption
  <2>2. \A s \in Seq(STRING) : s \in Seq(Sign(T))
    BY DEF Sign
  <2> QED
    BY <1>1, <2>1, <2>2 DEF Code
<1>2. CASE c \notin DOMAIN Escapes
  BY <1>2 DEF Code, Sign
<1> QED
  BY <1>1, <1>2

LEMMA CodesDiffer ==
  ASSUME NEW c, NEW e, c # e
  PROVE  ~ IsPrefix(Code(c), Code(e))
<1>1. \A x \in DOMAIN Escapes : /\ Escapes[x] \in Seq(STRING) /\ Len(Escapes[x]) >= 1
                               /\ Escapes[x][1] \in DOMAIN Escapes
  BY EscapesAssumption
<1>2. CASE c \in DOMAIN Escapes /\ e \in DOMAIN Escapes
  BY <1>2, EscapesAssumption DEF Code
<1>3. CASE c \in DOMAIN Escapes /\ e \notin DOMAIN Escapes
  <2> SUFFICES ASSUME IsPrefix(Escapes[c], <<e>>)
               PROVE  FALSE
    BY <1>3 DEF Code
  <2> DEFINE n == Len(Escapes[c])
  <2>1. n \in Nat /\ n >= 1 /\ n <= 1 /\ SubSeq(Escapes[c], 1, n) = SubSeq(<<e>>, 1, n)
    BY <1>1, <1>3 DEF IsPrefix
  <2>2. n = 1
    <3> HIDE DEF n
    <3> QED
      BY <2>1
  <2>3. SubSeq(Escapes[c], 1, 1)[1] = Escapes[c][1] /\ SubSeq(<<e>>, 1, 1)[1] = e
    <3>1. \A s \in Seq(STRING) : Len(s) >= 1 => SubSeq(s, 1, 1)[1] = s[1]
      OBVIOUS
    <3> QED
      BY <1>1, <1>3, <3>1
  <2>4. Escapes[c][1] = e
    BY <2>1, <2>2, <2>3
  <2> QED
    BY <1>1, <1>3, <2>4
<1>4. CASE c \notin DOMAIN Escapes /\ e \in DOMAIN Escapes
  <2> SUFFICES ASSUME IsPrefix(<<c>>, Escapes[e])
               PROVE  FALSE
    BY <1>4 DEF Code
  <2>1. SubSeq(<<c>>, 1, 1) = SubSeq(Escapes[e], 1, 1)
    BY DEF IsPrefix
  <2>2. SubSeq(<<c>>, 1, 1)[1] = c /\ SubSeq(Escapes[e], 1, 1)[1] = Escapes[e][1]
    BY <1>1, <1>4
  <2> QED
    BY <1>1, <1>4, <2>1, <2>2
<1>5. CASE c \notin DOMAIN Escapes /\ e \notin DOMAIN Escapes
  <2> SUFFICES ASSUME IsPrefix(<<c>>, <<e>>)
               PROVE  FALSE
    BY <1>5 DEF Code
  <2>1. SubSeq(<<c>>, 1, 1) = SubSeq(<<e>>, 1, 1)
    BY DEF IsPrefix
  <2>2. SubSeq(<<c>>, 1, 1)[1] = c /\ SubSeq(<<e>>, 1, 1)[1] = e
    OBVIOUS
  <2> QED
    BY <2>1, <2>2
<1> QED
  BY <1>2, <1>3, <1>4, <1>5

LEMMA FlatToExists ==
  ASSUME NEW q, NEW m \in Nat
  PROVE  \E f : FlatTo(q, m, f)
<1> DEFINE S == {k \in 0 .. m : \E f : FlatTo(q, k, f)}
<1>1. 0 \in S
  <2> DEFINE f == [i \in 1 .. 0 |-> <<>>]
  <2>1. f = [i \in 1 .. 0 |-> IF i = 1 THEN q[i] ELSE f[i - 1] \o q[i]]
    OBVIOUS
  <2>2. FlatTo(q, 0, f)
    BY <2>1 DEF FlatTo
  <2> QED
    BY <2>2
<1>2. ASSUME NEW k \in 0 .. m - 1, k \in S
      PROVE  k + 1 \in S
  <2>1. PICK f : FlatTo(q, k, f)
    BY <1>2
  <2> DEFINE last == IF k = 0 THEN q[1] ELSE f[k] \o q[k + 1]
             g == [n \in 1 .. k + 1 |-> IF n = k + 1 THEN last ELSE f[n]]
  <2>2. \A n \in 1 .. k : f[n] = IF n = 1 THEN q[n] ELSE f[n - 1] \o q[n]
    BY <2>1 DEF FlatTo
  <2> HIDE DEF last
  <2>3. \A n \in 1 .. k : n \in 1 .. k + 1 /\ n # k + 1 /\ g[n] = f[n]
    OBVIOUS
  <2>4. k + 1 \in 1 .. k + 1 /\ g[k + 1] = last
    OBVIOUS
  <2>5. g = [n \in 1 .. k + 1 |-> g[n]]
    OBVIOUS
  <2> HIDE DEF g
  <2>6. \A n \in 1 .. k + 1 : g[n] = IF n = 1 THEN q[n] ELSE g[n - 1] \o q[n]
    <3> SUFFICES ASSUME NEW n \in 1 .. k + 1
                 PROVE  g[n] = IF n = 1 THEN q[n] ELSE g[n - 1] \o q[n]
      OBVIOUS
    <3>1. CASE n = k + 1
      <4>1. CASE k = 0
        BY <2>4, <3>1, <4>1 DEF last
      <4>2. CASE k # 0
        <5>1. n - 1 = k /\ n # 1 /\ k \in 1 .. k
          BY <3>1, <4>2
        <5>2. g[n - 1] = f[k]
          BY <2>3, <5>1
        <5> QED
          BY <2>4, <3>1, <4>2, <5>1, <5>2 DEF last
      <4> QED
        BY <4>1, <4>2
    <3>2. CASE n \in 1 .. k
      <4>1. g[n] = f[n] /\ (n # 1 => g[n - 1] = f[n - 1])
        <5>1. n # 1 => n - 1 \in 1 .. k
          BY <3>2
        <5> QED
          BY <2>3, <3>2, <5>1
      <4> QED
        BY <2>2, <3>2, <4>1
    <3>3. n = k + 1 \/ n \in 1 .. k
      OBVIOUS
    <3> QED
      BY <3>1, <3>2, <3>3
  <2>7. FlatTo(q, k + 1, g)
    BY <2>5, <2>6 DEF FlatTo
  <2> QED
    BY <2>7
<1> HIDE DEF S
<1>3. m \in S
  BY <1>1, <1>2, Induction
<1> QED
  BY <1>3 DEF S

LEMMA IdToStep ==
  ASSUME NEW T, NEW s \in Seq(T)
  PROVE  /\ IdTo(s, 0) = <<>>
         /\ \A n \in 0 .. Len(s) - 1 : IdTo(s, n + 1) = IdTo(s, n) \o Code(s[n + 1])
<1> DEFINE q == Codes(s)
<1>1. q \in Seq(Seq(Sign(T))) /\ Len(q) = Len(s) /\ \A i \in 1 .. Len(s) : q[i] = Code(s[i])
  <2>1. \A i \in 1 .. Len(s) : Code(s[i]) \in Seq(Sign(T))
    BY CodeType
  <2> QED
    BY <2>1 DEF Codes
<1> HIDE DEF q
<1>2. FlatTo(q, Len(q), Flattened(q))
  <2>1. Len(q) \in Nat
    BY <1>1
  <2>2. \E f : FlatTo(q, Len(q), f)
    BY <2>1, FlatToExists
  <2> QED
    BY <2>2 DEF FlatTo, Flattened
<1>3. \A i \in 1 .. Len(q) :
        Flattened(q)[i] = IF i = 1 THEN q[i] ELSE Flattened(q)[i - 1] \o q[i]
  BY <1>2 DEF FlatTo
<1>4. ASSUME NEW n \in 0 .. Len(s) - 1
      PROVE  IdTo(s, n + 1) = IdTo(s, n) \o Code(s[n + 1])
  <2>1. n + 1 \in 1 .. Len(q) /\ n + 1 # 0 /\ (n + 1) - 1 = n /\ (n = 0 <=> n + 1 = 1)
    BY <1>1
  <2>2. IdTo(s, n + 1) = IF n = 0 THEN q[n + 1] ELSE Flattened(q)[n] \o q[n + 1]
    BY <1>3, <2>1 DEF IdTo, q
  <2>3. q[n + 1] = Code(s[n + 1]) /\ Code(s[n + 1]) \in Seq(Sign(T))
    BY <1>1, <2>1
  <2>4. CASE n = 0
    <3>1. <<>> \o Code(s[n + 1]) = Code(s[n + 1])
      BY <2>3
    <3> QED
      BY <2>2, <2>3, <2>4, <3>1 DEF IdTo
  <2>5. CASE n # 0
    BY <2>2, <2>3, <2>5 DEF IdTo, q
  <2> QED
    BY <2>4, <2>5
<1> QED
  BY <1>4 DEF IdTo

LEMMA IdIsIdTo ==
  ASSUME NEW T, NEW s \in Seq(T)
  PROVE  convertToId(s) = IdTo(s, Len(s))
<1>1. convertToId(s) = FlattenSeq(Codes(s))
  BY DEF convertToId, Codes, Code
<1>2. Codes(s) \in Seq(Seq(Sign(T))) /\ Len(Codes(s)) = Len(s)
  <2>1. \A i \in 1 .. Len(s) : Code(s[i]) \in Seq(Sign(T))
    BY CodeType
  <2> QED
    BY <2>1 DEF Codes
<1>3. FlattenSeq(Codes(s)) = IF Len(Codes(s)) = 0 THEN Codes(s)
                             ELSE Flattened(Codes(s))[Len(Codes(s))]
  BY DEF FlattenSeq, Flattened
<1>4. Len(Codes(s)) = 0 => Codes(s) = <<>>
  BY <1>2
<1> QED
  BY <1>1, <1>2, <1>3, <1>4 DEF IdTo

LEMMA IdType ==
  ASSUME NEW T, NEW s \in Seq(T)
  PROVE  \A n \in 0 .. Len(s) : IdTo(s, n) \in Seq(Sign(T))
<1> DEFINE S == {n \in 0 .. Len(s) : IdTo(s, n) \in Seq(Sign(T))}
<1>1. 0 \in S
  <2>1. IdTo(s, 0) = <<>> /\ 0 \in 0 .. Len(s)
    BY IdToStep
  <2>2. <<>> \in Seq(Sign(T))
    OBVIOUS
  <2> QED
    BY <2>1, <2>2
<1>2. ASSUME NEW n \in 0 .. Len(s) - 1, n \in S
      PROVE  n + 1 \in S
  <2>1. s[n + 1] \in T /\ n + 1 \in 0 .. Len(s)
    OBVIOUS
  <2>2. Code(s[n + 1]) \in Seq(Sign(T))
    BY <2>1, CodeType
  <2>3. IdTo(s, n + 1) = IdTo(s, n) \o Code(s[n + 1])
    BY IdToStep
  <2>4. IdTo(s, n) \in Seq(Sign(T))
    BY <1>2
  <2>5. \A a, b \in Seq(Sign(T)) : a \o b \in Seq(Sign(T))
    OBVIOUS
  <2>6. IdTo(s, n + 1) \in Seq(Sign(T))
    BY <2>2, <2>3, <2>4, <2>5
  <2> QED
    BY <2>1, <2>6
<1>3. Len(s) \in Nat
  OBVIOUS
<1> HIDE DEF S
<1>4. \A n \in 0 .. Len(s) : n \in S
  BY <1>1, <1>2, <1>3, Induction
<1> QED
  BY <1>4 DEF S

LEMMA StripEndsType ==
  ASSUME NEW T, NEW s \in Seq(T)
  PROVE  StripEnds(s) \in Seq(T)
<1>1. \A t \in Seq(T) : Reverse(t) \in Seq(T)
  BY DEF Reverse
<1>2. \A t \in Seq(T) : StripLeading(t) \in Seq(T)
  BY StripLeadingProperties
<1> QED
  BY <1>1, <1>2 DEF StripEnds

-----------------------------------------------------------------------------
(***************************************************************************)
(* The document in the frame.                                              *)
(***************************************************************************)
FrameFields == {"page", "rows", "display", "open", "lastKey", "repeatOn"}

(* The numbers of neighbouring rows.                                       *)
Neighbours(S) == \A i, k \in S : i .. k \subseteq S

(* A list of children is opened at the first row of its id, which is the   *)
(* only one that FindChildElement finds.                                   *)
FrameOK(d) ==
  /\ d = [f \in FrameFields |-> d[f]]
  /\ \E n \in Nat : DOMAIN d.rows = 1 .. n
  /\ \A i \in DOMAIN d.rows : d.rows[i].children \in Nat
  /\ d.display \subseteq DOMAIN d.rows
  /\ Neighbours(d.display)
  /\ \A i \in d.open : i \in DOMAIN d.rows /\ FindChildElement(d, i) = i

SameSearch(d, e) == e.page = d.page /\ e.rows = d.rows /\ e.display = d.display

LEMMA FirstOfId ==
  ASSUME NEW d, FrameOK(d), NEW i \in DOMAIN d.rows, FindChildElement(d, i) # 0
  PROVE  /\ FindChildElement(d, i) \in DOMAIN d.rows
         /\ FindChildElement(d, FindChildElement(d, i)) = FindChildElement(d, i)
<1> DEFINE Twins(k) == {j \in DOMAIN d.rows : d.rows[j].id = d.rows[k].id}
           first == Min(Twins(i))
<1>1. Twins(i) \in SUBSET Nat /\ i \in Twins(i)
  <2>1. DOMAIN d.rows \subseteq Nat
    BY DEF FrameOK
  <2> QED
    BY <2>1
<1>2. first \in Twins(i)
  <2> HIDE DEF Twins
  <2> QED
    BY <1>1, MinLeast
<1>3. FindChildElement(d, i) = first /\ d.rows[first].children > 0
  BY DEF FindChildElement
<1>4. d.rows[first].id = d.rows[i].id /\ first \in DOMAIN d.rows
  BY <1>2
<1> HIDE DEF first
<1>5. Twins(first) = Twins(i)
  BY <1>4
<1>6. FindChildElement(d, first) = first
  BY <1>3, <1>5 DEF FindChildElement, first
<1> QED
  BY <1>3, <1>4, <1>6

LEMMA FrameChanges ==
  ASSUME NEW d, FrameOK(d), NEW e, e = [f \in FrameFields |-> e[f]], SameSearch(d, e),
         \A i \in e.open : i \in DOMAIN d.rows /\ FindChildElement(d, i) = i
  PROVE  FrameOK(e)
<1>1. \A i : FindChildElement(e, i) = FindChildElement(d, i)
  BY DEF FindChildElement, SameSearch
<1> QED
  BY <1>1 DEF FrameOK, SameSearch

LEMMA ToggleFrame ==
  ASSUME NEW d, FrameOK(d), NEW i \in DOMAIN d.rows
  PROVE  /\ FrameOK(OpenChildren(d, i)) /\ SameSearch(d, OpenChildren(d, i))
         /\ FrameOK(CloseChildren(d, i)) /\ SameSearch(d, CloseChildren(d, i))
         /\ FrameOK(Toggle(d, i)) /\ SameSearch(d, Toggle(d, i))
<1>0. d = [f \in FrameFields |-> d[f]]
  BY DEF FrameOK
<1>1. FrameOK(OpenChildren(d, i)) /\ SameSearch(d, OpenChildren(d, i))
  <2> DEFINE e == OpenChildren(d, i)
  <2>1. /\ e = [f \in FrameFields |-> e[f]] /\ SameSearch(d, e)
        /\ e.open = d.open \cup ({FindChildElement(d, i)} \ {0})
    BY <1>0 DEF OpenChildren, FrameFields, SameSearch
  <2> HIDE DEF e
  <2>2. \A j \in e.open : j \in DOMAIN d.rows /\ FindChildElement(d, j) = j
    BY <2>1, FirstOfId DEF FrameOK
  <2>3. FrameOK(e)
    BY <2>1, <2>2, FrameChanges
  <2> QED
    BY <2>1, <2>3 DEF e
<1>2. FrameOK(CloseChildren(d, i)) /\ SameSearch(d, CloseChildren(d, i))
  <2> DEFINE e == CloseChildren(d, i)
  <2>1. /\ e = [f \in FrameFields |-> e[f]] /\ SameSearch(d, e)
        /\ e.open \subseteq d.open
    BY <1>0 DEF CloseChildren, FrameFields, SameSearch
  <2> HIDE DEF e
  <2>2. \A j \in e.open : j \in DOMAIN d.rows /\ FindChildElement(d, j) = j
    BY <2>1 DEF FrameOK
  <2>3. FrameOK(e)
    BY <2>1, <2>2, FrameChanges
  <2> QED
    BY <2>1, <2>3 DEF e
<1>3. Toggle(d, i) \in {OpenChildren(d, i), CloseChildren(d, i)}
  BY DEF Toggle
<1> QED
  BY <1>1, <1>2, <1>3

LEMMA ProcessKeysFrame ==
  ASSUME NEW d, FrameOK(d), NEW type \in {"keydown", "keypress", "keyup"}, NEW key
  PROVE  FrameOK(ProcessKeys(d, type, key)) /\ SameSearch(d, ProcessKeys(d, type, key))
<1> DEFINE e == ProcessKeys(d, type, key)
<1>0. d = [f \in FrameFields |-> d[f]]
  BY DEF FrameOK
<1>1. e = [f \in FrameFields |-> e[f]] /\ SameSearch(d, e) /\ e.open = d.open
  BY <1>0 DEF ProcessKeys, FrameFields, SameSearch
<1> HIDE DEF e
<1>2. \A i \in e.open : i \in DOMAIN d.rows /\ FindChildElement(d, i) = i
  BY <1>1 DEF FrameOK
<1>3. FrameOK(e)
  BY <1>1, <1>2, FrameChanges
<1> QED
  BY <1>1, <1>3 DEF e

LEMMA NavDocumentFrame ==
  ASSUME NEW d, FrameOK(d), NEW type \in {"keydown", "keypress", "keyup"}, NEW key,
         NEW i \in DOMAIN d.rows, NEW c
  PROVE  FrameOK(NavDocument(d, type, key, i, c)) /\ SameSearch(d, NavDocument(d, type, key, i, c))
<1> DEFINE e == ProcessKeys(d, type, key)
<1>1. FrameOK(e) /\ SameSearch(d, e)
  BY ProcessKeysFrame
<1> HIDE DEF e
<1>2. i \in DOMAIN e.rows
  BY <1>1 DEF SameSearch
<1>3. /\ FrameOK(OpenChildren(e, i)) /\ SameSearch(d, OpenChildren(e, i))
      /\ FrameOK(CloseChildren(e, i)) /\ SameSearch(d, CloseChildren(e, i))
  BY <1>1, <1>2, ToggleFrame DEF SameSearch
<1>4. FrameOK(Toggle(d, i)) /\ SameSearch(d, Toggle(d, i)) /\ SameSearch(d, d)
  BY ToggleFrame DEF SameSearch
<1>5. NavDocument(d, type, key, i, c) \in {Toggle(d, i), d, e, OpenChildren(e, i), CloseChildren(e, i)}
  BY DEF NavDocument, e
<1> QED
  BY <1>1, <1>3, <1>4, <1>5

(* The rows that a search leaves are neighbours.                           *)
LEMMA SearchLeavesNeighbours ==
  ASSUME NEW page \in DOMAIN searchData, NEW T, NEW query \in Seq(T),
         NEW i \in Search(createResults(page), query),
         NEW k \in Search(createResults(page), query)
  PROVE  i .. k \subseteq Search(createResults(page), query)
<1> DEFINE rows == createResults(page)
           text == convertToId(StripEnds(query))
           begin(n) == SubSeq(rows[i].id, 1, n)
<1>1. text \in Seq(Sign(T))
  <2>1. StripEnds(query) \in Seq(T)
    BY StripEndsType
  <2> QED
    BY <2>1, IdIsIdTo, IdType
<1>2. /\ \A m : m \in Search(rows, query) <=> m \in DOMAIN rows /\ IsPrefix(text, rows[m].id)
      /\ DOMAIN rows = DOMAIN searchData[page]
  BY DEF Search, Matches, createResults
<1>3. \E n \in Nat : DOMAIN rows = 1 .. n
  <2>1. searchData[page] \in Seq([name : Seq(STRING), targets : Nat \ {0}])
    BY SearchAssumption
  <2> QED
    BY <1>2, <2>1
<1>4. \A m \in DOMAIN rows : \E S : rows[m].id \in Seq(S)
  <2> SUFFICES ASSUME NEW m \in DOMAIN rows
               PROVE  rows[m].id \in Seq(Sign(STRING))
    OBVIOUS
  <2>1. searchData[page][m].name \in Seq(STRING)
    <3>1. searchData[page] \in Seq([name : Seq(STRING), targets : Nat \ {0}])
      BY SearchAssumption
    <3>2. \A S : \A s \in Seq(S) : \A j \in DOMAIN s : s[j] \in S
      OBVIOUS
    <3>3. searchData[page][m] \in [name : Seq(STRING), targets : Nat \ {0}]
      BY <1>2, <3>1, <3>2
    <3> QED
      BY <3>3
  <2>2. rows[m].id = convertToId(searchData[page][m].name)
    BY <1>2 DEF createResults
  <2> QED
    BY <2>1, <2>2, IdIsIdTo, IdType
<1>5. \A j \in i .. k : \A n \in 0 .. Len(rows[i].id) :
        IsPrefix(begin(n), rows[k].id) => IsPrefix(begin(n), rows[j].id)
  BY <1>2, SortedAssumption
<1> HIDE DEF rows, text
<1>6. SUFFICES ASSUME NEW j \in i .. k
               PROVE  j \in DOMAIN rows /\ IsPrefix(text, rows[j].id)
  BY <1>2 DEF rows
<1>7. i \in DOMAIN rows /\ k \in DOMAIN rows /\ IsPrefix(text, rows[i].id) /\ IsPrefix(text, rows[k].id)
  BY <1>2 DEF rows
<1>8. j \in DOMAIN rows
  BY <1>3, <1>7
<1>9. begin(Len(text)) = text /\ Len(text) \in 0 .. Len(rows[i].id)
  <2>1. Len(text) \in Nat /\ SubSeq(text, 1, Len(text)) = text
    BY <1>1
  <2>2. Len(text) <= Len(rows[i].id) /\ SubSeq(text, 1, Len(text)) = begin(Len(text))
    BY <1>7 DEF IsPrefix
  <2>3. Len(rows[i].id) \in Nat
    BY <1>4, <1>7
  <2> QED
    BY <2>1, <2>2, <2>3
<1> HIDE DEF begin
<1> QED
  BY <1>5, <1>7, <1>8, <1>9

LEMMA DocumentFrame ==
  ASSUME NEW page \in DOMAIN searchData, NEW T, NEW query \in Seq(T)
  PROVE  FrameOK(Document(page, query))
<1> DEFINE rows == createResults(page)
           d == Document(page, query)
<1>1. searchData[page] \in Seq([name : Seq(STRING), targets : Nat \ {0}])
  BY SearchAssumption
<1>2. PICK n \in Nat : DOMAIN rows = 1 .. n
  BY <1>1 DEF createResults
<1>3. \A i \in DOMAIN rows : rows[i].children \in Nat
  <2> SUFFICES ASSUME NEW i \in DOMAIN rows
               PROVE  rows[i].children \in Nat
    OBVIOUS
  <2>1. i \in DOMAIN searchData[page]
    BY DEF createResults
  <2>2. searchData[page][i].targets \in Nat
    <3>1. searchData[page][i] \in [name : Seq(STRING), targets : Nat \ {0}]
      <4>1. \A S : \A s \in Seq(S) : \A k \in DOMAIN s : s[k] \in S
        OBVIOUS
      <4> QED
        BY <1>1, <2>1, <4>1
    <3> QED
      BY <3>1
  <2>3. rows[i].children = IF searchData[page][i].targets = 1 THEN 0
                           ELSE searchData[page][i].targets
    BY <2>1 DEF createResults
  <2> QED
    BY <2>2, <2>3
<1>4. /\ d = [f \in FrameFields |-> d[f]] /\ d.rows = rows /\ d.open = {}
      /\ d.display = Search(rows, query)
  BY DEF Document, FrameFields
<1>5. Search(rows, query) \subseteq DOMAIN rows
  BY DEF Search
<1>6. Neighbours(Search(rows, query))
  BY SearchLeavesNeighbours DEF Neighbours
<1> HIDE DEF rows, d
<1>7. FrameOK(d)
  BY <1>2, <1>3, <1>4, <1>5, <1>6 DEF FrameOK
<1> QED
  BY <1>7 DEF d

LEMMA FieldTargets ==
  ASSUME FrameOK(frame), NEW b, NEW key
  PROVE  LET to == FieldTarget(b, key)
         IN  to[1] = "item" => to[2] \in DOMAIN frame.rows
<1>1. FieldTarget(b, key) \in {Select, Nowhere, Field, NavNext(frame, 1)}
  BY DEF FieldTarget
<1>2. FieldTarget(b, key) = NavNext(frame, 1) =>
        \/ CanFocus(frame, NavNext(frame, 1))
        \/ FieldTarget(b, key) \in {Select, Nowhere, Field}
  BY DEF FieldTarget
<1>3. \A e : CanFocus(frame, e) => e[2] \in DOMAIN frame.rows
  BY DEF CanFocus, FrameOK
<1>4. Select[1] # "item" /\ Nowhere[1] # "item" /\ Field[1] # "item"
  BY DEF Select, Nowhere, Field
<1> QED
  BY <1>1, <1>2, <1>3, <1>4

(***************************************************************************)
(* The displayed row after a displayed row is the one before which it is.  *)
(***************************************************************************)
LEMMA NextThenPrev ==
  ASSUME NEW d, FrameOK(d), NEW i \in d.display, NavNext(d, i + 1) # Nowhere
  PROVE  \E j \in d.display : /\ NavNext(d, i + 1) = Item(j) /\ NavPrev(d, j - 1) = Item(i)
                              /\ j - 1 = i
<1> DEFINE next == {k \in d.display : k >= i + 1}
<1>1. PICK n \in Nat : d.display \subseteq 1 .. n
  BY DEF FrameOK
<1>2. next # {} /\ NavNext(d, i + 1) = Item(Min(next))
  BY DEF NavNext
<1>3. PICK j \in next : j = Min(next) /\ \A k \in next : j <= k
  <2>1. next \in SUBSET Nat
    BY <1>1
  <2> HIDE DEF next
  <2> QED
    BY <1>2, <2>1, MinLeast
<1> DEFINE previous == {k \in d.display : k <= j - 1}
<1>4. previous \in SUBSET (0 .. n) /\ i \in previous
  BY <1>1, <1>3
<1>5. Max(previous) \in previous /\ \A k \in previous : Max(previous) >= k
  <2> HIDE DEF previous
  <2> QED
    BY <1>4, MaxGreatest
<1>6. PICK m \in previous : m = Max(previous) /\ m >= i
  BY <1>4, <1>5
<1>7. m \in Nat /\ j \in Nat /\ i \in Nat /\ m <= j - 1 /\ m \in d.display
  BY <1>1
<1>8. ~ (j <= m)
  BY <1>7
<1>9. m \notin next
  BY <1>3, <1>8
<1>10. m = i
  BY <1>6, <1>7, <1>9
<1>11. NavPrev(d, j - 1) = Item(m)
  BY <1>4, <1>6 DEF NavPrev
<1>12. j - 1 = i
  <2>1. i + 1 \in i .. j /\ j \in d.display
    BY <1>3, <1>7
  <2>2. i + 1 \in next
    <3>1. i .. j \subseteq d.display
      BY <2>1 DEF FrameOK, Neighbours
    <3> QED
      BY <1>7, <2>1, <3>1
  <2>3. j <= i + 1 /\ j >= i + 1
    BY <1>3, <2>2
  <2> QED
    BY <1>7, <2>3
<1> QED
  BY <1>2, <1>3, <1>10, <1>11, <1>12

LEMMA UpAfterDown == FrameOK(frame) => UpUndoesDown
<1> SUFFICES ASSUME FrameOK(frame), NEW p \in Positions, Down(frame, p[2], p[3]) \in Positions
             PROVE  LET q == Down(frame, p[2], p[3])
                    IN  Up(frame, q[2], q[3]) = p
  BY DEF UpUndoesDown
<1> DEFINE d == frame
<1>1. PICK n \in Nat : d.display \subseteq 1 .. n
  BY DEF FrameOK
<1>2. Nowhere \notin Positions
  BY DEF Nowhere, Positions, Item, Child
<1>3. \A i, c : Item(i)[2] = i /\ Item(i)[3] = 0 /\ Child(i, c)[2] = i /\ Child(i, c)[3] = c
  BY DEF Item, Child
<1>4. \A i \in d.display : d.rows[i].children \in Nat
  BY DEF FrameOK
<1>5. ASSUME NEW i \in d.display, NEW c \in 0 .. d.rows[i].children,
             Down(d, i, c) \in Positions, c > 0 => i \in d.open,
             c = 0 => p = Item(i), c > 0 => p = Child(i, c)
      PROVE  LET q == Down(d, i, c) IN Up(d, q[2], q[3]) = p
  <2>0. d.rows[i].children \in Nat /\ c \in Nat
    BY <1>4, <1>5
  <2>1. CASE c < d.rows[i].children /\ (c > 0 \/ ChildrenVisible(d, i))
    <3>1. Down(d, i, c) = Child(i, c + 1)
      BY <2>1 DEF Down
    <3>2. Up(d, i, c + 1) = IF c = 0 THEN Item(i) ELSE Child(i, c)
      <4>1. CASE c = 0
        <5>1. ~ (0 + 1 > 1) /\ 0 + 1 = 1
          OBVIOUS
        <5> QED
          BY <4>1, <5>1 DEF Up
      <4>2. CASE c > 0
        <5>1. c + 1 > 1 /\ (c + 1) - 1 = c /\ c # 0 /\ c + 1 # 1 /\ c + 1 # 0
          BY <2>0, <4>2
        <5> QED
          BY <5>1 DEF Up
      <4> QED
        BY <2>0, <4>1, <4>2
    <3> QED
      BY <1>3, <1>5, <2>0, <3>1, <3>2
  <2>2. CASE ~ (c < d.rows[i].children /\ (c > 0 \/ ChildrenVisible(d, i)))
    <3>1. Down(d, i, c) = NavNext(d, i + 1)
      BY <2>2 DEF Down
    <3>2. PICK j \in d.display : /\ NavNext(d, i + 1) = Item(j) /\ NavPrev(d, j - 1) = Item(i)
                                /\ j - 1 = i
      BY <1>2, <1>5, <3>1, NextThenPrev
    <3>3. Item(i) # Nowhere
      BY DEF Item, Nowhere
    <3>4. Up(d, j, 0) = IF ChildrenVisible(d, i) /\ d.rows[i].children > 0
                        THEN Child(i, d.rows[i].children) ELSE Item(i)
      <4>1. ~ (0 > 1) /\ 0 # 1
        OBVIOUS
      <4> QED
        BY <1>3, <3>2, <3>3, <4>1 DEF Up
    <3>5. CASE c = 0
      <4>1. ~ (ChildrenVisible(d, i) /\ d.rows[i].children > 0)
        BY <2>2, <3>5
      <4> QED
        BY <1>3, <1>5, <3>1, <3>2, <3>4, <3>5, <4>1
    <3>6. CASE c > 0
      <4>1. c = d.rows[i].children /\ d.rows[i].children > 0
        BY <1>5, <2>0, <2>2, <3>6
      <4>2. ChildrenVisible(d, i)
        BY <1>5, <3>6 DEF ChildrenVisible, FrameOK
      <4> QED
        BY <1>3, <1>5, <3>1, <3>2, <3>4, <3>6, <4>1, <4>2
    <3> QED
      BY <2>0, <3>5, <3>6
  <2> QED
    BY <2>1, <2>2
<1>6. CASE \E i \in d.display : p = Item(i)
  <2>1. PICK i \in d.display : p = Item(i)
    BY <1>6
  <2>2. p[2] = i /\ p[3] = 0 /\ 0 \in 0 .. d.rows[i].children
    BY <1>3, <1>4, <2>1
  <2>3. Down(d, i, 0) \in Positions /\ ~ (0 > 0)
    BY <2>2
  <2> QED
    BY <1>5, <2>1, <2>2, <2>3
<1>7. CASE \E i \in d.open \cap d.display : \E c \in 1 .. d.rows[i].children : p = Child(i, c)
  <2>1. PICK i \in d.open \cap d.display : \E c \in 1 .. d.rows[i].children : p = Child(i, c)
    BY <1>7
  <2>2. PICK c \in 1 .. d.rows[i].children : p = Child(i, c)
    BY <2>1
  <2>3. d.rows[i].children \in Nat
    BY <1>4
  <2>4. p[2] = i /\ p[3] = c /\ c \in 0 .. d.rows[i].children /\ c # 0 /\ c > 0
    BY <1>3, <2>2, <2>3
  <2> QED
    BY <1>5, <2>2, <2>4
<1> QED
  BY <1>6, <1>7 DEF Positions

(***************************************************************************)
(* The steps of the panel and its frame.                                   *)
(***************************************************************************)
ShownInv ==
  /\ Good(box, frame)
  /\ held # "text" => Compared(box)
  /\ held = "text" => focus = Field
  /\ FrameOK(frame)
  /\ focus[1] = "item" => focus[2] \in DOMAIN frame.rows

LEMMA ShownInit == SearchInit => ShownInv
<1> SUFFICES ASSUME SearchInit
             PROVE  ShownInv
  OBVIOUS
<1>1. Sane(box) /\ ~ box.results
  <2>1. <<>> \in Seq(Character) /\ searchLabel \in Seq(Character)
    BY LabelIsText
  <2> QED
    BY <2>1 DEF SearchInit, Sane, IsBox, BoxFields
<1>2. Good(box, frame) /\ Compared(box)
  BY <1>1 DEF Good, Fits, Loads, Compared, Shows
<1>3. held = "none" /\ focus[1] # "item"
  BY DEF SearchInit, Nowhere
<1>4. FrameOK(frame)
  <2>1. /\ frame = [f \in FrameFields |-> frame[f]]
        /\ frame.rows = <<>> /\ frame.display = {} /\ frame.open = {}
    BY DEF SearchInit, FrameFields
  <2>2. DOMAIN frame.rows = 1 .. 0 /\ 1 .. 0 = {}
    BY <2>1
  <2>3. Neighbours(frame.display)
    BY <2>1 DEF Neighbours
  <2> QED
    BY <2>1, <2>2, <2>3 DEF FrameOK
<1> QED
  BY <1>2, <1>3, <1>4 DEF ShownInv

(* Steps that leave the frame alone.                                       *)
LEMMA SteadyStep ==
  ASSUME ShownInv, held # "text", Steady(box, box'), frame' = frame, held' # "text",
         focus' = focus \/ focus'[1] # "item" \/ focus'[2] \in DOMAIN frame.rows
  PROVE  ShownInv'
<1>1. Good(box', frame')
  BY CalmIsGood DEF ShownInv, Steady
<1>2. Compared(box')
  BY SteadyIsCompared DEF ShownInv
<1> QED
  BY <1>1, <1>2 DEF ShownInv

LEMMA SearchStep ==
  ASSUME ShownInv, Good(box', frame), frame' = frame, held' # "text" => Compared(box'),
         held' = "text" => focus' = Field,
         focus' = focus \/ focus'[1] # "item" \/ focus'[2] \in DOMAIN frame.rows
  PROVE  ShownInv'
BY DEF ShownInv

LEMMA Elsewhere == Nowhere[1] # "item" /\ Field[1] # "item" /\ Select[1] # "item"
BY DEF Nowhere, Field, Select

LEMMA KeyInResultsShown ==
  ASSUME ShownInv, NEW type \in {"keydown", "keypress", "keyup"}, NEW key \in ArrowKeys,
         KeyInResults(type, key)
  PROVE  ShownInv'
<1> DEFINE i == focus[2]
           c == focus[3]
           target == NavTarget(frame, type, key, i, c)
<1>1. focus[1] = "item" /\ i \in DOMAIN frame.rows
  BY DEF KeyInResults, ShownInv
<1>2. held # "text" /\ held' # "text"
  <2>1. held # "text"
    BY <1>1, Elsewhere DEF ShownInv
  <2>2. held' \in {"none", key} /\ key # "text"
    BY DEF KeyInResults, ArrowKeys
  <2> QED
    BY <2>1, <2>2
<1>3. Sane(box)
  BY DEF ShownInv, Good
<1>4. Steady(box, box')
  <2>1. PICK closed \in {box, CloseResultsWindow(box)} : box' \in {closed, Activate(closed, TRUE)}
    BY DEF KeyInResults
  <2>2. Steady(box, closed) /\ Sane(closed)
    BY <1>3, <2>1, SteadyItself, CloseResultsWindowSteady DEF Steady, Calm
  <2>3. Steady(closed, Activate(closed, TRUE))
    BY <2>2, ActivateSteady
  <2>4. Steady(box, Activate(closed, TRUE))
    BY <2>2, <2>3, SteadyTransitive
  <2> QED
    BY <2>1, <2>2, <2>4
<1>5. FrameOK(frame') /\ SameSearch(frame, frame')
  <2>1. frame' = NavDocument(frame, type, key, i, c)
    BY DEF KeyInResults
  <2> QED
    BY <1>1, <2>1, NavDocumentFrame DEF ShownInv
<1>6. Good(box', frame') /\ Compared(box')
  <2>1. Good(box', frame)
    BY <1>4, CalmIsGood DEF ShownInv, Steady
  <2>2. Loads(box', frame')
    BY <1>5, <2>1 DEF Good, Loads, SameSearch
  <2>3. Compared(box')
    BY <1>2, <1>4, SteadyIsCompared DEF ShownInv
  <2> QED
    BY <2>1, <2>2, <2>3 DEF Good
<1>7. focus'[1] = "item" => focus'[2] \in DOMAIN frame'.rows
  <2>1. focus' = IF target = Field \/ CanFocus(frame, target) THEN target ELSE focus
    BY DEF KeyInResults
  <2>2. CanFocus(frame, target) => target[2] \in DOMAIN frame.rows
    BY DEF CanFocus, ShownInv, FrameOK
  <2> HIDE DEF target
  <2> QED
    BY <1>1, <1>5, <2>1, <2>2, Elsewhere DEF SameSearch
<1> QED
  BY <1>2, <1>5, <1>6, <1>7 DEF ShownInv

LEMMA PageLoadsShown == ASSUME ShownInv, PageLoads PROVE ShownInv'
<1> DEFINE page == box.loading[1]
           query == box.loading[2]
<1>1. page \in DOMAIN searchData /\ Sane(box)
  BY DEF PageLoads, ShownInv, Good, Sane
<1>2. /\ frame' = Document(page, query) /\ focus'[1] # "item" /\ held' = held
      /\ focus' = IF focus[1] = "item" THEN Nowhere ELSE focus
  BY Elsewhere DEF PageLoads
<1>3. FrameOK(frame')
  <2>1. query \in Seq(Character)
    BY <1>1 DEF Sane
  <2> QED
    BY <1>1, <1>2, <2>1, DocumentFrame
<1>4. /\ IsBox(box') /\ box'.loading = <<NoPage, <<>>>>
      /\ box'.results = box.results /\ box'.bullet = box.bullet
      /\ box'.searchIndex = box.searchIndex /\ box'.field = box.field
      /\ box'.lastSearchValue = box.lastSearchValue
      /\ box'.lastResultsPage = box.lastResultsPage
      /\ box'.searchActive = box.searchActive /\ box'.astray = box.astray
      /\ box'.keyTimeout = box.keyTimeout
  BY <1>1 DEF PageLoads, Sane, IsBox, BoxFields
<1>5. Sane(box')
  <2>1. box'.loading[1] = NoPage /\ box'.loading[2] = <<>> /\ <<>> \in Seq(Character)
    BY <1>4
  <2> QED
    BY <1>1, <1>4, <2>1 DEF Sane
<1>6. Fits(box')
  BY <1>4 DEF ShownInv, Good, Fits, Shows, SearchThrows
<1>7. Compared(box) => Compared(box')
  BY <1>4 DEF Compared, Shows, SearchThrows
<1>8. Loads(box', frame')
  <2> SUFFICES ASSUME box'.results
               PROVE  /\ box'.loading[1] = NoPage
                      /\ frame'.page = box'.lastResultsPage
                      /\ frame'.display = Search(frame'.rows, box'.lastSearchValue)
    BY DEF Loads
  <2>1. /\ page = box.lastResultsPage
        /\ query = IF page = NoMatches THEN <<>> ELSE box.lastSearchValue
    <3>1. box.results /\ box.loading[1] # NoPage /\ Loads(box, frame)
      BY <1>4 DEF PageLoads, ShownInv, Good
    <3>2. box.loading = <<box.lastResultsPage,
                        IF box.lastResultsPage = NoMatches THEN <<>> ELSE box.lastSearchValue>>
      BY <3>1 DEF Loads
    <3> QED
      BY <3>2
  <2>2. /\ frame'.page = page /\ frame'.rows = createResults(page)
        /\ frame'.display = Search(createResults(page), query)
    BY <1>2 DEF Document
  <2>3. page = NoMatches => \A v : Search(createResults(page), v) = {}
    <3>1. page = NoMatches => DOMAIN createResults(page) = {}
      BY SearchAssumption DEF createResults
    <3> QED
      BY <3>1 DEF Search
  <2> HIDE DEF page, query
  <2>4. frame'.display = Search(frame'.rows, box.lastSearchValue)
    BY <2>1, <2>2, <2>3
  <2>5. box'.loading[1] = NoPage
    BY <1>4
  <2> QED
    BY <1>4, <2>1, <2>2, <2>4, <2>5
<1>9. held' = "text" => focus' = Field
  BY <1>2, Elsewhere DEF ShownInv
<1> QED
  BY <1>2, <1>3, <1>5, <1>6, <1>7, <1>8, <1>9 DEF ShownInv, Good

LEMMA KeyTimerShown == ASSUME ShownInv, KeyTimerFires PROVE ShownInv'
<1>1. PICK b : /\ \/ b = [box EXCEPT !.keyTimeout = FALSE] /\ box.keyTimeout
                  \/ b = [box EXCEPT !.strayKeyTimers = box.strayKeyTimers - 1]
               /\ box' = SearchPanel(b)
  BY DEF KeyTimerFires
<1>2. Sane(box) /\ IsBox(box)
  BY DEF ShownInv, Good, Sane
<1>3. /\ IsBox(b) /\ b.loading = box.loading
      /\ b.results = box.results /\ b.bullet = box.bullet
      /\ b.searchIndex = box.searchIndex /\ b.field = box.field
      /\ b.lastSearchValue = box.lastSearchValue
      /\ b.lastResultsPage = box.lastResultsPage
      /\ b.searchActive = box.searchActive /\ b.astray = box.astray
      /\ \/ b.keyTimeout = FALSE /\ box.keyTimeout
         \/ b.keyTimeout = box.keyTimeout
  <2>1. CASE b = [box EXCEPT !.keyTimeout = FALSE] /\ box.keyTimeout
    BY <1>2, <2>1 DEF IsBox, BoxFields
  <2>2. CASE b = [box EXCEPT !.strayKeyTimers = box.strayKeyTimers - 1]
    BY <1>2, <2>2 DEF IsBox, BoxFields
  <2> QED
    BY <1>1, <2>1, <2>2
<1>4. Sane(b)
  BY <1>2, <1>3 DEF Sane
<1>5. Loads(b, frame)
  BY <1>3 DEF ShownInv, Good, Loads
<1>6. Compared(box) => (SearchThrows(b) => Compared(b))
  <2>1. Shows(b) => Shows(box)
    BY <1>3 DEF Shows
  <2> QED
    BY <1>3, <2>1 DEF Compared, SearchThrows
<1>7. Good(box', frame) /\ (Compared(box) => Compared(box'))
  BY <1>1, <1>4, <1>5, <1>6, SearchPanelGood
<1> QED
  BY <1>7, SearchStep DEF KeyTimerFires, ShownInv

LEMMA ShownNext ==
  ASSUME ShownInv, SearchNext
  PROVE  ShownInv'
<1>0. Sane(box) /\ Good(box, frame) /\ FrameOK(frame)
  BY DEF ShownInv, Good
<1>1. CASE TypeInField
  <2>1. PICK text \in {Append(box.field, c) : c \in Letters \cup {Blank}}
                   \cup (IF box.field = <<>> THEN {} ELSE {Front(box.field)}) :
          box' = [box EXCEPT !.field = text]
    BY <1>1 DEF TypeInField
  <2>2. text \in Seq(Character)
    <3>1. box.field \in Seq(Character) /\ Letters \cup {Blank} \subseteq Character
      BY <1>0 DEF Sane, Character
    <3>2. \A c \in Character : Append(box.field, c) \in Seq(Character)
      BY <3>1
    <3>3. box.field # <<>> => Front(box.field) \in Seq(Character)
      BY <3>1 DEF Front
    <3> QED
      BY <2>1, <3>1, <3>2, <3>3
  <2>3. /\ IsBox(box') /\ box'.loading = box.loading
        /\ box'.results = box.results /\ box'.bullet = box.bullet
        /\ box'.searchIndex = box.searchIndex /\ box'.field = text
        /\ box'.lastSearchValue = box.lastSearchValue
        /\ box'.lastResultsPage = box.lastResultsPage
        /\ box'.searchActive = box.searchActive /\ box'.astray = box.astray
        /\ box'.keyTimeout = box.keyTimeout
    BY <1>0, <2>1 DEF Sane, IsBox, BoxFields
  <2>4. Sane(box')
    BY <1>0, <2>2, <2>3 DEF Sane
  <2>5. Fits(box')
    BY <1>0, <2>3 DEF Good, Fits, Shows, SearchThrows
  <2>6. Loads(box', frame)
    BY <1>0, <2>3 DEF Good, Loads
  <2> QED
    BY <1>1, <2>4, <2>5, <2>6, SearchStep DEF TypeInField, Good
<1>2. CASE ReleaseElsewhere
  <2>1. held # "text"
    BY <1>2, Elsewhere DEF ReleaseElsewhere, ShownInv, Nowhere, Select, Field
  <2> QED
    BY <1>0, <1>2, <2>1, SteadyItself, SteadyStep DEF ReleaseElsewhere
<1>3. ASSUME NEW key, ReleaseInField(key)
      PROVE  ShownInv'
  <2>1. key = "shift down" => Compared(box)
    BY <1>3 DEF ReleaseInField, ShownInv
  <2>2. Good(box', frame) /\ Compared(box')
    BY <1>0, <1>3, <2>1, OnSearchFieldChangeGood DEF ReleaseInField
  <2>3. focus'[1] = "item" => focus'[2] \in DOMAIN frame.rows
    BY <1>0, <1>3, FieldTargets DEF ReleaseInField
  <2> QED
    BY <1>3, <2>2, <2>3, SearchStep DEF ReleaseInField
<1>4. ASSUME NEW key \in ArrowKeys, PressInSelect(key)
      PROVE  ShownInv'
  <2>1. held # "text" /\ held' # "text"
    BY <1>4 DEF PressInSelect, ArrowKeys
  <2>2. Good(box', frame) /\ Compared(box')
    BY <1>0, <1>4, <2>1, OnSearchSelectKeyGood DEF PressInSelect, ShownInv
  <2>3. focus' \in {Field, Select}
    BY <1>4 DEF PressInSelect, SelectTarget
  <2> QED
    BY <1>4, <2>1, <2>2, <2>3, Elsewhere, SearchStep DEF PressInSelect
<1>5. ASSUME NEW type \in {"keydown", "keypress", "keyup"}, NEW key \in ArrowKeys,
             KeyInResults(type, key)
      PROVE  ShownInv'
  BY <1>5, KeyInResultsShown
<1>6. CASE ClickField
  <2>1. Steady(box, box') /\ held = "none" /\ held' = held /\ focus' = Field /\ frame' = frame
    BY <1>0, <1>6, RefocusSteady DEF ClickField, Click
  <2> QED
    BY <2>1, Elsewhere, SteadyStep
<1>7. CASE ClickElsewhere
  <2>1. Steady(box, box') /\ held = "none" /\ held' = held /\ focus' = Nowhere /\ frame' = frame
    BY <1>0, <1>7, RefocusSteady DEF ClickElsewhere, Click
  <2> QED
    BY <2>1, Elsewhere, SteadyStep
<1>8. CASE ClickClose
  <2> DEFINE left == Refocus(box, Nowhere)
  <2>1. Steady(box, left) /\ Sane(left)
    BY <1>0, RefocusSteady DEF Steady, Calm
  <2>2. Steady(left, CloseResultsWindow(left))
    BY <2>1, CloseResultsWindowSteady
  <2>3. Steady(box, box')
    BY <1>8, <2>1, <2>2, SteadyTransitive DEF ClickClose, Click
  <2>4. held = "none" /\ held' = held /\ focus' = Nowhere /\ frame' = frame
    BY <1>8 DEF ClickClose, Click
  <2> QED
    BY <2>3, <2>4, Elsewhere, SteadyStep
<1>9. ASSUME NEW id, ClickFilter(id)
      PROVE  ShownInv'
  <2> DEFINE left == Refocus(box, Select)
  <2>1. held = "none" /\ held' = held /\ focus' = Select /\ frame' = frame
        /\ box' = OnSelectItem(left, id)
    BY <1>9 DEF ClickFilter, Click
  <2>2. Steady(box, left)
    BY <1>0, RefocusSteady
  <2>3. Good(left, frame) /\ Compared(left)
    BY <1>0, <2>1, <2>2, CalmIsGood, SteadyIsCompared DEF Steady, ShownInv
  <2>4. Good(box', frame) /\ Compared(box')
    BY <2>1, <2>3, OnSelectItemGood
  <2> QED
    BY <2>1, <2>4, Elsewhere, SearchStep
<1>10. ASSUME NEW i \in DOMAIN frame.rows, ClickRow(i)
       PROVE  ShownInv'
  <2>1. /\ held = "none" /\ held' = held /\ focus' = Item(i) /\ frame' = Toggle(frame, i)
        /\ box' = Refocus(box, Item(i))
    BY <1>10 DEF ClickRow, Click
  <2>2. Steady(box, box')
    BY <1>0, <2>1, RefocusSteady
  <2>3. FrameOK(frame') /\ SameSearch(frame, frame')
    BY <1>0, <2>1, ToggleFrame
  <2>4. Good(box', frame) /\ Compared(box')
    BY <1>0, <2>1, <2>2, CalmIsGood, SteadyIsCompared DEF Steady, ShownInv
  <2>5. Good(box', frame')
    BY <2>3, <2>4 DEF Good, Loads, SameSearch
  <2>6. focus'[2] = i /\ i \in DOMAIN frame'.rows
    BY <2>1, <2>3 DEF Item, SameSearch
  <2> QED
    BY <2>1, <2>3, <2>4, <2>5, <2>6 DEF ShownInv
<1>11. CASE MouseOver \/ MouseOut
  <2>1. Steady(box, box') /\ frame' = frame /\ focus' = focus /\ held' = held
    BY <1>0, <1>11, MenuSteady DEF MouseOver, MouseOut
  <2>2. Good(box', frame) /\ (Compared(box) => Compared(box'))
    BY <1>0, <2>1, CalmIsGood, SteadyIsCompared DEF Steady
  <2> QED
    BY <2>1, <2>2, SearchStep DEF ShownInv
<1>12. CASE KeyTimerFires
  BY <1>12, KeyTimerShown
<1>13. CASE HideTimerFires
  <2>1. Steady(box, box') /\ frame' = frame /\ focus' = focus /\ held' = held
    BY <1>0, <1>13, MenuSteady DEF HideTimerFires
  <2>2. Good(box', frame) /\ (Compared(box) => Compared(box'))
    BY <1>0, <2>1, CalmIsGood, SteadyIsCompared DEF Steady
  <2> QED
    BY <2>1, <2>2, SearchStep DEF ShownInv
<1>14. CASE PageLoads
  BY <1>14, PageLoadsShown
<1> QED
  BY <1>1, <1>2, <1>3, <1>4, <1>5, <1>6, <1>7, <1>8, <1>9, <1>10, <1>11, <1>12, <1>13,
     <1>14 DEF SearchNext, UserStep

LEMMA ShownInvariant == SearchSpec => []ShownInv
<1>1. ShownInv /\ [SearchNext]_searchVars => ShownInv'
  <2>1. ShownInv /\ UNCHANGED searchVars => ShownInv'
    BY DEF searchVars, ShownInv
  <2> QED
    BY <2>1, ShownNext
<1> QED
  BY ShownInit, <1>1, PTL DEF SearchSpec

LEMMA ShownImplies == ShownInv => ShownAnswersTheField
<1> SUFFICES ASSUME ShownInv, AtRest, box.results, box.searchActive, Question # <<>>,
                    ~ SearchThrows(box), ~ box.astray
             PROVE  /\ StripBlanks(box.lastSearchValue) = Question
                    /\ box.lastResultsPage = ResultsPage(box.bullet, StripLeading(box.field))
                    /\ frame.page = box.lastResultsPage
                    /\ frame.display = Search(frame.rows, box.lastSearchValue)
  BY DEF ShownAnswersTheField
<1>1. /\ Sane(box) /\ Shows(box) /\ box.keyTimeout = FALSE /\ box.loading[1] = NoPage
      /\ Compared(box) /\ Fits(box) /\ Loads(box, frame)
  BY DEF ShownInv, Good, Sane, AtRest, Shows
<1>2. StripBlanks(box.lastSearchValue) = Question
  BY <1>1 DEF Compared, Question
<1>3. box.field \in Seq(Character) /\ box.lastSearchValue \in Seq(Character)
  BY <1>1 DEF Sane
<1>4. box.lastSearchValue # <<>>
  <2>1. <<>> \in Seq(Character) /\ StripLeading(<<>>) = <<>>
    BY DEF StripLeading
  <2>2. StripBlanks(<<>>) = <<>>
    BY <2>1, StripLeadingProperties
  <2> QED
    BY <1>2, <2>2
<1>5. box.lastSearchValue[1] = Question[1]
  <2>1. StripLeading(box.lastSearchValue) = box.lastSearchValue
    BY <1>1, <1>3, <1>4, StripLeadingProperties DEF Sane
  <2> QED
    BY <1>2, <1>3, <2>1, StripLeadingProperties
<1>6. StripLeading(box.field) # <<>> /\ StripLeading(box.field)[1] = Question[1]
  BY <1>3, StripLeadingProperties DEF Question
<1>7. box.lastResultsPage = ResultsPage(box.searchIndex, box.lastSearchValue)
  BY <1>1, <1>4 DEF Fits
<1>8. ResultsPage(box.searchIndex, box.lastSearchValue)
        = ResultsPage(box.bullet, StripLeading(box.field))
  BY <1>1, <1>4, <1>5, <1>6 DEF ResultsPage, Sane
<1>9. frame.page = box.lastResultsPage /\ frame.display = Search(frame.rows, box.lastSearchValue)
  BY <1>1 DEF Loads
<1> QED
  BY <1>2, <1>7, <1>8, <1>9

\* Once the keyboard is at rest and the frame has loaded, an open window shows the results of what is
\* in the field under the marked filter: for every index of the search and every field, whatever key
\* events, forgotten timers, filters and loading have overlapped, as long as the panel has not emptied
\* the field itself.
THEOREM ResultsAnswerTheField == SearchSpec => []ShownAnswersTheField
BY ShownInvariant, ShownImplies, PTL

\* In the results Up goes back to where Down came from, for every page of results whose rows are
\* sorted, whatever the search has left of them and whichever of the rows of one id has its children
\* open.
THEOREM UpGoesBack == SearchSpec => []UpUndoesDown
<1>1. ShownInv => UpUndoesDown
  BY UpAfterDown DEF ShownInv
<1> QED
  BY <1>1, ShownInvariant, PTL

-----------------------------------------------------------------------------
(***************************************************************************)
(* No code is a beginning of another, so the identifiers begin alike       *)
(* exactly if the names do.                                                *)
(***************************************************************************)
LEMMA PrefixElements ==
  ASSUME NEW T, NEW a \in Seq(T), NEW b \in Seq(T)
  PROVE  IsPrefix(a, b) <=> Len(a) <= Len(b) /\ \A i \in 1 .. Len(a) : a[i] = b[i]
<1>1. SubSeq(a, 1, Len(a)) = a
  OBVIOUS
<1>2. CASE Len(a) <= Len(b)
  <2> DEFINE c == SubSeq(b, 1, Len(a))
  <2>1. c \in Seq(T) /\ Len(c) = Len(a) /\ \A i \in 1 .. Len(a) : c[i] = b[i]
    BY <1>2
  <2> HIDE DEF c
  <2>2. a = c <=> \A i \in 1 .. Len(a) : a[i] = b[i]
    <3>1. ASSUME \A i \in 1 .. Len(a) : a[i] = c[i]
          PROVE  a = c
      BY <2>1, <3>1
    <3> QED
      BY <2>1, <3>1
  <2> QED
    BY <1>1, <1>2, <2>2 DEF IsPrefix, c
<1>3. CASE ~ (Len(a) <= Len(b))
  BY <1>3 DEF IsPrefix
<1> QED
  BY <1>2, <1>3

(* A longer name has a longer identifier, which goes on where the shorter  *)
(* one ends.                                                               *)
LEMMA IdGrows ==
  ASSUME NEW T, NEW s \in Seq(T), NEW j \in 0 .. Len(s), NEW k \in 0 .. Len(s), j <= k
  PROVE  IsPrefix(IdTo(s, j), IdTo(s, k)) /\ (j < k => Len(IdTo(s, j)) < Len(IdTo(s, k)))
<1> DEFINE Grown(n) == /\ IsPrefix(IdTo(s, j), IdTo(s, n))
                       /\ j < n => Len(IdTo(s, j)) < Len(IdTo(s, n))
           S == {n \in 0 .. Len(s) : n < j \/ Grown(n)}
<1>1. ASSUME NEW n \in 0 .. Len(s)
      PROVE  IdTo(s, n) \in Seq(Sign(T))
  BY IdType
<1>2. ASSUME NEW n \in 0 .. Len(s), n = j
      PROVE  Grown(n)
  BY <1>1, <1>2, PrefixElements
<1>3. 0 \in S
  BY <1>2
<1>4. ASSUME NEW n \in 0 .. Len(s) - 1, n \in S
      PROVE  n + 1 \in S
  <2>1. n \in 0 .. Len(s) /\ n + 1 \in 0 .. Len(s) /\ s[n + 1] \in T
    OBVIOUS
  <2>2. CASE n + 1 <= j
    BY <1>2, <2>1, <2>2
  <2>3. CASE n + 1 > j
    <3>1. Grown(n) /\ n >= j
      BY <1>4, <2>1, <2>3
    <3> DEFINE a == IdTo(s, j)
               b == IdTo(s, n)
               e == Code(s[n + 1])
               c == IdTo(s, n + 1)
    <3>2. /\ a \in Seq(Sign(T)) /\ b \in Seq(Sign(T)) /\ c \in Seq(Sign(T))
          /\ e \in Seq(Sign(T)) /\ e # <<>>
      BY <1>1, <2>1, CodeType
    <3>3. c = b \o e
      BY IdToStep
    <3>4. IsPrefix(a, b)
      BY <3>1
    <3> HIDE DEF a, b, c, e
    <3>5. Len(a) <= Len(b) /\ \A i \in 1 .. Len(a) : a[i] = b[i]
      BY <3>2, <3>4, PrefixElements
    <3>6. Len(c) = Len(b) + Len(e) /\ Len(e) > 0 /\ \A i \in 1 .. Len(b) : c[i] = b[i]
      BY <3>2, <3>3
    <3>7. Len(a) < Len(c) /\ \A i \in 1 .. Len(a) : a[i] = c[i]
      BY <3>2, <3>5, <3>6
    <3>8. Grown(n + 1)
      BY <3>2, <3>7, PrefixElements DEF a, c
    <3> QED
      BY <2>1, <3>8
  <2> QED
    BY <2>1, <2>2, <2>3
<1>5. Len(s) \in Nat
  OBVIOUS
<1> HIDE DEF S
<1>6. \A n \in 0 .. Len(s) : n \in S
  BY <1>3, <1>4, <1>5, Induction
<1>7. k \in S
  BY <1>6
<1> HIDE DEF Grown
<1>8. Grown(k)
  BY <1>7 DEF S
<1> QED
  BY <1>8 DEF Grown

LEMMA IdsAgree ==
  ASSUME NEW T, NEW s \in Seq(T), NEW t \in Seq(T), NEW m \in Nat,
         m <= Len(s), m <= Len(t), \A i \in 1 .. m : s[i] = t[i]
  PROVE  IdTo(s, m) = IdTo(t, m)
<1> DEFINE S == {n \in 0 .. m : IdTo(s, n) = IdTo(t, n)}
<1>1. 0 \in S
  <2>1. IdTo(s, 0) = <<>> /\ IdTo(t, 0) = <<>> /\ 0 \in 0 .. m
    BY IdToStep
  <2> QED
    BY <2>1
<1>2. ASSUME NEW n \in 0 .. m - 1, n \in S
      PROVE  n + 1 \in S
  <2>1. n \in 0 .. Len(s) - 1 /\ n \in 0 .. Len(t) - 1 /\ n + 1 \in 1 .. m /\ n + 1 \in 0 .. m
    OBVIOUS
  <2>2. IdTo(s, n + 1) = IdTo(s, n) \o Code(s[n + 1])
    BY <2>1, IdToStep
  <2>3. IdTo(t, n + 1) = IdTo(t, n) \o Code(t[n + 1])
    BY <2>1, IdToStep
  <2>4. s[n + 1] = t[n + 1]
    BY <2>1
  <2> QED
    BY <1>2, <2>1, <2>2, <2>3, <2>4
<1> HIDE DEF S
<1>3. m \in 0 .. m
  OBVIOUS
<1>4. \A n \in 0 .. m : n \in S
  BY <1>1, <1>2, Induction
<1> QED
  BY <1>3, <1>4 DEF S

LEMMA IdsBeginAlike ==
  ASSUME NEW T, NEW s \in Seq(T), NEW t \in Seq(T)
  PROVE  IsPrefix(convertToId(s), convertToId(t)) <=> IsPrefix(s, t)
<1> DEFINE m == Len(s)
           n == Len(t)
<1>1. m \in Nat /\ n \in Nat /\ m \in 0 .. m /\ n \in 0 .. n
  OBVIOUS
<1>2. convertToId(s) = IdTo(s, m) /\ convertToId(t) = IdTo(t, n)
  BY IdIsIdTo
<1>3. /\ \A k \in 0 .. m : IdTo(s, k) \in Seq(Sign(T))
      /\ \A k \in 0 .. n : IdTo(t, k) \in Seq(Sign(T))
  BY IdType
<1>4. ASSUME IsPrefix(s, t)
      PROVE  IsPrefix(IdTo(s, m), IdTo(t, n))
  <2>1. m <= n /\ \A i \in 1 .. m : s[i] = t[i]
    BY <1>4, PrefixElements
  <2>2. IdTo(s, m) = IdTo(t, m)
    BY <1>1, <2>1, IdsAgree
  <2>3. m \in 0 .. n
    BY <1>1, <2>1
  <2> QED
    BY <1>1, <2>1, <2>2, <2>3, IdGrows
<1>5. ASSUME IsPrefix(IdTo(s, m), IdTo(t, n)), ~ IsPrefix(s, t)
      PROVE  FALSE
  <2> DEFINE wrong == {i \in 1 .. m : i > n \/ s[i] # t[i]}
  <2>1. wrong # {} /\ wrong \in SUBSET Nat
    <3>1. ~ (m <= n /\ \A i \in 1 .. m : s[i] = t[i])
      BY <1>5, PrefixElements
    <3>2. m <= n \/ m \in wrong
      BY <1>1
    <3> QED
      BY <3>1, <3>2
  <2>2. PICK k \in wrong : \A i \in wrong : k <= i
    <3> HIDE DEF wrong
    <3> QED
      BY <2>1, MinLeast
  <2>3. k \in 1 .. m /\ k - 1 \in Nat
    OBVIOUS
  <2>4. ASSUME NEW i \in 1 .. k - 1
        PROVE  i <= n /\ s[i] = t[i]
    <3>1. i \in 1 .. m /\ ~ (k <= i)
      BY <2>3
    <3>2. i \notin wrong
      BY <2>2, <3>1
    <3> QED
      BY <1>1, <3>1, <3>2
  <2>5. k - 1 <= n
    <3>1. k - 1 = 0 \/ k - 1 \in 1 .. k - 1
      BY <2>3
    <3> QED
      BY <1>1, <2>4, <3>1
  <2>6. k > n \/ s[k] # t[k]
    OBVIOUS
  <2> HIDE DEF wrong
  <2>7. IdTo(s, k - 1) = IdTo(t, k - 1)
    BY <2>3, <2>4, <2>5, IdsAgree
  <2>8. IsPrefix(IdTo(s, k), IdTo(s, m)) /\ Len(IdTo(s, k - 1)) < Len(IdTo(s, k))
    <3>1. k \in 0 .. m /\ k - 1 \in 0 .. m /\ k - 1 < k /\ k - 1 <= k /\ k <= m
      BY <2>3
    <3> QED
      BY <1>1, <3>1, IdGrows
  <2>9. CASE k > n
    <3>1. k - 1 = n
      BY <1>1, <2>3, <2>5, <2>9
    <3>2. Len(IdTo(t, n)) < Len(IdTo(s, k)) /\ Len(IdTo(s, k)) <= Len(IdTo(s, m))
      BY <2>7, <2>8, <3>1 DEF IsPrefix
    <3>3. Len(IdTo(s, m)) <= Len(IdTo(t, n))
      BY <1>5 DEF IsPrefix
    <3>4. Len(IdTo(t, n)) \in Nat /\ Len(IdTo(s, k)) \in Nat /\ Len(IdTo(s, m)) \in Nat
      BY <1>1, <1>3, <2>3
    <3> QED
      BY <3>2, <3>3, <3>4
  <2>10. CASE k <= n /\ s[k] # t[k]
    <3> DEFINE u == IdTo(s, k - 1)
               x == Code(s[k])
               y == Code(t[k])
               S == IdTo(s, m)
               V == IdTo(t, n)
    <3>1. k - 1 \in 0 .. m - 1 /\ k - 1 \in 0 .. n - 1 /\ (k - 1) + 1 = k /\ k \in 0 .. m /\ k \in 0 .. n
      BY <1>1, <2>3, <2>10
    <3>2. IdTo(s, k) = u \o x /\ IdTo(t, k) = u \o y
      BY <2>7, <3>1, IdToStep
    <3>3. /\ u \in Seq(Sign(T)) /\ S \in Seq(Sign(T)) /\ V \in Seq(Sign(T))
          /\ x \in Seq(Sign(T)) /\ y \in Seq(Sign(T))
      <4>1. k - 1 \in 0 .. m
        BY <3>1
      <4>2. s[k] \in T /\ t[k] \in T
        BY <2>3, <2>10
      <4> QED
        BY <1>1, <1>3, <4>1, <4>2, CodeType
    <3>4. IsPrefix(u \o x, S) /\ IsPrefix(u \o y, V) /\ IsPrefix(S, V)
      <4>1. IsPrefix(IdTo(t, k), V)
        BY <1>1, <2>10, <3>1, IdGrows
      <4> QED
        BY <1>5, <2>8, <3>2, <4>1
    <3>5. ~ IsPrefix(x, y) /\ ~ IsPrefix(y, x)
      BY <2>10, CodesDiffer
    <3> HIDE DEF u, x, y, S, V
    <3> DEFINE ux == u \o x
               uy == u \o y
    <3>6. ux \in Seq(Sign(T)) /\ uy \in Seq(Sign(T))
      BY <3>3
    <3>7. IsPrefix(ux, S) /\ IsPrefix(uy, V)
      BY <3>4
    <3>8. /\ Len(ux) = Len(u) + Len(x) /\ Len(uy) = Len(u) + Len(y)
          /\ \A i \in 1 .. Len(x) : ux[Len(u) + i] = x[i]
          /\ \A i \in 1 .. Len(y) : uy[Len(u) + i] = y[i]
      BY <3>3
    <3> HIDE DEF ux, uy
    <3>9. /\ \A i \in 1 .. Len(ux) : ux[i] = S[i]
           /\ Len(ux) <= Len(S)
      BY <3>3, <3>6, <3>7, PrefixElements
    <3>10. \A i \in 1 .. Len(uy) : uy[i] = V[i]
      BY <3>3, <3>6, <3>7, PrefixElements
    <3>11. \A i \in 1 .. Len(S) : S[i] = V[i]
      BY <3>3, <3>4, PrefixElements
    <3>12. ASSUME NEW i \in 1 .. Len(x), i \in 1 .. Len(y)
          PROVE  x[i] = y[i]
      <4>1. Len(u) + i \in 1 .. Len(ux) /\ Len(u) + i \in 1 .. Len(uy)
        BY <3>3, <3>8, <3>12
      <4>2. Len(u) + i \in 1 .. Len(S)
        BY <3>3, <3>6, <3>9, <4>1
      <4> QED
        BY <3>8, <3>12, <3>9, <3>10, <3>11, <4>1, <4>2
    <3>13. CASE Len(x) <= Len(y)
      <4>1. \A i \in 1 .. Len(x) : i \in 1 .. Len(y)
        BY <3>3, <3>13
      <4>2. \A i \in 1 .. Len(x) : x[i] = y[i]
        BY <3>12, <4>1
      <4>3. x \in Seq(Sign(T)) /\ y \in Seq(Sign(T))
        BY <3>3
      <4>4. IsPrefix(x, y)
        BY <3>13, <4>2, <4>3, PrefixElements
      <4> QED
        BY <3>5, <4>4
    <3>14. CASE Len(y) <= Len(x)
      <4>1. \A i \in 1 .. Len(y) : i \in 1 .. Len(x)
        BY <3>3, <3>14
      <4>2. \A i \in 1 .. Len(y) : y[i] = x[i]
        BY <3>12, <4>1
      <4>3. y \in Seq(Sign(T)) /\ x \in Seq(Sign(T))
        BY <3>3
      <4>4. IsPrefix(y, x)
        BY <3>14, <4>2, <4>3, PrefixElements
      <4> QED
        BY <3>5, <4>4
    <3> QED
      BY <3>3, <3>13, <3>14
  <2> QED
    BY <1>1, <2>3, <2>6, <2>9, <2>10
<1> HIDE DEF m, n
<1> QED
  BY <1>2, <1>4, <1>5

(* The search (search.js:511-551) finds exactly the names that begin with  *)
(* the text, blanks at its ends aside, whatever the characters of the text *)
(* and of the names, and whatever their length.                            *)
THEOREM SearchFindsWhatBegins ==
  ASSUME NEW T, NEW name \in Seq(T), NEW text \in Seq(T)
  PROVE  Matches(convertToId(name), text) <=> IsPrefix(StripEnds(text), name)
BY StripEndsType, IdsBeginAlike DEF Matches

(* The property that the run checks, for the names of at most three        *)
(* characters: every set of characters and of codes instead of one.        *)
THEOREM SearchFinds == SearchSpec => []FindsWhatBeginsSo
<1>1. ASSUME NEW s \in Short
      PROVE  s \in Seq(Characters)
  <2>1. PICK n \in 0 .. 3 : s \in [1 .. n -> Characters]
    BY DEF Short, SeqOf
  <2> QED
    BY <2>1
<1>2. FindsWhatBeginsSo
  BY <1>1, SearchFindsWhatBegins DEF FindsWhatBeginsSo
<1> QED
  BY <1>2, PTL

-----------------------------------------------------------------------------
(***************************************************************************)
(* The menu of filters.  The timer that closes it is never forgotten,      *)
(* unlike that of the field, so stopping it is enough.                     *)
(***************************************************************************)
\* No timer of the menu is forgotten, and none runs while the mouse is over it.
MenuInv ==
  /\ IsBox(box)
  /\ box.strayHideTimers = 0
  /\ mouse \in {"over", "away"}
  /\ mouse = "over" => box.hideTimeout = FALSE

(* A handler that starts no timer of the menu.                             *)
Harmless(b, c) ==
  /\ IsBox(c)
  /\ c.strayHideTimers = b.strayHideTimers
  /\ b.hideTimeout = FALSE => c.hideTimeout = FALSE

(* It does not close the menu either.                                      *)
Keeps(b, c) == Harmless(b, c) /\ (b.menu => c.menu)

LEMMA KeepsTransitive ==
  ASSUME NEW a, NEW b, NEW c, Keeps(a, b), Keeps(b, c)
  PROVE  Keeps(a, c)
BY DEF Keeps, Harmless

(***************************************************************************)
(* The handlers, one after the other.                                      *)
(***************************************************************************)
LEMMA KeepsItself ==
  ASSUME NEW b, IsBox(b)
  PROVE  Keeps(b, b)
BY DEF Keeps, Harmless

LEMMA ActivateKeeps ==
  ASSUME NEW b, IsBox(b), NEW isActive
  PROVE  Keeps(b, Activate(b, isActive))
BY DEF Activate, Keeps, Harmless, IsBox, BoxFields

LEMMA HideResultsKeeps ==
  ASSUME NEW b, IsBox(b)
  PROVE  Keeps(b, HideResults(b))
BY DEF HideResults, Keeps, Harmless, IsBox, BoxFields

LEMMA CloseResultsWindowKeeps ==
  ASSUME NEW b, IsBox(b)
  PROVE  Keeps(b, CloseResultsWindow(b))
<1>1. Keeps(b, HideResults(b)) /\ IsBox(HideResults(b))
  BY HideResultsKeeps DEF Keeps, Harmless
<1>2. Keeps(HideResults(b), CloseResultsWindow(b))
  BY <1>1, ActivateKeeps DEF CloseResultsWindow
<1> QED
  BY <1>1, <1>2, KeepsTransitive

LEMMA SearchPanelKeeps ==
  ASSUME NEW b, IsBox(b)
  PROVE  Keeps(b, SearchPanel(b))
<1> DEFINE forgotten == [b EXCEPT !.keyTimeout = FALSE,
                           !.strayKeyTimers = @ + (IF b.keyTimeout THEN 1 ELSE 0)]
           searchValue == StripLeading(b.field)
           page == ResultsPage(b.searchIndex, searchValue)
           searched == [forgotten EXCEPT
              !.results = TRUE, !.lastSearchValue = searchValue, !.lastResultsPage = page,
              !.astray = FALSE,
              !.loading = <<page, IF page = NoMatches THEN <<>> ELSE searchValue>>]
<1>1. Keeps(b, forgotten) /\ IsBox(forgotten)
  BY DEF Keeps, Harmless, IsBox, BoxFields
<1>2. SearchPanel(b) = IF SearchThrows(b) THEN forgotten ELSE searched
  BY DEF SearchPanel
<1> HIDE DEF forgotten, searchValue, page
<1>3. Keeps(forgotten, searched)
  BY <1>1 DEF Keeps, Harmless, IsBox, BoxFields
<1> QED
  BY <1>1, <1>2, <1>3, KeepsTransitive

LEMMA OnSelectItemKeeps ==
  ASSUME NEW b, IsBox(b), NEW id
  PROVE  Keeps(b, OnSelectItem(b, id))
<1> DEFINE s == [b EXCEPT !.searchIndex = id, !.bullet = id]
<1>1. Keeps(b, s) /\ IsBox(s)
  BY DEF Keeps, Harmless, IsBox, BoxFields
<1>2. Keeps(s, SearchPanel(s))
  BY <1>1, SearchPanelKeeps
<1> QED
  BY <1>1, <1>2, KeepsTransitive DEF OnSelectItem

LEMMA CompareValueKeeps ==
  ASSUME NEW b, IsBox(b)
  PROVE  Keeps(b, CompareValue(b))
<1>1. Keeps(b, b)
  BY KeepsItself
<1>2. Keeps(b, [b EXCEPT !.keyTimeout = TRUE])
  BY DEF Keeps, Harmless, IsBox, BoxFields
<1>3. Keeps(b, HideResults(b)) /\ IsBox(HideResults(b))
  BY HideResultsKeeps DEF Keeps, Harmless
<1>4. Keeps(HideResults(b), [HideResults(b) EXCEPT !.lastSearchValue = <<>>])
  BY <1>3 DEF Keeps, Harmless, IsBox, BoxFields
<1>5. Keeps(b, [HideResults(b) EXCEPT !.lastSearchValue = <<>>])
  BY <1>3, <1>4, KeepsTransitive
<1> DEFINE searchValue == StripBlanks(b.field)
<1>6. CASE searchValue = b.lastSearchValue
  <2>1. CompareValue(b) = b
    BY <1>6 DEF CompareValue
  <2> QED
    BY <2>1, <1>1
<1>7. CASE searchValue # b.lastSearchValue /\ searchValue # <<>>
  <2>1. CompareValue(b) = [b EXCEPT !.keyTimeout = TRUE]
    BY <1>7 DEF CompareValue
  <2> QED
    BY <2>1, <1>2
<1>8. CASE searchValue # b.lastSearchValue /\ searchValue = <<>>
  <2>1. CompareValue(b) = [HideResults(b) EXCEPT !.lastSearchValue = <<>>]
    BY <1>8 DEF CompareValue
  <2> QED
    BY <2>1, <1>5
<1> QED
  BY <1>6, <1>7, <1>8

LEMMA OnSearchSelectShowKeeps ==
  ASSUME NEW b, IsBox(b)
  PROVE  Keeps(b, OnSearchSelectShow(b)) /\ OnSearchSelectShow(b).hideTimeout = FALSE
BY DEF OnSearchSelectShow, Keeps, Harmless, IsBox, BoxFields

LEMMA OnSearchFieldChangeKeeps ==
  ASSUME NEW b, IsBox(b), NEW key
  PROVE  Keeps(b, OnSearchFieldChange(b, key))
<1> DEFINE s == StopKeyTimer(b)
           left == IF FieldTarget(b, key) = Field THEN s ELSE Activate(s, FALSE)
           shown == Activate(OnSearchSelectShow(s), FALSE)
           hidden == [HideResults(left) EXCEPT !.lastSearchValue = <<>>]
<1>1. Keeps(b, s) /\ IsBox(s)
  BY DEF StopKeyTimer, Keeps, Harmless, IsBox, BoxFields
<1>2. Keeps(b, left) /\ IsBox(left)
  <2>1. Keeps(s, Activate(s, FALSE)) /\ IsBox(Activate(s, FALSE))
    BY <1>1, ActivateKeeps DEF Keeps, Harmless
  <2> QED
    BY <1>1, <2>1, KeepsTransitive
<1>3. Keeps(b, CompareValue(left))
  BY <1>2, CompareValueKeeps, KeepsTransitive
<1>4. Keeps(b, shown) /\ IsBox(shown)
  <2>1. Keeps(s, OnSearchSelectShow(s)) /\ IsBox(OnSearchSelectShow(s))
    BY <1>1, OnSearchSelectShowKeeps DEF Keeps, Harmless
  <2>2. Keeps(OnSearchSelectShow(s), shown) /\ IsBox(shown)
    BY <2>1, ActivateKeeps DEF Keeps, Harmless
  <2> QED
    BY <1>1, <2>1, <2>2, KeepsTransitive
<1>5. Keeps(b, [shown EXCEPT !.astray = @ \/ b.keyTimeout])
  <2> HIDE DEF shown
  <2>1. Keeps(shown, [shown EXCEPT !.astray = @ \/ b.keyTimeout])
    BY <1>4 DEF Keeps, Harmless, IsBox, BoxFields
  <2> QED
    BY <1>4, <2>1, KeepsTransitive
<1>6. Keeps(b, Activate(hidden, FALSE))
  <2>1. Keeps(left, HideResults(left)) /\ IsBox(HideResults(left))
    BY <1>2, HideResultsKeeps DEF Keeps, Harmless
  <2>2. Keeps(HideResults(left), hidden) /\ IsBox(hidden)
    BY <2>1 DEF Keeps, Harmless, IsBox, BoxFields
  <2>3. Keeps(hidden, Activate(hidden, FALSE))
    BY <2>2, ActivateKeeps
  <2> QED
    BY <1>2, <2>1, <2>2, <2>3, KeepsTransitive
<1>7. CASE key = "shift down"
  <2>1. OnSearchFieldChange(b, key) = [shown EXCEPT !.astray = @ \/ b.keyTimeout]
    BY <1>7 DEF OnSearchFieldChange
  <2> QED
    BY <2>1, <1>5
<1>8. CASE key = "escape"
  <2>1. OnSearchFieldChange(b, key) = Activate(hidden, FALSE)
    BY <1>8 DEF OnSearchFieldChange
  <2> QED
    BY <2>1, <1>6
<1>9. CASE key # "shift down" /\ key # "escape"
  <2>1. OnSearchFieldChange(b, key) = CompareValue(left)
    BY <1>9 DEF OnSearchFieldChange
  <2> QED
    BY <2>1, <1>3
<1> QED
  BY <1>7, <1>8, <1>9

LEMMA RefocusKeeps ==
  ASSUME NEW b, IsBox(b), NEW to
  PROVE  Keeps(b, Refocus(b, to))
<1>1. Refocus(b, to) \in {Activate(b, FALSE), Activate(b, TRUE), b}
  BY DEF Refocus
<1> QED
  BY <1>1, ActivateKeeps, KeepsItself

(* Only a key in the menu may close it.                                    *)
LEMMA OnSearchSelectKeyHarmless ==
  ASSUME NEW b, IsBox(b), NEW key
  PROVE  Harmless(b, OnSearchSelectKey(b, key))
<1> DEFINE chosen == OnSelectItem(b, b.searchIndex)
           closed == CloseSelectionWindow(chosen)
<1>1. Keeps(b, chosen) /\ IsBox(chosen)
  BY OnSelectItemKeeps DEF Keeps, Harmless
<1>2. Harmless(b, closed) /\ IsBox(closed)
  <2> HIDE DEF chosen
  <2>1. Harmless(chosen, closed) /\ IsBox(closed)
    BY <1>1 DEF CloseSelectionWindow, Harmless, IsBox, BoxFields
  <2> QED
    BY <1>1, <2>1 DEF Keeps, Harmless
<1>3. Keeps(closed, Activate(closed, TRUE))
  BY <1>2, ActivateKeeps
<1>4. Harmless(b, Activate(closed, TRUE))
  BY <1>2, <1>3 DEF Keeps, Harmless
<1>5. /\ Harmless(b, chosen) /\ Harmless(b, b)
      /\ Harmless(b, OnSelectItem(b, b.searchIndex + 1))
      /\ Harmless(b, OnSelectItem(b, b.searchIndex - 1))
  BY <1>1, OnSelectItemKeeps, KeepsItself DEF Keeps
<1>6. OnSearchSelectKey(b, key) \in {chosen, b, Activate(closed, TRUE),
        OnSelectItem(b, b.searchIndex + 1), OnSelectItem(b, b.searchIndex - 1)}
  BY DEF OnSearchSelectKey
<1> QED
  BY <1>4, <1>5, <1>6

(***************************************************************************)
(* The steps.                                                              *)
(***************************************************************************)
MenuStep == MenuInv' /\ ~ (mouse = "over" /\ mouse' = "over" /\ box.menu /\ ~ box'.menu /\ held' = "none")

LEMMA KeepingStep ==
  ASSUME MenuInv, mouse' = mouse, Keeps(box, box')
  PROVE  MenuStep
BY DEF MenuStep, MenuInv, Keeps, Harmless

LEMMA MenuInit == SearchInit => MenuInv
BY DEF SearchInit, MenuInv, IsBox, BoxFields

LEMMA MenuNext ==
  ASSUME MenuInv, SearchNext
  PROVE  MenuStep
<1>0. IsBox(box)
  BY DEF MenuInv
<1>1. CASE TypeInField
  <2>1. PICK text : box' = [box EXCEPT !.field = text]
    BY <1>1 DEF TypeInField
  <2>2. Keeps(box, box')
    BY <1>0, <2>1 DEF Keeps, Harmless, IsBox, BoxFields
  <2> QED
    BY <1>1, <2>2, KeepingStep DEF TypeInField
<1>2. CASE ReleaseElsewhere
  BY <1>0, <1>2, KeepsItself, KeepingStep DEF ReleaseElsewhere
<1>3. ASSUME NEW key, ReleaseInField(key)
      PROVE  MenuStep
  BY <1>0, <1>3, OnSearchFieldChangeKeeps, KeepingStep DEF ReleaseInField
<1>4. ASSUME NEW key \in ArrowKeys, PressInSelect(key)
      PROVE  MenuStep
  <2>1. Harmless(box, box')
    BY <1>0, <1>4, OnSearchSelectKeyHarmless DEF PressInSelect
  <2>2. mouse' = mouse /\ held' # "none"
    BY <1>4 DEF PressInSelect, ArrowKeys
  <2> QED
    BY <2>1, <2>2 DEF MenuStep, MenuInv, Harmless
<1>5. ASSUME NEW type, NEW key, KeyInResults(type, key)
      PROVE  MenuStep
  <2>1. PICK closed \in {box, CloseResultsWindow(box)} : box' \in {closed, Activate(closed, TRUE)}
    BY <1>5 DEF KeyInResults
  <2>2. Keeps(box, closed) /\ IsBox(closed)
    BY <1>0, KeepsItself, CloseResultsWindowKeeps DEF Keeps, Harmless
  <2>3. Keeps(closed, Activate(closed, TRUE))
    BY <2>2, ActivateKeeps
  <2>4. Keeps(box, Activate(closed, TRUE))
    BY <2>2, <2>3, KeepsTransitive
  <2>5. Keeps(box, box')
    BY <2>1, <2>2, <2>4
  <2> QED
    BY <1>5, <2>5, KeepingStep DEF KeyInResults
<1>6. CASE ClickField
  BY <1>0, <1>6, RefocusKeeps, KeepingStep DEF ClickField, Click
<1>7. CASE ClickElsewhere
  BY <1>0, <1>7, RefocusKeeps, KeepingStep DEF ClickElsewhere, Click
<1>8. CASE ClickClose
  <2> DEFINE left == Refocus(box, Nowhere)
  <2>1. Keeps(box, left) /\ IsBox(left)
    BY <1>0, RefocusKeeps DEF Keeps, Harmless
  <2>2. Keeps(left, CloseResultsWindow(left))
    BY <2>1, CloseResultsWindowKeeps
  <2>3. Keeps(box, box')
    BY <1>8, <2>1, <2>2, KeepsTransitive DEF ClickClose, Click
  <2> QED
    BY <1>8, <2>3, KeepingStep DEF ClickClose, Click
<1>9. ASSUME NEW id, ClickFilter(id)
      PROVE  MenuStep
  <2> DEFINE left == Refocus(box, Select)
  <2>1. Keeps(box, left) /\ IsBox(left)
    BY <1>0, RefocusKeeps DEF Keeps, Harmless
  <2>2. Keeps(left, OnSelectItem(left, id))
    BY <2>1, OnSelectItemKeeps
  <2>3. Keeps(box, box')
    BY <1>9, <2>1, <2>2, KeepsTransitive DEF ClickFilter, Click
  <2> QED
    BY <1>9, <2>3, KeepingStep DEF ClickFilter, Click
<1>10. ASSUME NEW i, ClickRow(i)
       PROVE  MenuStep
  BY <1>0, <1>10, RefocusKeeps, KeepingStep DEF ClickRow, Click
<1>11. CASE MouseOver
  <2>1. Keeps(box, box') /\ box'.hideTimeout = FALSE
    BY <1>0, <1>11, OnSearchSelectShowKeeps DEF MouseOver
  <2> QED
    BY <1>11, <2>1 DEF MouseOver, MenuStep, MenuInv, Keeps, Harmless
<1>12. CASE MouseOut
  <2>1. box.hideTimeout = FALSE /\ box.strayHideTimers = 0
    BY <1>12 DEF MouseOut, MenuInv
  <2>2. box' = [box EXCEPT !.hideTimeout = TRUE, !.strayHideTimers = 0]
    <3>1. box' = OnSearchSelectHide(box)
      BY <1>12 DEF MouseOut
    <3>2. box.strayHideTimers + (IF box.hideTimeout THEN 1 ELSE 0) = 0
      BY <2>1
    <3> QED
      BY <3>1, <3>2 DEF OnSearchSelectHide
  <2>3. IsBox(box') /\ box'.strayHideTimers = 0
    BY <1>0, <2>2 DEF IsBox, BoxFields
  <2> QED
    BY <1>12, <2>3 DEF MouseOut, MenuStep, MenuInv
<1>13. CASE KeyTimerFires
  <2>1. PICK b \in {[box EXCEPT !.keyTimeout = FALSE],
                    [box EXCEPT !.strayKeyTimers = box.strayKeyTimers - 1]} :
          box' = SearchPanel(b)
    BY <1>13 DEF KeyTimerFires
  <2>2. Keeps(box, b) /\ IsBox(b)
    BY <1>0, <2>1 DEF Keeps, Harmless, IsBox, BoxFields
  <2>3. Keeps(b, SearchPanel(b))
    BY <2>2, SearchPanelKeeps
  <2>4. Keeps(box, box')
    BY <2>1, <2>2, <2>3, KeepsTransitive
  <2> QED
    BY <1>13, <2>4, KeepingStep DEF KeyTimerFires
<1>14. CASE HideTimerFires
  <2>1. box.strayHideTimers = 0 /\ box.hideTimeout /\ mouse' = mouse
    BY <1>14 DEF HideTimerFires, MenuInv
  <2>2. mouse # "over"
    BY <2>1 DEF MenuInv
  <2>3. box' = CloseSelectionWindow([box EXCEPT !.hideTimeout = FALSE])
    BY <1>14, <2>1 DEF HideTimerFires
  <2>4. IsBox(box') /\ box'.strayHideTimers = 0
    BY <1>0, <2>1, <2>3 DEF CloseSelectionWindow, IsBox, BoxFields
  <2> QED
    BY <2>1, <2>2, <2>4 DEF MenuStep, MenuInv
<1>15. CASE PageLoads
  <2>1. Keeps(box, box')
    BY <1>0, <1>15 DEF PageLoads, Keeps, Harmless, IsBox, BoxFields
  <2> QED
    BY <1>15, <2>1, KeepingStep DEF PageLoads
<1> QED
  BY <1>1, <1>2, <1>3, <1>4, <1>5, <1>6, <1>7, <1>8, <1>9, <1>10, <1>11, <1>12, <1>13,
     <1>14, <1>15 DEF SearchNext, UserStep

\* The menu is not closed under the mouse but by a key, for every index of the
\* search, every filter and any number of forgotten timers of the field.
THEOREM MenuIsKept == SearchSpec => MenuStaysOpen
<1>1. MenuInv /\ [SearchNext]_searchVars => MenuInv'
  BY MenuNext DEF MenuStep, MenuInv, searchVars
<1>2. MenuInv /\ [SearchNext]_searchVars =>
        [(mouse = "over" /\ mouse' = "over" /\ box.menu /\ ~ box'.menu) => held' # "none"]_searchVars
  BY MenuNext DEF MenuStep, searchVars
<1> QED
  BY MenuInit, <1>1, <1>2, PTL DEF SearchSpec, MenuStaysOpen
=============================================================================
