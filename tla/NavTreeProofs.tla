--------------------------- MODULE NavTreeProofs ---------------------------
(***************************************************************************)
(* What is proved about the navigation tree: which node is selected in the *)
(* end, and when a link is kept.                                           *)
(***************************************************************************)
EXTENDS NavTree, SequenceTheorems, WellFoundedInduction, TLAPS

TreeFields == {"crumbs", "fetched", "indices", "visited", "expanded", "selected"}

(* A tree, whose items are nodes.                                          *)
IsTree(t) ==
  /\ t = [f \in TreeFields |-> t[f]]
  /\ t.crumbs \in Seq(Nat)
  /\ t.visited \subseteq Node

IsScript(s) ==
  /\ s.kind \in {"index", "show", "child", "expand"}
  /\ s.kind # "index" => s.node \in Node
  /\ s.kind \in {"show", "child"} => s.index \in Nat \ {0}

(* A page and a hash that is no anchor of this page, if the page is        *)
(* another one.                                                            *)
IsAddress(url) ==
  /\ url # NoLink
  /\ url = <<url[1], url[2]>>
  /\ \A n \in Node : Url[n] = <<toroot, url[2]>> /\ url[2] # "" => url[1] = toroot

(* The script of a navigation to p that goes on where the way to p is.     *)
LeadsTo(t, s, p) ==
  /\ s.hash = p[2]
  /\ s.kind = "index" => s.node = RootOf(p) /\ s.index = FileOf(p)
  /\ s.kind # "index" =>
       /\ t.crumbs = CrumbsTo(p)
       /\ s.index \in 1 .. Len(t.crumbs)
       /\ s.node = Way(Top, t.crumbs)[s.index]

IsNavigation(s) == s.kind \in Navigations

(* Only the navigation to p is under way, and its node is selected in the  *)
(* end.                                                                    *)
GoesTo(t, ss, p) ==
  /\ \A i \in DOMAIN ss : IsNavigation(ss[i]) => LeadsTo(t, ss[i], p)
  /\ \A i, j \in DOMAIN ss : IsNavigation(ss[i]) /\ IsNavigation(ss[j]) => i = j
  /\ t.selected \subseteq {NodeOf(p)}
  /\ (\A i \in DOMAIN ss : ~ IsNavigation(ss[i])) => t.selected = {NodeOf(p)}

(* Nothing has happened yet.                                               *)
Untouched(t, ss) == t.expanded = {} /\ t.selected = {} /\ ss = <<>>
-----------------------------------------------------------------------------
(***************************************************************************)
(* Natural numbers: the least of a set, and induction.                     *)
(***************************************************************************)
LEMMA MinLeast ==
  ASSUME NEW S \in SUBSET Nat, S # {}
  PROVE  Min(S) \in S /\ \A x \in S : Min(S) <= x
<1> DEFINE R == OpToRel(<, Nat)
<1>1. \A x, y \in Nat : <<x, y>> \in R <=> x < y
  BY DEF OpToRel
<1>2. PICK x \in S : \A y \in S : ~ (<<y, x>> \in R)
  <2>1. IsWellFoundedOn(R, Nat)
    BY NatLessThanWellFounded
  <2> HIDE DEF R
  <2> QED
    BY <2>1, WFMin
<1>3. ASSUME NEW y \in S
      PROVE  x <= y
  <2> HIDE DEF R
  <2>1. x \in Nat /\ y \in Nat
    OBVIOUS
  <2>2. ~ (y < x)
    BY <1>1, <1>2, <2>1
  <2> QED
    BY <2>1, <2>2
<1> QED
  BY <1>3 DEF Min

LEMMA Induction ==
  ASSUME NEW n \in Nat, NEW S, 1 \in S, \A k \in 1 .. n - 1 : k \in S => k + 1 \in S
  PROVE  \A k \in 1 .. n : k \in S
<1> DEFINE missing == {k \in 1 .. n : k \notin S}
<1>1. ASSUME missing # {}
      PROVE  FALSE
  <2>1. Min(missing) \in missing /\ \A k \in missing : Min(missing) <= k
    BY <1>1, MinLeast
  <2>2. PICK m \in missing : \A k \in missing : m <= k
    BY <2>1
  <2>3. m # 1 /\ m - 1 \in 1 .. n - 1 /\ m - 1 \notin missing
    BY <2>2
  <2>4. m - 1 \in S
    BY <2>3
  <2>5. (m - 1) + 1 \in S
    BY <2>3, <2>4
  <2> QED
    BY <2>2, <2>5
<1> QED
  BY <1>1

-----------------------------------------------------------------------------
(***************************************************************************)
(* The way that breadcrumbs lead.                                          *)
(***************************************************************************)
LEMMA NoNodeIsNone == NoNode \notin Node
BY DataAssumption

(* As far as m, there is such a function.                                  *)
WayTo(n, crumbs, m, f) ==
  f = [k \in 1 .. m |-> IF k = 1 THEN n ELSE ChildAt(f[k - 1], crumbs[k - 1])]

LEMMA WayIs ==
  ASSUME NEW n, NEW crumbs
  PROVE  Way(n, crumbs) = CHOOSE f : WayTo(n, crumbs, Len(crumbs) + 1, f)
BY DEF Way, WayTo

LEMMA WayToExists ==
  ASSUME NEW n, NEW crumbs, NEW m \in Nat \ {0}
  PROVE  \E f : WayTo(n, crumbs, m, f)
<1> DEFINE S == {k \in 1 .. m : \E f : WayTo(n, crumbs, k, f)}
<1>1. 1 \in S
  <2> DEFINE f == [k \in 1 .. 1 |-> n]
  <2>1. f = [k \in 1 .. 1 |-> IF k = 1 THEN n ELSE ChildAt(f[k - 1], crumbs[k - 1])]
    OBVIOUS
  <2>2. WayTo(n, crumbs, 1, f)
    BY <2>1 DEF WayTo
  <2> QED
    BY <2>2
<1>2. ASSUME NEW k \in 1 .. m - 1, k \in S
      PROVE  k + 1 \in S
  <2>1. PICK f : WayTo(n, crumbs, k, f)
    BY <1>2
  <2> DEFINE next == ChildAt(f[k], crumbs[k])
             g == [j \in 1 .. k + 1 |-> IF j = k + 1 THEN next ELSE f[j]]
  <2>2. \A j \in 1 .. k : f[j] = IF j = 1 THEN n ELSE ChildAt(f[j - 1], crumbs[j - 1])
    BY <2>1 DEF WayTo
  <2> HIDE DEF next
  <2>3. \A j \in 1 .. k : j \in 1 .. k + 1 /\ j # k + 1 /\ g[j] = f[j]
    OBVIOUS
  <2>4. k + 1 \in 1 .. k + 1 /\ g[k + 1] = next
    OBVIOUS
  <2>5. g = [j \in 1 .. k + 1 |-> g[j]]
    OBVIOUS
  <2> HIDE DEF g
  <2>6. ASSUME NEW j \in 1 .. k + 1
        PROVE  g[j] = IF j = 1 THEN n ELSE ChildAt(g[j - 1], crumbs[j - 1])
    <3>1. CASE j = k + 1
      <4>1. j - 1 = k /\ j # 1 /\ k \in 1 .. k
        BY <3>1
      <4>2. g[j - 1] = f[k]
        BY <2>3, <4>1
      <4> QED
        BY <2>4, <3>1, <4>1, <4>2 DEF next
    <3>2. CASE j \in 1 .. k
      <4>1. j # 1 => j - 1 \in 1 .. k
        BY <3>2
      <4>2. g[j] = f[j] /\ (j # 1 => g[j - 1] = f[j - 1])
        BY <2>3, <3>2, <4>1
      <4> QED
        BY <2>2, <3>2, <4>2
    <3>3. j = k + 1 \/ j \in 1 .. k
      OBVIOUS
    <3> QED
      BY <3>1, <3>2, <3>3
  <2>7. WayTo(n, crumbs, k + 1, g)
    BY <2>5, <2>6 DEF WayTo
  <2> QED
    BY <2>7
<1> HIDE DEF S
<1>3. m \in S
  BY <1>1, <1>2, Induction
<1> QED
  BY <1>3 DEF S

(* A way begins at n, goes from a node to one of its children, and to no   *)
(* node where there is no such child.                                      *)
LEMMA WayProperties ==
  ASSUME NEW n \in Node \cup {NoNode}, NEW crumbs \in Seq(Nat)
  PROVE  /\ Way(n, crumbs) \in Seq(Node \cup {NoNode})
         /\ Len(Way(n, crumbs)) = Len(crumbs) + 1
         /\ Way(n, crumbs)[1] = n
         /\ \A k \in 1 .. Len(crumbs) : Way(n, crumbs)[k + 1] = ChildAt(Way(n, crumbs)[k], crumbs[k])
<1> DEFINE m == Len(crumbs) + 1
           way == Way(n, crumbs)
<1>1. m \in Nat \ {0}
  OBVIOUS
<1>2. WayTo(n, crumbs, m, way)
  BY <1>1, WayToExists, WayIs
<1> HIDE DEF way
<1>3. way = [k \in 1 .. m |-> way[k]] /\ way[1] = n
  BY <1>1, <1>2 DEF WayTo
<1>4. ASSUME NEW k \in 1 .. Len(crumbs)
      PROVE  way[k + 1] = ChildAt(way[k], crumbs[k])
  <2>1. k + 1 \in 1 .. m /\ k + 1 # 1 /\ (k + 1) - 1 = k
    OBVIOUS
  <2> QED
    BY <1>2, <2>1 DEF WayTo
<1> DEFINE S == {k \in 1 .. m : way[k] \in Node \cup {NoNode}}
<1>5. ASSUME NEW k \in 1 .. m - 1, k \in S
      PROVE  k + 1 \in S
  <2>1. way[k + 1] = ChildAt(way[k], crumbs[k]) /\ way[k] \in Node \cup {NoNode}
    BY <1>4, <1>5
  <2>2. ASSUME way[k] # NoNode, crumbs[k] \in DOMAIN Children[way[k]]
        PROVE  Children[way[k]][crumbs[k]] \in Node
    <3>1. Children[way[k]] \in Seq(Node)
      BY <2>1, <2>2, NavAssumption
    <3> QED
      BY <2>2, <3>1
  <2> QED
    BY <2>1, <2>2 DEF ChildAt
<1>6. 1 \in S
  BY <1>1, <1>3
<1>7. \A k \in 1 .. m : way[k] \in Node \cup {NoNode}
  <2> HIDE DEF S
  <2>1. \A k \in 1 .. m : k \in S
    BY <1>1, <1>5, <1>6, Induction
  <2> QED
    BY <2>1 DEF S
<1>8. way \in Seq(Node \cup {NoNode}) /\ Len(way) = m
  <2>1. way \in [1 .. m -> Node \cup {NoNode}]
    BY <1>3, <1>7
  <2> QED
    BY <1>1, <2>1, SeqDef
<1> QED
  BY <1>3, <1>4, <1>8 DEF way

(* What is left of a way is the way of what is left of its breadcrumbs.    *)
LEMMA RestOfWay ==
  ASSUME NEW n \in Node \cup {NoNode}, NEW crumbs \in Seq(Nat), NEW i \in 1 .. Len(crumbs)
  PROVE  LET rest == SubSeq(crumbs, i, Len(crumbs))
             way == Way(n, crumbs)
         IN  /\ rest \in Seq(Nat) /\ Len(rest) = Len(crumbs) - i + 1
             /\ \A k \in 1 .. Len(rest) : rest[k] = crumbs[k + i - 1]
             /\ \A k \in 1 .. Len(rest) + 1 : Way(way[i], rest)[k] = way[k + i - 1]
<1> DEFINE rest == SubSeq(crumbs, i, Len(crumbs))
           way == Way(n, crumbs)
           left == Way(way[i], rest)
           m == Len(rest) + 1
           S == {k \in 1 .. m : left[k] = way[k + i - 1]}
<1>1. rest \in Seq(Nat) /\ Len(rest) = Len(crumbs) - i + 1
      /\ \A k \in 1 .. Len(rest) : rest[k] = crumbs[k + i - 1]
  OBVIOUS
<1> HIDE DEF rest
<1>2. /\ way \in Seq(Node \cup {NoNode}) /\ Len(way) = Len(crumbs) + 1
      /\ \A k \in 1 .. Len(crumbs) : way[k + 1] = ChildAt(way[k], crumbs[k])
  BY WayProperties
<1> HIDE DEF way
<1>3. way[i] \in Node \cup {NoNode}
  BY <1>2
<1>4. left[1] = way[i] /\ \A k \in 1 .. Len(rest) : left[k + 1] = ChildAt(left[k], rest[k])
  BY <1>1, <1>3, WayProperties
<1> HIDE DEF left
<1>5. 1 \in S
  <2>1. 1 + i - 1 = i /\ 1 \in 1 .. m
    BY <1>1
  <2> QED
    BY <1>4, <2>1
<1>6. ASSUME NEW k \in 1 .. m - 1, k \in S
      PROVE  k + 1 \in S
  <2>1. k \in 1 .. Len(rest) /\ k + 1 \in 1 .. m /\ k + i - 1 \in 1 .. Len(crumbs)
        /\ (k + 1) + i - 1 = (k + i - 1) + 1
    BY <1>1
  <2>2. left[k + 1] = ChildAt(way[k + i - 1], crumbs[k + i - 1])
    BY <1>1, <1>4, <1>6, <2>1
  <2>3. left[k + 1] = way[(k + i - 1) + 1]
    BY <1>2, <2>1, <2>2
  <2> QED
    BY <2>1, <2>3
<1>7. \A k \in 1 .. m : k \in S
  <2> HIDE DEF S
  <2>1. m \in Nat
    BY <1>1
  <2> QED
    BY <1>5, <1>6, <2>1, Induction
<1> QED
  BY <1>1, <1>7 DEF left, way, rest

(***************************************************************************)
(* The breadcrumbs of an address, and how far a way can be gone.           *)
(***************************************************************************)
LEMMA CrumbsProperties ==
  ASSUME NEW file, NEW r, NEW h
  PROVE  LET crumbs == Crumbs(file, r, h)
         IN  /\ crumbs \in Seq(Nat) /\ 1 <= Len(crumbs)
             /\ \A k \in 1 .. Len(crumbs) + 1 : Way(Top, crumbs)[k] \in Node
             /\ Last(Way(Top, crumbs)) = Way(Top, crumbs)[Len(crumbs) + 1]
<1> DEFINE entry == <<file, <<r, h>>>>
           whole == <<file, <<r, "">>>>
           tail == CASE entry \in DOMAIN breadcrumbs -> breadcrumbs[entry]
                     [] entry \notin DOMAIN breadcrumbs /\ whole \in DOMAIN breadcrumbs ->
                          breadcrumbs[whole]
                     [] OTHER -> <<>>
           crumbs == <<1>> \o tail
           way == Way(Top, crumbs)
<1>1. \/ \E url \in DOMAIN breadcrumbs : tail = breadcrumbs[url]
      \/ tail = <<>>
  OBVIOUS
<1>2. Crumbs(file, r, h) = crumbs
  BY DEF Crumbs
<1> HIDE DEF tail
<1>3. tail \in Seq(Nat)
  <2>1. \A url \in DOMAIN breadcrumbs : breadcrumbs[url] \in Seq(Nat)
    BY DataAssumption
  <2>2. <<>> \in Seq(Nat)
    OBVIOUS
  <2> QED
    BY <1>1, <2>1, <2>2, Zenon
<1>4. crumbs \in Seq(Nat) /\ Len(crumbs) = 1 + Len(tail) /\ crumbs[1] = 1
  BY <1>3
<1>5. Top \in Node /\ Top \in Node \cup {NoNode}
  BY NavAssumption
<1>6. /\ way \in Seq(Node \cup {NoNode}) /\ Len(way) = Len(crumbs) + 1 /\ way[1] = Top
      /\ \A k \in 1 .. Len(crumbs) : way[k + 1] = ChildAt(way[k], crumbs[k])
  BY <1>4, <1>5, WayProperties
<1>7. \A k \in 1 .. Len(crumbs) + 1 : way[k] \in Node
  <2>1. CASE tail = <<>>
    <3>1. Len(crumbs) = 1 /\ way[2] = ChildAt(Top, 1)
      BY <1>4, <1>6, <2>1
    <3>2. Children[Top] \in Seq(Node) /\ Children[Top] # <<>>
      BY NavAssumption
    <3>3. 1 \in DOMAIN Children[Top] /\ Children[Top][1] \in Node
      BY <3>2
    <3>4. Top # NoNode
      BY <1>5, DataAssumption
    <3>5. way[2] \in Node
      BY <3>1, <3>3, <3>4 DEF ChildAt
    <3> QED
      BY <1>5, <1>6, <3>1, <3>5
  <2>2. ASSUME NEW url \in DOMAIN breadcrumbs, tail = breadcrumbs[url]
        PROVE  \A k \in 1 .. Len(crumbs) + 1 : way[k] \in Node
    <3>1. ToSet(way) \subseteq Node
      BY <2>2, DataAssumption
    <3>2. \A k \in 1 .. Len(crumbs) + 1 : way[k] \in ToSet(way)
      <4> HIDE DEF way
      <4> QED
        BY <1>6 DEF ToSet
    <3> QED
      BY <3>1, <3>2
  <2> QED
    BY <1>1, <2>1, <2>2
<1>8. Last(way) = way[Len(crumbs) + 1]
  <2> HIDE DEF way
  <2> QED
    BY <1>6 DEF Last
<1> QED
  BY <1>2, <1>4, <1>7, <1>8

(* Every node that is opened on a way is one, and has children.            *)
LEMMA ReachProperties ==
  ASSUME NEW S, NEW way \in Seq(S), NEW t, 1 <= Len(way)
  PROVE  LET reach == Reach(t, way)
         IN  /\ reach \in 0 .. Len(way) - 1
             /\ \A k \in 1 .. reach : HasData(way[k])
<1> DEFINE stops == {k \in 1 .. Len(way) - 1 : ~ HasData(way[k]) \/ Waits(t, way[k])}
<1>1. Reach(t, way) = IF stops = {} THEN Len(way) - 1 ELSE Min(stops) - 1
  BY DEF Reach
<1>2. CASE stops = {}
  <2>1. \A k \in 1 .. Len(way) - 1 : HasData(way[k])
    BY <1>2
  <2> QED
    BY <1>1, <1>2, <2>1
<1>3. CASE stops # {}
  <2>1. Min(stops) \in stops /\ \A k \in stops : Min(stops) <= k
    <3>1. stops \in SUBSET Nat
      OBVIOUS
    <3> HIDE DEF stops
    <3> QED
      BY <1>3, <3>1, MinLeast
  <2>2. PICK m \in 1 .. Len(way) - 1 : m = Min(stops) /\ \A k \in stops : m <= k
    BY <2>1
  <2>3. \A k \in 1 .. m - 1 : k \notin stops /\ k \in 1 .. Len(way) - 1
    BY <2>2
  <2>4. \A k \in 1 .. m - 1 : HasData(way[k])
    BY <2>3
  <2>5. Reach(t, way) = m - 1
    BY <1>1, <1>3, <2>2
  <2> QED
    BY <2>2, <2>4, <2>5
<1> QED
  BY <1>2, <1>3

-----------------------------------------------------------------------------
(***************************************************************************)
(* Trees.                                                                  *)
(***************************************************************************)
LEMMA OpenProperties ==
  ASSUME NEW t, IsTree(t), NEW nodes \in SUBSET Node
  PROVE  /\ IsTree(Open(t, nodes))
         /\ Open(t, nodes).crumbs = t.crumbs
         /\ Open(t, nodes).selected = t.selected
BY DEF IsTree, Open, TreeFields

LEMMA CrumbsSet ==
  ASSUME NEW t, IsTree(t), NEW crumbs \in Seq(Nat)
  PROVE  LET u == [t EXCEPT !.crumbs = crumbs]
         IN  IsTree(u) /\ u.crumbs = crumbs /\ u.selected = t.selected
BY DEF IsTree, TreeFields

LEMMA SelectedSet ==
  ASSUME NEW t, IsTree(t), NEW nodes
  PROVE  LET u == [t EXCEPT !.selected = nodes]
         IN  /\ IsTree(u) /\ u.crumbs = t.crumbs /\ u.selected = nodes
             /\ u.visited = t.visited /\ u.expanded = t.expanded
BY DEF IsTree, TreeFields

LEMMA FetchedSet ==
  ASSUME NEW t, IsTree(t), NEW nodes
  PROVE  LET u == [t EXCEPT !.fetched = nodes]
         IN  IsTree(u) /\ u.crumbs = t.crumbs /\ u.selected = t.selected
BY DEF IsTree, TreeFields

LEMMA IndicesSet ==
  ASSUME NEW t, IsTree(t), NEW files
  PROVE  LET u == [t EXCEPT !.indices = files]
         IN  IsTree(u) /\ u.crumbs = t.crumbs /\ u.selected = t.selected
BY DEF IsTree, TreeFields

(* The items of an address' hash on this page are its node's.              *)
LEMMA AnchorsAre ==
  ASSUME NEW t, IsTree(t), NEW p, IsAddress(p)
  PROVE  Anchors(t, p[2]) \subseteq {NodeOf(p)}
<1> SUFFICES ASSUME NEW a \in Anchors(t, p[2])
             PROVE  a = NodeOf(p)
  OBVIOUS
<1>1. p[2] # "" /\ a \in Created(t) /\ Url[a] = <<toroot, p[2]>>
  BY DEF Anchors
<1>2. a \in Node
  <2>1. PICK n \in t.visited : a \in ToSet(Children[n])
    BY <1>1 DEF Created
  <2>2. Children[n] \in Seq(Node)
    BY <2>1, NavAssumption DEF IsTree
  <2> QED
    BY <2>1, <2>2 DEF ToSet
<1>3. p[1] = toroot
  BY <1>1, <1>2 DEF IsAddress
<1>4. Url[a][1] = toroot /\ Url[a][2] = p[2]
  <2>1. \A u, x, y : u = <<x, y>> => u[1] = x /\ u[2] = y
    OBVIOUS
  <2>2. Url[a] = <<toroot, p[2]>> => Url[a][1] = toroot /\ Url[a][2] = p[2]
    BY <2>1, Zenon
  <2> QED
    BY <1>1, <2>2, Zenon
<1>5. NodeOf(Url[a]) = a
  BY <1>1, <1>2, <1>4, DataAssumption
<1>6. Url[a] = p
  BY <1>1, <1>3 DEF IsAddress
<1> QED
  BY <1>5, <1>6

-----------------------------------------------------------------------------
(***************************************************************************)
(* showNode: what it does when it stops at the first node that waits, or   *)
(* comes to the end of the way.                                            *)
(***************************************************************************)
RestOf(t, index) ==
  IF index > Len(t.crumbs) THEN <<0>> ELSE SubSeq(t.crumbs, index, Len(t.crumbs))

Stops(way, reach, index, h, opened, went) ==
  LET next == way[reach + 1]
      atEnd == reach = Len(way) - 1
  IN  \/ ~ atEnd /\ ~ HasData(next) /\ went = SelectAndHighlight(opened, h, NoNode)
      \/ ~ atEnd /\ HasData(next)
         /\ went = Asks(opened, Script("show", next, next, index + reach, h))
      \/ atEnd /\ next = NoNode /\ went = [tree |-> opened, ask |-> <<>>, scrolls |-> FALSE]
      \/ atEnd /\ next # NoNode
         /\ went = Asks(opened, Script("child", way[reach], next, index + reach - 1, h))
      \/ atEnd /\ next # NoNode /\ went = SelectAndHighlight(opened, h, next)

LEMMA RestProperties ==
  ASSUME NEW t, IsTree(t), NEW index \in Nat \ {0}
  PROVE  RestOf(t, index) \in Seq(Nat) /\ 1 <= Len(RestOf(t, index))
<1>1. t.crumbs \in Seq(Nat)
  BY DEF IsTree
<1>2. CASE index > Len(t.crumbs)
  BY <1>2 DEF RestOf
<1>3. CASE ~ (index > Len(t.crumbs))
  <2>1. PICK crumbs \in Seq(Nat) : crumbs = t.crumbs
    BY <1>1
  <2>2. SubSeq(crumbs, index, Len(crumbs)) \in Seq(Nat)
        /\ Len(SubSeq(crumbs, index, Len(crumbs))) = Len(crumbs) - index + 1
    BY <1>3, <2>1
  <2> QED
    BY <1>3, <2>1, <2>2 DEF RestOf
<1> QED
  BY <1>2, <1>3

LEMMA ShowNodeStops ==
  ASSUME NEW t, IsTree(t), NEW n \in Node, NEW index \in Nat \ {0}, NEW h
  PROVE  LET way == Way(n, RestOf(t, index))
             reach == Reach(t, way)
         IN  /\ way \in Seq(Node \cup {NoNode})
             /\ Len(way) = Len(RestOf(t, index)) + 1
             /\ reach \in 0 .. Len(way) - 1
             /\ \A k \in 1 .. reach : way[k] \in Node
             /\ \E opened :
                  /\ IsTree(opened)
                  /\ opened.crumbs = t.crumbs
                  /\ opened.selected = t.selected
                  /\ Stops(way, reach, index, h, opened, ShowNode(t, n, index, h))
<1> DEFINE way == Way(n, RestOf(t, index))
           reach == Reach(t, way)
           nodes == {way[k] : k \in 1 .. reach}
           opened == Open(t, nodes)
           next == way[reach + 1]
           more == IF ShowsChildren /\ HasData(next) THEN Open(opened, {next}) ELSE opened
           went == ShowNode(t, n, index, h)
           atEnd == reach = Len(way) - 1
<1>1. went = CASE ~ atEnd /\ ~ HasData(next) -> SelectAndHighlight(opened, h, NoNode)
               [] ~ atEnd /\ HasData(next) ->
                    Asks(opened, Script("show", next, next, index + reach, h))
               [] atEnd /\ next = NoNode -> [tree |-> opened, ask |-> <<>>, scrolls |-> FALSE]
               [] atEnd /\ next # NoNode /\ Waits(t, next) ->
                    Asks(opened, Script("child", way[reach], next, index + reach - 1, h))
               [] OTHER -> SelectAndHighlight(more, h, next)
  BY DEF ShowNode, RestOf
<1>2. way \in Seq(Node \cup {NoNode}) /\ Len(way) = Len(RestOf(t, index)) + 1
  BY RestProperties, WayProperties
<1>3. 1 <= Len(way)
  BY <1>2, RestProperties
<1> HIDE DEF way, went
<1>4. reach \in 0 .. Len(way) - 1 /\ \A k \in 1 .. reach : HasData(way[k])
  BY <1>2, <1>3, ReachProperties
<1> HIDE DEF reach
<1>5. \A k \in 1 .. reach : way[k] \in Node
  <2>1. \A k \in 1 .. reach : k \in 1 .. Len(way)
    BY <1>2, <1>4
  <2>2. \A k \in 1 .. reach : way[k] \in Node \cup {NoNode} /\ way[k] # NoNode
    BY <1>2, <1>4, <2>1 DEF HasData
  <2> QED
    BY <2>2
<1>6. nodes \in SUBSET Node
  BY <1>5
<1>7. IsTree(opened) /\ opened.crumbs = t.crumbs /\ opened.selected = t.selected
  BY <1>6, OpenProperties
<1> HIDE DEF opened
<1>8. IsTree(more) /\ more.crumbs = t.crumbs /\ more.selected = t.selected
  <2>1. CASE ShowsChildren /\ HasData(next)
    <3>1. reach + 1 \in 1 .. Len(way)
      BY <1>2, <1>4
    <3>2. next \in Node
      BY <1>2, <2>1, <3>1 DEF HasData
    <3> QED
      BY <1>7, <2>1, <3>2, OpenProperties
  <2>2. CASE ~ (ShowsChildren /\ HasData(next))
    BY <1>7, <2>2
  <2> QED
    BY <2>1, <2>2
<1> HIDE DEF next, more
<1>9. \/ Stops(way, reach, index, h, opened, went)
      \/ Stops(way, reach, index, h, more, went)
  <2>1. CASE ~ atEnd /\ ~ HasData(next)
    <3>1. went = SelectAndHighlight(opened, h, NoNode)
      BY <1>1, <2>1
    <3> QED
      BY <2>1, <3>1 DEF Stops, next
  <2>2. CASE ~ atEnd /\ HasData(next)
    <3>1. went = Asks(opened, Script("show", next, next, index + reach, h))
      BY <1>1, <2>2
    <3> QED
      BY <2>2, <3>1 DEF Stops, next
  <2>3. CASE atEnd /\ next = NoNode
    <3>1. went = [tree |-> opened, ask |-> <<>>, scrolls |-> FALSE]
      BY <1>1, <2>3
    <3> QED
      BY <2>3, <3>1 DEF Stops, next
  <2>4. CASE atEnd /\ next # NoNode /\ Waits(t, next)
    <3>1. went = Asks(opened, Script("child", way[reach], next, index + reach - 1, h))
      BY <1>1, <2>4
    <3> QED
      BY <2>4, <3>1 DEF Stops, next
  <2>5. CASE atEnd /\ next # NoNode /\ ~ Waits(t, next)
    <3>1. went = SelectAndHighlight(more, h, next)
      BY <1>1, <2>5
    <3> QED
      BY <2>5, <3>1 DEF Stops, next
  <2> HIDE DEF atEnd
  <2> QED
    BY <2>1, <2>2, <2>3, <2>4, <2>5
<1> QED
  BY <1>2, <1>4, <1>5, <1>7, <1>8, <1>9 DEF reach, way, went

LEMMA SelectAndHighlightIs ==
  ASSUME NEW t, IsTree(t), NEW h, NEW n
  PROVE  LET went == SelectAndHighlight(t, h, n)
         IN  /\ IsTree(went.tree) /\ went.ask = <<>> /\ went.tree.crumbs = t.crumbs
             /\ went.tree.selected = t.selected \cup (IF Anchors(t, h) = {} THEN {n} \ {NoNode}
                                                      ELSE Anchors(t, h))
<1> DEFINE nodes == t.selected \cup (IF Anchors(t, h) = {} THEN {n} \ {NoNode} ELSE Anchors(t, h))
           u == [t EXCEPT !.selected = nodes]
<1>1. SelectAndHighlight(t, h, n) = [tree |-> u, ask |-> <<>>, scrolls |-> Anchors(t, h) # {}]
  <2>1. [t EXCEPT !.selected = @ \cup (IF Anchors(t, h) = {} THEN {n} \ {NoNode}
                                       ELSE Anchors(t, h))] = u
    OBVIOUS
  <2> QED
    BY <2>1 DEF SelectAndHighlight
<1>2. IsTree(u) /\ u.crumbs = t.crumbs /\ u.selected = nodes
  BY SelectedSet
<1> HIDE DEF u
<1>3. SelectAndHighlight(t, h, n).tree = u /\ SelectAndHighlight(t, h, n).ask = <<>>
  BY <1>1
<1> QED
  BY <1>2, <1>3

LEMMA AsksIs ==
  ASSUME NEW t, NEW s
  PROVE  Asks(t, s).tree = t /\ Asks(t, s).ask = <<s>>
BY DEF Asks

LEMMA ScriptIs ==
  ASSUME NEW kind, NEW n, NEW child, NEW index, NEW h
  PROVE  LET s == Script(kind, n, child, index, h)
         IN  /\ s.kind = kind /\ s.node = n /\ s.child = child /\ s.index = index
             /\ s.hash = h
BY DEF Script

(* Whatever the breadcrumbs are meanwhile, a tree comes out and a script   *)
(* for one of its nodes.                                                   *)
IsResult(went) ==
  /\ IsTree(went.tree)
  /\ went.ask = <<>> \/ \E s : went.ask = <<s>> /\ IsScript(s) /\ s.kind # "index"

LEMMA ShowNodeTypes ==
  ASSUME NEW t, IsTree(t), NEW n \in Node, NEW index \in Nat \ {0}, NEW h
  PROVE  IsResult(ShowNode(t, n, index, h))
<1> DEFINE rest == RestOf(t, index)
<1>0. PICK went : went = ShowNode(t, n, index, h)
  OBVIOUS
<1> SUFFICES IsResult(went)
  BY <1>0
<1>1. PICK way : way = Way(n, rest)
  OBVIOUS
<1>2. PICK reach : reach = Reach(t, way)
  OBVIOUS
<1>3. 1 <= Len(rest)
  BY RestProperties
<1>4. /\ way \in Seq(Node \cup {NoNode}) /\ Len(way) = Len(rest) + 1
      /\ reach \in 0 .. Len(way) - 1 /\ \A k \in 1 .. reach : way[k] \in Node
  BY <1>1, <1>2, ShowNodeStops
<1>5. PICK opened : IsTree(opened) /\ Stops(way, reach, index, h, opened, went)
  BY <1>0, <1>1, <1>2, ShowNodeStops
<1> HIDE DEF rest
<1> DEFINE next == way[reach + 1]
<1>6. CASE \E m : went = SelectAndHighlight(opened, h, m)
  BY <1>5, <1>6, SelectAndHighlightIs DEF IsResult
<1>7. CASE went = [tree |-> opened, ask |-> <<>>, scrolls |-> FALSE]
  BY <1>5, <1>7 DEF IsResult
<1>8. CASE HasData(next) /\ went = Asks(opened, Script("show", next, next, index + reach, h))
  <2>1. reach + 1 \in 1 .. Len(way)
    BY <1>4
  <2>2. next \in Node /\ index + reach \in Nat \ {0}
    BY <1>4, <1>8, <2>1 DEF HasData
  <2> HIDE DEF next
  <2>3. PICK s : s = Script("show", next, next, index + reach, h)
    OBVIOUS
  <2>4. IsScript(s) /\ s.kind # "index"
    BY <2>2, <2>3, ScriptIs DEF IsScript
  <2> QED
    BY <1>5, <1>8, <2>3, <2>4, AsksIs DEF IsResult
<1>9. CASE /\ reach = Len(way) - 1
           /\ went = Asks(opened, Script("child", way[reach], next, index + reach - 1, h))
  <2>1. reach \in 1 .. reach
    BY <1>3, <1>4, <1>9
  <2>2. way[reach] \in Node /\ index + reach - 1 \in Nat \ {0}
    BY <1>4, <2>1
  <2> HIDE DEF next
  <2>3. PICK s : s = Script("child", way[reach], next, index + reach - 1, h)
    OBVIOUS
  <2>4. IsScript(s) /\ s.kind # "index"
    BY <2>2, <2>3, ScriptIs DEF IsScript
  <2> QED
    BY <1>5, <1>9, <2>3, <2>4, AsksIs DEF IsResult
<1>10. \/ \E m : went = SelectAndHighlight(opened, h, m)
       \/ went = [tree |-> opened, ask |-> <<>>, scrolls |-> FALSE]
       \/ HasData(next) /\ went = Asks(opened, Script("show", next, next, index + reach, h))
       \/ /\ reach = Len(way) - 1
          /\ went = Asks(opened, Script("child", way[reach], next, index + reach - 1, h))
  BY <1>5 DEF Stops
<1> QED
  BY <1>6, <1>7, <1>8, <1>9, <1>10

(* On the way to p it goes on towards p: to the end, where p's node is     *)
(* selected, or up to a node that waits for its script.                    *)
Advances(selected, p, went) ==
  \/ went.ask = <<>> /\ went.tree.selected = selected \cup {NodeOf(p)}
  \/ \E s : /\ went.ask = <<s>> /\ IsNavigation(s) /\ LeadsTo(went.tree, s, p)
            /\ went.tree.selected = selected

LEMMA SelectsPlace ==
  ASSUME NEW t, IsTree(t), NEW opened, IsTree(opened), opened.crumbs = t.crumbs,
         opened.selected = t.selected, NEW p, IsAddress(p), NEW n, n = NodeOf(p), n # NoNode
  PROVE  Advances(t.selected, p, SelectAndHighlight(opened, p[2], n))
<1>1. PICK went : went = SelectAndHighlight(opened, p[2], n)
  OBVIOUS
<1>2. /\ went.ask = <<>> /\ went.tree.crumbs = t.crumbs
      /\ went.tree.selected = t.selected \cup (IF Anchors(opened, p[2]) = {} THEN {n} \ {NoNode}
                                               ELSE Anchors(opened, p[2]))
  BY <1>1, SelectAndHighlightIs
<1>3. Anchors(opened, p[2]) \subseteq {n}
  BY AnchorsAre
<1>4. (IF Anchors(opened, p[2]) = {} THEN {n} \ {NoNode} ELSE Anchors(opened, p[2])) = {n}
  BY <1>3
<1>5. went.tree.selected = t.selected \cup {NodeOf(p)}
  BY <1>2, <1>4
<1> QED
  BY <1>1, <1>2, <1>5 DEF Advances

LEMMA ShowNodeAdvances ==
  ASSUME NEW t, IsTree(t), NEW p, IsAddress(p), t.crumbs = CrumbsTo(p),
         NEW index \in 1 .. Len(t.crumbs), NEW n, n = Way(Top, t.crumbs)[index]
  PROVE  Advances(t.selected, p, ShowNode(t, n, index, p[2]))
<1>1. PICK crumbs : crumbs = t.crumbs
  OBVIOUS
<1>2. PICK path : path = Way(Top, crumbs)
  OBVIOUS
<1>3. /\ crumbs \in Seq(Nat) /\ 1 <= Len(crumbs) /\ index \in 1 .. Len(crumbs)
      /\ \A k \in 1 .. Len(crumbs) + 1 : path[k] \in Node
      /\ NodeOf(p) = path[Len(crumbs) + 1]
  <2>1. PICK file, r, h : file = FileOf(p) /\ r = RootOf(p) /\ h = p[2]
    OBVIOUS
  <2>2. crumbs = Crumbs(file, r, h)
    BY <1>1, <2>1 DEF CrumbsTo
  <2>3. NodeOf(p) = Last(path)
    BY <1>1, <1>2 DEF NodeOf
  <2>4. /\ crumbs \in Seq(Nat) /\ 1 <= Len(crumbs)
        /\ \A k \in 1 .. Len(crumbs) + 1 : path[k] \in Node
        /\ Last(path) = path[Len(crumbs) + 1]
    BY <1>2, <2>2, CrumbsProperties
  <2> QED
    BY <1>1, <2>3, <2>4
<1>4. Top \in Node \cup {NoNode}
  BY NavAssumption
<1>5. \A k \in 1 .. Len(crumbs) : path[k + 1] = ChildAt(path[k], crumbs[k])
  BY <1>2, <1>3, <1>4, WayProperties
<1>6. PICK rest : rest = SubSeq(crumbs, index, Len(crumbs))
  OBVIOUS
<1>7. RestOf(t, index) = rest
  BY <1>1, <1>3, <1>6 DEF RestOf
<1>8. PICK way : way = Way(n, rest)
  OBVIOUS
<1>9. /\ Len(rest) = Len(crumbs) - index + 1
      /\ \A k \in 1 .. Len(rest) + 1 : way[k] = path[k + index - 1]
  <2>1. LET left == SubSeq(crumbs, index, Len(crumbs))
            whole == Way(Top, crumbs)
        IN  /\ Len(left) = Len(crumbs) - index + 1
            /\ \A k \in 1 .. Len(left) + 1 : Way(whole[index], left)[k] = whole[k + index - 1]
    BY <1>3, <1>4, RestOfWay
  <2>2. way = Way(path[index], rest)
    BY <1>1, <1>2, <1>8
  <2> QED
    BY <1>2, <1>6, <2>1, <2>2
<1>10. n \in Node
  <2>1. index \in 1 .. Len(crumbs) + 1
    BY <1>3
  <2> QED
    BY <1>1, <1>2, <1>3, <2>1
<1>11. index \in Nat \ {0}
  BY <1>3
<1>12. PICK reach : reach = Reach(t, way)
  OBVIOUS
<1>13. PICK went : went = ShowNode(t, n, index, p[2])
  OBVIOUS
<1>14. Len(way) = Len(rest) + 1 /\ reach \in 0 .. Len(way) - 1
  BY <1>7, <1>8, <1>10, <1>11, <1>12, ShowNodeStops
<1>15. /\ Len(crumbs) \in Nat /\ index \in Nat /\ reach \in Nat /\ index + reach = reach + index
       /\ Len(rest) = Len(crumbs) - index + 1 /\ Len(way) = Len(rest) + 1 /\ index <= Len(crumbs)
       /\ 1 <= index /\ reach =< Len(way) - 1
  BY <1>3, <1>9, <1>14
<1>16. PICK opened : /\ IsTree(opened) /\ opened.crumbs = t.crumbs /\ opened.selected = t.selected
                     /\ Stops(way, reach, index, p[2], opened, went)
  BY <1>7, <1>8, <1>10, <1>11, <1>12, <1>13, ShowNodeStops
<1>17. PICK next : next = way[reach + 1]
  OBVIOUS
<1>18. /\ reach + index \in 1 .. Len(crumbs) + 1 /\ next = path[reach + index] /\ next \in Node
       /\ next # NoNode
  <2>1. reach + 1 \in 1 .. Len(rest) + 1 /\ (reach + 1) + index - 1 = reach + index
    BY <1>3, <1>9, <1>14
  <2>2. reach + index \in 1 .. Len(crumbs) + 1
    BY <1>3, <1>9, <1>14
  <2>3. next = path[reach + index]
    BY <1>9, <1>17, <2>1
  <2> QED
    BY <1>3, <2>2, <2>3, DataAssumption
<1> DEFINE atEnd == reach = Len(way) - 1
<1>19. CASE ~ atEnd
  <2>1. reach + index \in 1 .. Len(crumbs)
    BY <1>3, <1>9, <1>14, <1>19
  <2>2. HasData(next)
    <3>1. path[(reach + index) + 1] = ChildAt(next, crumbs[reach + index])
      BY <1>5, <1>18, <2>1
    <3>2. (reach + index) + 1 \in 1 .. Len(crumbs) + 1
      BY <1>3, <2>1
    <3>3. ChildAt(next, crumbs[reach + index]) # NoNode
      BY <1>3, <3>1, <3>2, NoNodeIsNone
    <3>4. crumbs[reach + index] \in DOMAIN Children[next]
      BY <3>3 DEF ChildAt
    <3>5. Children[next] # <<>>
      BY <3>4
    <3> QED
      BY <1>18, <3>5 DEF HasData
  <2>3. PICK s : s = Script("show", next, next, index + reach, p[2])
    OBVIOUS
  <2>4. went = Asks(opened, s)
    BY <1>16, <1>17, <1>19, <2>2, <2>3 DEF Stops
  <2>5. went.tree = opened /\ went.ask = <<s>>
    BY <2>4, AsksIs
  <2>6. IsNavigation(s) /\ s.hash = p[2] /\ s.kind = "show" /\ s.node = next
        /\ s.index = reach + index
    BY <1>15, <2>3, ScriptIs DEF IsNavigation, Navigations
  <2>7. LeadsTo(opened, s, p)
    BY <1>1, <1>2, <1>16, <1>18, <2>1, <2>6 DEF LeadsTo
  <2> QED
    BY <1>13, <1>16, <2>5, <2>6, <2>7 DEF Advances
<1>20. CASE atEnd
  <2>1. reach + index = Len(crumbs) + 1 /\ reach + index - 1 \in 1 .. Len(crumbs)
        /\ reach \in 1 .. Len(rest) + 1 /\ index + reach - 1 = reach + index - 1
    BY <1>15, <1>20
  <2>2. next = NodeOf(p)
    BY <1>3, <1>18, <2>1
  <2>3. CASE went = SelectAndHighlight(opened, p[2], next)
    BY <1>13, <1>16, <1>18, <2>2, <2>3, SelectsPlace
  <2>4. CASE went = Asks(opened, Script("child", way[reach], next, index + reach - 1, p[2]))
    <3>1. PICK s : s = Script("child", way[reach], next, index + reach - 1, p[2])
      OBVIOUS
    <3>2. went.tree = opened /\ went.ask = <<s>>
      BY <2>4, <3>1, AsksIs
    <3>3. IsNavigation(s) /\ s.hash = p[2] /\ s.kind = "child" /\ s.node = way[reach]
          /\ s.index = reach + index - 1
      BY <2>1, <3>1, ScriptIs DEF IsNavigation, Navigations
    <3>4. s.node = path[s.index]
      BY <1>9, <2>1, <3>3
    <3>5. LeadsTo(opened, s, p)
      BY <1>1, <1>2, <1>16, <2>1, <3>3, <3>4 DEF LeadsTo
    <3> QED
      BY <1>13, <1>16, <3>2, <3>3, <3>5 DEF Advances
  <2> QED
    BY <1>16, <1>17, <1>18, <1>20, <2>3, <2>4 DEF Stops
<1> QED
  BY <1>19, <1>20

(***************************************************************************)
(* gotoNode.                                                               *)
(***************************************************************************)
LEMMA GotoNodeTypes ==
  ASSUME NEW t, IsTree(t), NEW file, NEW r, NEW h
  PROVE  IsResult(GotoNode(t, file, r, h))
<1>1. PICK crumbs \in Seq(Nat) : crumbs = Crumbs(file, r, h)
  BY CrumbsProperties
<1>2. PICK u : u = [t EXCEPT !.crumbs = crumbs]
  OBVIOUS
<1>3. IsTree(u)
  BY <1>2, CrumbsSet
<1>4. Top \in Node /\ 1 \in Nat \ {0}
  <2>1. Top \in Node
    BY NavAssumption
  <2>2. 1 \in Nat \ {0}
    OBVIOUS
  <2> QED
    BY <2>1, <2>2
<1>5. GotoNode(t, file, r, h) = ShowNode(u, Top, 1, h)
  BY <1>1, <1>2 DEF GotoNode
<1> QED
  BY <1>3, <1>4, <1>5, ShowNodeTypes

LEMMA GotoNodeAdvances ==
  ASSUME NEW t, IsTree(t), NEW p, IsAddress(p)
  PROVE  Advances(t.selected, p, GotoNode(t, FileOf(p), RootOf(p), p[2]))
<1>0. PICK file, r : file = FileOf(p) /\ r = RootOf(p)
  OBVIOUS
<1>1. PICK crumbs \in Seq(Nat) : crumbs = Crumbs(file, r, p[2]) /\ 1 <= Len(crumbs)
  BY CrumbsProperties
<1>2. PICK u : u = [t EXCEPT !.crumbs = crumbs]
  OBVIOUS
<1>3. IsTree(u) /\ u.crumbs = crumbs /\ u.selected = t.selected
  BY <1>2, CrumbsSet
<1>4. GotoNode(t, file, r, p[2]) = ShowNode(u, Top, 1, p[2]) /\ crumbs = CrumbsTo(p)
  BY <1>0, <1>1, <1>2 DEF GotoNode, CrumbsTo
<1>5. 1 \in 1 .. Len(crumbs) /\ Top = Way(Top, crumbs)[1]
  <2>1. Top \in Node \cup {NoNode}
    BY NavAssumption
  <2>2. Way(Top, crumbs)[1] = Top
    BY <2>1, WayProperties
  <2>3. 1 \in 1 .. Len(crumbs)
    BY <1>1
  <2> QED
    BY <2>2, <2>3
<1>6. Advances(u.selected, p, ShowNode(u, Top, 1, p[2]))
  BY <1>1, <1>3, <1>4, <1>5, ShowNodeAdvances
<1> QED
  BY <1>0, <1>3, <1>4, <1>6

-----------------------------------------------------------------------------
(***************************************************************************)
(* The scripts on their way.                                               *)
(***************************************************************************)
IsQueue(ss) ==
  /\ \E S : ss \in Seq(S)
  /\ \A i \in DOMAIN ss : IsScript(ss[i])

Idle(ss) == \A i \in DOMAIN ss : ~ IsNavigation(ss[i])

LEMMA AppendScript ==
  ASSUME NEW ss, IsQueue(ss), NEW s
  PROVE  /\ \E S : Append(ss, s) \in Seq(S)
         /\ DOMAIN Append(ss, s) = 1 .. Len(ss) + 1
         /\ DOMAIN ss = 1 .. Len(ss)
         /\ Len(ss) \in Nat
         /\ \A i \in 1 .. Len(ss) : Append(ss, s)[i] = ss[i]
         /\ Append(ss, s)[Len(ss) + 1] = s
<1>1. PICK S : ss \in Seq(S)
  BY DEF IsQueue
<1>2. ss \in Seq(S \cup {s}) /\ s \in S \cup {s}
  BY <1>1, SeqMonotonic
<1> QED
  BY <1>2, AppendProperties

LEMMA AppendTypes ==
  ASSUME NEW ss, IsQueue(ss), NEW s, IsScript(s)
  PROVE  IsQueue(Append(ss, s))
<1>1. ASSUME NEW i \in DOMAIN Append(ss, s)
      PROVE  IsScript(Append(ss, s)[i])
  <2>1. i \in 1 .. Len(ss) \/ i = Len(ss) + 1
    BY <1>1, AppendScript
  <2>2. i \in 1 .. Len(ss) => Append(ss, s)[i] = ss[i] /\ i \in DOMAIN ss
    BY AppendScript
  <2> QED
    BY <2>1, <2>2, AppendScript DEF IsQueue
<1> QED
  BY <1>1, AppendScript DEF IsQueue

LEMMA RemoveScript ==
  ASSUME NEW ss, IsQueue(ss), NEW i \in DOMAIN ss
  PROVE  LET r == RemoveAt(ss, i)
         IN  /\ \E S : r \in Seq(S)
             /\ Len(ss) \in Nat /\ DOMAIN ss = 1 .. Len(ss) /\ DOMAIN r = 1 .. Len(ss) - 1
             /\ \A j \in 1 .. Len(ss) - 1 : r[j] = IF j < i THEN ss[j] ELSE ss[j + 1]
<1>1. PICK S : ss \in Seq(S)
  BY DEF IsQueue
<1>2. i \in 1 .. Len(ss) /\ Len(ss) \in Nat
  BY <1>1
<1>3. PICK a : a = SubSeq(ss, 1, i - 1)
  OBVIOUS
<1>4. PICK b : b = SubSeq(ss, i + 1, Len(ss))
  OBVIOUS
<1>5. a \in Seq(S) /\ Len(a) = i - 1 /\ \A j \in 1 .. i - 1 : a[j] = ss[j]
  BY <1>1, <1>2, <1>3
<1>6. b \in Seq(S) /\ Len(b) = Len(ss) - i /\ \A j \in 1 .. Len(ss) - i : b[j] = ss[j + i]
  BY <1>1, <1>2, <1>4
<1>7. PICK r : r = a \o b
  OBVIOUS
<1>8. RemoveAt(ss, i) = r
  BY <1>3, <1>4, <1>7 DEF RemoveAt
<1>9. r \in Seq(S) /\ Len(r) = Len(ss) - 1
  BY <1>2, <1>5, <1>6, <1>7
<1>10. ASSUME NEW j \in 1 .. Len(ss) - 1
       PROVE  r[j] = IF j < i THEN ss[j] ELSE ss[j + 1]
  <2>1. CASE j < i
    <3>1. j \in 1 .. i - 1 /\ j \in 1 .. Len(a)
      BY <1>2, <1>5, <2>1
    <3>2. r[j] = a[j]
      BY <1>5, <1>6, <1>7, <3>1
    <3> QED
      BY <1>5, <2>1, <3>1, <3>2
  <2>2. CASE ~ (j < i)
    <3>1. /\ i \in Nat /\ j \in Nat /\ Len(ss) \in Nat /\ 1 <= i /\ i <= j /\ j <= Len(ss) - 1
          /\ Len(a) = i - 1 /\ Len(b) = Len(ss) - i
      BY <1>2, <1>5, <1>6, <2>2
    <3>2. j - (i - 1) \in 1 .. Len(ss) - i /\ (j - (i - 1)) + i = j + 1
      BY <3>1
    <3>3. j \in 1 .. Len(a) + Len(b) /\ ~ (j <= Len(a)) /\ j - Len(a) = j - (i - 1)
      BY <3>1
    <3>4. r[j] = b[j - Len(a)]
      BY <1>5, <1>6, <1>7, <3>3, ConcatProperties
    <3>5. r[j] = ss[j + 1]
      BY <1>6, <3>2, <3>3, <3>4
    <3> QED
      BY <2>2, <3>5
  <2> QED
    BY <2>1, <2>2
<1> QED
  BY <1>1, <1>2, <1>8, <1>9, <1>10

LEMMA RemoveTypes ==
  ASSUME NEW ss, IsQueue(ss), NEW i \in DOMAIN ss
  PROVE  IsQueue(RemoveAt(ss, i))
<1>1. PICK r : r = RemoveAt(ss, i)
  OBVIOUS
<1>2. /\ \E S : r \in Seq(S)
      /\ Len(ss) \in Nat /\ DOMAIN ss = 1 .. Len(ss) /\ DOMAIN r = 1 .. Len(ss) - 1
      /\ \A j \in 1 .. Len(ss) - 1 : r[j] = IF j < i THEN ss[j] ELSE ss[j + 1]
  BY <1>1, RemoveScript
<1>3. \A j \in 1 .. Len(ss) - 1 : j \in 1 .. Len(ss) /\ j + 1 \in 1 .. Len(ss)
  BY <1>2
<1>4. \A j \in DOMAIN r : IsScript(r[j])
  BY <1>2, <1>3 DEF IsQueue
<1> QED
  BY <1>1, <1>2, <1>4 DEF IsQueue

(***************************************************************************)
(* A navigation is still the only one, and on its way, whatever else is    *)
(* asked for or comes.                                                     *)
(***************************************************************************)
LEMMA GoesToSame ==
  ASSUME NEW t, NEW u, u.crumbs = t.crumbs, u.selected = t.selected, NEW ss, NEW p, GoesTo(t, ss, p)
  PROVE  GoesTo(u, ss, p)
BY DEF GoesTo, LeadsTo

LEMMA AppendGoes ==
  ASSUME NEW t, NEW ss, IsQueue(ss), NEW p, GoesTo(t, ss, p), NEW s, ~ IsNavigation(s)
  PROVE  GoesTo(t, Append(ss, s), p)
<1>1. PICK r : r = Append(ss, s)
  OBVIOUS
<1>2. /\ Len(ss) \in Nat /\ DOMAIN ss = 1 .. Len(ss) /\ DOMAIN r = 1 .. Len(ss) + 1
      /\ \A i \in 1 .. Len(ss) : r[i] = ss[i]
      /\ r[Len(ss) + 1] = s
  BY <1>1, AppendScript
<1>3. ASSUME NEW i \in DOMAIN r, IsNavigation(r[i])
      PROVE  i \in DOMAIN ss /\ r[i] = ss[i]
  <2>1. i \in 1 .. Len(ss) \/ i = Len(ss) + 1
    BY <1>2
  <2> QED
    BY <1>2, <1>3, <2>1
<1>4. \A i \in DOMAIN ss : i \in DOMAIN r /\ r[i] = ss[i]
  BY <1>2
<1>5. \A i \in DOMAIN r : IsNavigation(r[i]) => LeadsTo(t, r[i], p)
  BY <1>3 DEF GoesTo
<1>6. \A i, j \in DOMAIN r : IsNavigation(r[i]) /\ IsNavigation(r[j]) => i = j
  BY <1>3 DEF GoesTo
<1>7. Idle(r) => Idle(ss)
  BY <1>4 DEF Idle
<1>8. t.selected \subseteq {NodeOf(p)} /\ (Idle(ss) => t.selected = {NodeOf(p)})
  BY DEF GoesTo, Idle
<1>9. Idle(r) => t.selected = {NodeOf(p)}
  BY <1>7, <1>8
<1> QED
  BY <1>1, <1>5, <1>6, <1>8, <1>9 DEF GoesTo, Idle

LEMMA RemoveGoes ==
  ASSUME NEW t, NEW ss, IsQueue(ss), NEW p, GoesTo(t, ss, p), NEW i \in DOMAIN ss,
         ~ IsNavigation(ss[i])
  PROVE  GoesTo(t, RemoveAt(ss, i), p)
<1>1. PICK r : r = RemoveAt(ss, i)
  OBVIOUS
<1>2. /\ Len(ss) \in Nat /\ DOMAIN ss = 1 .. Len(ss) /\ DOMAIN r = 1 .. Len(ss) - 1
      /\ \A j \in 1 .. Len(ss) - 1 : r[j] = IF j < i THEN ss[j] ELSE ss[j + 1]
  BY <1>1, RemoveScript
<1> DEFINE from(j) == IF j < i THEN j ELSE j + 1
<1>3. \A j \in DOMAIN r : from(j) \in DOMAIN ss /\ r[j] = ss[from(j)]
  BY <1>2
<1>4. \A j, k \in DOMAIN r : from(j) = from(k) => j = k
  BY <1>2
<1>5. ASSUME NEW k \in DOMAIN ss, k # i
      PROVE  \E j \in DOMAIN r : r[j] = ss[k]
  <2>1. CASE k < i
    <3>1. k \in DOMAIN r
      BY <1>2, <2>1
    <3> QED
      BY <1>2, <2>1, <3>1
  <2>2. CASE ~ (k < i)
    <3>1. k - 1 \in DOMAIN r /\ ~ (k - 1 < i) /\ (k - 1) + 1 = k
      BY <1>2, <1>5, <2>2
    <3> QED
      BY <1>2, <3>1
  <2> QED
    BY <2>1, <2>2
<1> HIDE DEF from
<1>6. \A j \in DOMAIN r : IsNavigation(r[j]) => LeadsTo(t, r[j], p)
  BY <1>3 DEF GoesTo
<1>7. \A j, k \in DOMAIN r : IsNavigation(r[j]) /\ IsNavigation(r[k]) => j = k
  BY <1>3, <1>4 DEF GoesTo
<1>8. Idle(r) => Idle(ss)
  <2>1. ASSUME Idle(r), NEW k \in DOMAIN ss
        PROVE  ~ IsNavigation(ss[k])
    BY <1>5, <2>1 DEF Idle
  <2> QED
    BY <2>1 DEF Idle
<1>9. t.selected \subseteq {NodeOf(p)} /\ (Idle(ss) => t.selected = {NodeOf(p)})
  BY DEF GoesTo, Idle
<1> QED
  BY <1>1, <1>6, <1>7, <1>8, <1>9 DEF GoesTo, Idle

(* The only navigation: after it has come no other is on its way.          *)
LEMMA RemoveIdle ==
  ASSUME NEW t, NEW ss, IsQueue(ss), NEW p, GoesTo(t, ss, p), NEW i \in DOMAIN ss,
         IsNavigation(ss[i])
  PROVE  Idle(RemoveAt(ss, i))
<1>1. PICK r : r = RemoveAt(ss, i)
  OBVIOUS
<1>2. /\ Len(ss) \in Nat /\ DOMAIN ss = 1 .. Len(ss) /\ DOMAIN r = 1 .. Len(ss) - 1
      /\ \A j \in 1 .. Len(ss) - 1 : r[j] = IF j < i THEN ss[j] ELSE ss[j + 1]
  BY <1>1, RemoveScript
<1>3. ASSUME NEW j \in DOMAIN r
      PROVE  ~ IsNavigation(r[j])
  <2>1. PICK k \in DOMAIN ss : k # i /\ r[j] = ss[k]
    <3>1. CASE j < i
      <4>1. j \in DOMAIN ss /\ j # i /\ r[j] = ss[j]
        BY <1>2, <3>1
      <4> QED
        BY <4>1
    <3>2. CASE ~ (j < i)
      <4>1. j + 1 \in DOMAIN ss /\ j + 1 # i /\ r[j] = ss[j + 1]
        BY <1>2, <3>2
      <4> QED
        BY <4>1
    <3> QED
      BY <3>1, <3>2
  <2> QED
    BY <2>1 DEF GoesTo
<1> QED
  BY <1>1, <1>3 DEF Idle

(* What a navigation asks for is put at the end.                           *)
LEMMA AskedTypes ==
  ASSUME NEW ss, IsQueue(ss), NEW went, IsResult(went)
  PROVE  IsQueue(ss \o went.ask)
<1>1. PICK S : ss \in Seq(S)
  BY DEF IsQueue
<1>2. CASE went.ask = <<>>
  <2>1. ss \o <<>> = ss
    BY <1>1
  <2> QED
    BY <1>2, <2>1
<1>3. ASSUME NEW s, went.ask = <<s>>, IsScript(s)
      PROVE  IsQueue(ss \o went.ask)
  <2>1. ss \in Seq(S \cup {s}) /\ s \in S \cup {s}
    BY <1>1, SeqMonotonic
  <2>2. Append(ss, s) = ss \o <<s>>
    BY <2>1, AppendIsConcat
  <2> QED
    BY <1>3, <2>2, AppendTypes
<1> QED
  BY <1>2, <1>3 DEF IsResult

LEMMA AskedGoes ==
  ASSUME NEW ss, IsQueue(ss), Idle(ss), NEW p, NEW selected, selected \subseteq {NodeOf(p)},
         NEW went, Advances(selected, p, went)
  PROVE  GoesTo(went.tree, ss \o went.ask, p)
<1>1. PICK S : ss \in Seq(S)
  BY DEF IsQueue
<1>2. CASE went.ask = <<>> /\ went.tree.selected = selected \cup {NodeOf(p)}
  <2>1. ss \o went.ask = ss
    BY <1>1, <1>2
  <2>2. went.tree.selected = {NodeOf(p)}
    BY <1>2
  <2> QED
    BY <2>1, <2>2 DEF GoesTo, Idle
<1>3. ASSUME NEW s, went.ask = <<s>>, IsNavigation(s), LeadsTo(went.tree, s, p),
             went.tree.selected = selected
      PROVE  GoesTo(went.tree, ss \o went.ask, p)
  <2>1. ss \in Seq(S \cup {s}) /\ s \in S \cup {s}
    BY <1>1, SeqMonotonic
  <2>2. PICK r : r = Append(ss, s)
    OBVIOUS
  <2>3. ss \o went.ask = r
    BY <1>3, <2>1, <2>2, AppendIsConcat
  <2>4. /\ Len(ss) \in Nat /\ DOMAIN ss = 1 .. Len(ss) /\ DOMAIN r = 1 .. Len(ss) + 1
        /\ \A i \in 1 .. Len(ss) : r[i] = ss[i]
        /\ r[Len(ss) + 1] = s
    BY <2>2, AppendScript
  <2>5. ASSUME NEW i \in DOMAIN r, IsNavigation(r[i])
        PROVE  i = Len(ss) + 1 /\ r[i] = s
    <3>1. i \in 1 .. Len(ss) \/ i = Len(ss) + 1
      BY <2>4
    <3> QED
      BY <2>4, <2>5, <3>1 DEF Idle
  <2>6. Len(ss) + 1 \in DOMAIN r
    BY <2>4
  <2>7. ~ (\A i \in DOMAIN r : ~ IsNavigation(r[i]))
    BY <1>3, <2>4, <2>6
  <2> QED
    BY <1>3, <2>3, <2>5, <2>7 DEF GoesTo
<1> QED
  BY <1>2, <1>3 DEF Advances

-----------------------------------------------------------------------------
(***************************************************************************)
(* The invariant.                                                          *)
(***************************************************************************)
LinkInv == navpath # NoLink => IsAddress(navpath)

PlaceInv ==
  /\ place # NoLink => IsAddress(place)
  /\ place = NoLink => Untouched(nav, scripts)
  /\ loaded => place # NoLink

GoesInv == place # NoLink /\ ~ overlap => GoesTo(nav, scripts, place)

NavInv == IsTree(nav) /\ IsQueue(scripts) /\ LinkInv /\ PlaceInv /\ GoesInv

LEMMA PairProperties ==
  ASSUME NEW x, NEW y
  PROVE  <<x, y>> # NoLink /\ <<x, y>>[1] = x /\ <<x, y>>[2] = y
BY DEF NoLink

LEMMA OwnAddress ==
  ASSUME NEW h
  PROVE  IsAddress(<<toroot, h>>)
<1>1. PICK p : p = <<toroot, h>>
  OBVIOUS
<1>2. p # NoLink /\ p[1] = toroot /\ p = <<p[1], p[2]>>
  BY <1>1, PairProperties
<1>3. IsAddress(p)
  BY <1>2 DEF IsAddress
<1> QED
  BY <1>1, <1>3

LEMMA NodeAddress ==
  ASSUME NEW n \in Node, Url[n][1] = toroot
  PROVE  IsAddress(Url[n])
<1>1. PICK x : x = Url[n][2]
  OBVIOUS
<1>2. Url[n] = <<Url[n][1], Url[n][2]>>
  BY DataAssumption
<1>3. Url[n] = <<toroot, x>>
  BY <1>1, <1>2
<1> QED
  BY <1>3, OwnAddress

LEMMA PageAddress ==
  ASSUME NEW p
  PROVE  IsAddress(<<p, "">>)
<1>1. PICK q : q = <<p, "">>
  OBVIOUS
<1>2. q # NoLink /\ q[2] = "" /\ q = <<q[1], q[2]>>
  BY <1>1, PairProperties
<1>3. IsAddress(q)
  BY <1>2 DEF IsAddress
<1> QED
  BY <1>1, <1>3

LEMMA DestinationIs ==
  ASSUME LinkInv, NEW h
  PROVE  IsAddress(Destination(h))
<1>1. PICK url : url = IF navpath # NoLink THEN navpath ELSE <<toroot, h>>
  OBVIOUS
<1>2. IsAddress(url)
  BY <1>1, OwnAddress DEF LinkInv
<1>3. Destination(h) = IF url[2] \in LineHashes THEN <<url[1], "">> ELSE url
  BY <1>1 DEF Destination
<1>4. CASE url[2] \in LineHashes
  <2>1. PICK r : r = url[1]
    OBVIOUS
  <2>2. Destination(h) = <<r, "">>
    BY <1>3, <1>4, <2>1
  <2> QED
    BY <2>2, PageAddress
<1>5. CASE url[2] \notin LineHashes
  BY <1>2, <1>3, <1>5
<1> QED
  BY <1>4, <1>5

-----------------------------------------------------------------------------
(***************************************************************************)
(* navTo.                                                                  *)
(***************************************************************************)
LEMMA NavToStep ==
  ASSUME NEW t, IsTree(t), IsQueue(scripts), LinkInv, NEW h, NavTo(t, h)
  PROVE  /\ IsTree(nav') /\ IsQueue(scripts') /\ IsAddress(place')
         /\ Idle(scripts) /\ t.selected \subseteq {NodeOf(place')} =>
              GoesTo(nav', scripts', place')
<1>1. PICK url : url = Destination(h) /\ IsAddress(url)
  BY DestinationIs
<1>2. place' = url
  BY <1>1 DEF NavTo
<1>3. PICK ss : ss = scripts
  OBVIOUS
<1>4. IsQueue(ss) /\ (Idle(scripts) => Idle(ss))
  BY <1>3
<1>5. CASE FileOf(url) \in t.indices
  <2>1. PICK went : went = GotoNode(t, FileOf(url), RootOf(url), url[2])
    OBVIOUS
  <2>2. nav' = went.tree /\ scripts' = ss \o went.ask
    BY <1>1, <1>3, <1>5, <2>1 DEF NavTo
  <2>3. IsResult(went) /\ Advances(t.selected, url, went)
    BY <1>1, <2>1, GotoNodeTypes, GotoNodeAdvances
  <2>4. IsQueue(ss \o went.ask)
    BY <1>4, <2>3, AskedTypes
  <2>5. ASSUME Idle(ss), t.selected \subseteq {NodeOf(url)}
        PROVE  GoesTo(went.tree, ss \o went.ask, url)
    BY <1>4, <2>3, <2>5, AskedGoes
  <2>6. IsTree(went.tree)
    BY <2>3 DEF IsResult
  <2> QED
    BY <1>1, <1>2, <1>4, <2>2, <2>4, <2>5, <2>6
<1>6. CASE FileOf(url) \notin t.indices
  <2>1. PICK s : s = Script("index", RootOf(url), NoNode, FileOf(url), url[2])
    OBVIOUS
  <2>2. /\ s.kind = "index" /\ s.node = RootOf(url) /\ s.hash = url[2]
        /\ s.index = FileOf(url)
    BY <2>1, ScriptIs
  <2>3. PICK r : r = Append(ss, s)
    OBVIOUS
  <2>4. nav' = t /\ scripts' = r
    BY <1>1, <1>3, <1>6, <2>1, <2>3 DEF NavTo
  <2>5. IsScript(s) /\ IsNavigation(s) /\ LeadsTo(t, s, url)
    BY <2>2 DEF IsScript, IsNavigation, Navigations, LeadsTo
  <2>6. IsQueue(r)
    BY <1>4, <2>3, <2>5, AppendTypes
  <2>7. /\ Len(ss) \in Nat /\ DOMAIN ss = 1 .. Len(ss) /\ DOMAIN r = 1 .. Len(ss) + 1
        /\ \A i \in 1 .. Len(ss) : r[i] = ss[i]
        /\ r[Len(ss) + 1] = s
    BY <1>4, <2>3, AppendScript
  <2>8. ASSUME Idle(ss), t.selected \subseteq {NodeOf(url)}
        PROVE  GoesTo(t, r, url)
    <3>1. ASSUME NEW i \in DOMAIN r, IsNavigation(r[i])
          PROVE  i = Len(ss) + 1 /\ r[i] = s
      <4>1. i \in 1 .. Len(ss) \/ i = Len(ss) + 1
        BY <2>7
      <4> QED
        BY <2>7, <2>8, <3>1, <4>1 DEF Idle
    <3>2. Len(ss) + 1 \in DOMAIN r
      BY <2>7
    <3>3. ~ (\A i \in DOMAIN r : ~ IsNavigation(r[i]))
      BY <2>5, <2>7, <3>2
    <3> QED
      BY <2>5, <2>8, <3>1, <3>3 DEF GoesTo
  <2> QED
    BY <1>1, <1>2, <1>4, <2>4, <2>6, <2>8
<1> QED
  BY <1>5, <1>6

LEMMA NavigatingIs == ~ Navigating <=> Idle(scripts)
BY DEF Navigating, Idle, IsNavigation

LEMMA UnselectIs ==
  ASSUME NEW t, IsTree(t)
  PROVE  IsTree(Unselect(t)) /\ Unselect(t).selected = {}
BY SelectedSet DEF Unselect

-----------------------------------------------------------------------------
(***************************************************************************)
(* The steps.                                                              *)
(***************************************************************************)
LEMMA InvInit == NavInit => NavInv
<1> SUFFICES ASSUME NavInit
             PROVE  NavInv
  OBVIOUS
<1>1. IsTree(nav)
  BY DEF NavInit, IsTree, TreeFields
<1>2. IsQueue(scripts)
  <2>1. scripts = <<>> /\ <<>> \in Seq({}) /\ DOMAIN <<>> = {}
    BY DEF NavInit
  <2> QED
    BY <2>1 DEF IsQueue
<1>3. LinkInv
  <2>1. ASSUME NEW link \in KeptLinks, link # NoLink
        PROVE  IsAddress(link)
    BY <2>1, DataAssumption DEF IsAddress
  <2> QED
    BY <2>1 DEF NavInit, LinkInv
<1>4. PlaceInv
  BY DEF NavInit, PlaceInv, Untouched
<1>5. GoesInv
  BY DEF NavInit, GoesInv
<1> QED
  BY <1>1, <1>2, <1>3, <1>4, <1>5 DEF NavInv

LEMMA LoadStep ==
  ASSUME NavInv, WindowLoad
  PROVE  NavInv'
<1>1. PICK t : t = nav
  OBVIOUS
<1>2. PICK h : h = hash
  OBVIOUS
<1>3. IsTree(t) /\ IsQueue(scripts) /\ LinkInv /\ NavTo(t, h)
  BY <1>1, <1>2 DEF NavInv, WindowLoad
<1>4. /\ IsTree(nav') /\ IsQueue(scripts') /\ IsAddress(place')
      /\ Idle(scripts) /\ t.selected \subseteq {NodeOf(place')} => GoesTo(nav', scripts', place')
  BY <1>3, NavToStep
<1>5. LinkInv'
  BY DEF NavInv, LinkInv, WindowLoad
<1>6. place' # NoLink
  BY <1>4 DEF IsAddress
<1>7. PlaceInv'
  BY <1>4, <1>6 DEF PlaceInv
<1>8. ASSUME ~ overlap'
      PROVE  GoesTo(nav', scripts', place')
  <2>1. ~ Navigating /\ place = NoLink
    BY <1>8 DEF WindowLoad
  <2>2. t.selected = {}
    BY <1>1, <2>1 DEF NavInv, PlaceInv, Untouched
  <2> QED
    BY <1>4, <2>1, <2>2, NavigatingIs
<1>9. GoesInv'
  BY <1>8 DEF GoesInv
<1> QED
  BY <1>4, <1>5, <1>7, <1>9 DEF NavInv

(* A selected item of the hash is the item of the place: the tree stays    *)
(* there, or the navigation counts as overlapping.                         *)
LEMMA HashStep ==
  ASSUME NavInv, HashChange
  PROVE  NavInv'
<1> DEFINE stays == Anchors(nav, hash) \cap nav.selected # {}
<1>1. LinkInv' /\ (loaded' = loaded)
  BY DEF NavInv, LinkInv, HashChange
<1>2. ASSUME NEW t, IsTree(t), NavTo(t, hash),
             ~ overlap' => ~ Navigating /\ t.selected \subseteq {NodeOf(place')}
      PROVE  NavInv'
  <2>1. PICK h : h = hash
    OBVIOUS
  <2>2. IsQueue(scripts) /\ LinkInv /\ NavTo(t, h)
    BY <1>2, <2>1 DEF NavInv
  <2>3. /\ IsTree(nav') /\ IsQueue(scripts') /\ IsAddress(place')
        /\ Idle(scripts) /\ t.selected \subseteq {NodeOf(place')} => GoesTo(nav', scripts', place')
    BY <1>2, <2>2, NavToStep
  <2>4. place' # NoLink
    BY <2>3 DEF IsAddress
  <2>5. PlaceInv'
    BY <2>3, <2>4 DEF PlaceInv
  <2>6. GoesInv'
    BY <1>2, <2>3, NavigatingIs DEF GoesInv
  <2> QED
    BY <1>1, <2>3, <2>5, <2>6 DEF NavInv
<1>3. PICK t : t = nav
  OBVIOUS
<1>4. IsTree(t)
  BY <1>3 DEF NavInv
<1>5. IsTree(Unselect(t)) /\ Unselect(t).selected = {}
  BY <1>4, UnselectIs
<1>6. CASE /\ NavTo(IF stays THEN nav ELSE Unselect(nav), hash)
           /\ overlap' = (Navigating \/ (stays /\ (overlap \/ place' # <<toroot, hash>>)))
  <2>1. CASE ~ stays
    <3>1. NavTo(Unselect(t), hash)
      BY <1>3, <1>6, <2>1
    <3>2. ~ overlap' => ~ Navigating
      BY <1>6
    <3> QED
      BY <1>2, <1>5, <3>1, <3>2
  <2>2. CASE stays
    <3>1. NavTo(t, hash)
      BY <1>3, <1>6, <2>2
    <3>2. PICK h : h = hash
      OBVIOUS
    <3>3. ASSUME ~ overlap'
          PROVE  t.selected \subseteq {NodeOf(place')}
      <4>1. ~ Navigating /\ ~ overlap /\ place' = <<toroot, h>>
        BY <1>6, <2>2, <3>2, <3>3
      <4>2. PICK q : q = <<toroot, h>>
        OBVIOUS
      <4>3. IsAddress(q) /\ q[2] = h
        BY <4>2, OwnAddress, PairProperties
      <4>4. PICK a \in t.selected : a \in Anchors(t, h)
        BY <1>3, <2>2, <3>2
      <4>5. a = NodeOf(q)
        BY <1>4, <4>3, <4>4, AnchorsAre
      <4>6. place # NoLink
        BY <1>3, <4>4 DEF NavInv, PlaceInv, Untouched
      <4>7. t.selected = {NodeOf(place)}
        BY <1>3, <4>1, <4>6, NavigatingIs DEF NavInv, GoesInv, GoesTo, Idle
      <4>8. t.selected = {NodeOf(q)}
        BY <4>4, <4>5, <4>7
      <4> QED
        BY <4>1, <4>2, <4>8
    <3>4. ~ overlap' => ~ Navigating
      BY <1>6
    <3> QED
      BY <1>2, <1>4, <3>1, <3>3, <3>4
  <2> QED
    BY <2>1, <2>2
<1>7. CASE NavTo(Unselect(nav), hash) /\ overlap' = Navigating
  <2>1. NavTo(Unselect(t), hash)
    BY <1>3, <1>7
  <2> QED
    BY <1>2, <1>5, <1>7, <2>1
<1>8. CASE UNCHANGED <<nav, scripts, place, overlap>>
  BY <1>1, <1>8 DEF NavInv, PlaceInv, GoesInv
<1> QED
  BY <1>6, <1>7, <1>8 DEF HashChange

(* Only nodes that are shown can be clicked on, and none is before the     *)
(* first navigation.                                                       *)
LEMMA ClickableHasPlace ==
  ASSUME NavInv, NEW n \in Clickable
  PROVE  place # NoLink
<1>1. nav.expanded # {}
  BY DEF Clickable
<1> QED
  BY <1>1 DEF NavInv, PlaceInv, Untouched

LEMMA ClickStep ==
  ASSUME NavInv, NEW n \in Node, ClickAnchor(n)
  PROVE  NavInv'
<1>1. place # NoLink
  BY ClickableHasPlace DEF ClickAnchor
<1>2. PICK t : t = nav
  OBVIOUS
<1>3. PICK u : u = nav'
  OBVIOUS
<1>4. PICK p : p = Url[n]
  OBVIOUS
<1>5. IsAddress(p) /\ NodeOf(p) = n
  BY <1>4, NodeAddress, DataAssumption DEF ClickAnchor
<1>6. u = IF n \in t.selected THEN t ELSE [t EXCEPT !.selected = {n}]
  <2>1. nav' = IF n \in nav.selected THEN nav ELSE [nav EXCEPT !.selected = {n}]
    BY DEF ClickAnchor
  <2> QED
    BY <1>2, <1>3, <2>1
<1>7. IsTree(t)
  BY <1>2 DEF NavInv
<1>8. IsTree(u) /\ (n \notin t.selected => u.selected = {n})
  BY <1>6, <1>7, SelectedSet
<1>9. scripts' = scripts /\ place' = p /\ loaded' = loaded
      /\ (~ overlap' => ~ overlap /\ ~ Navigating)
  BY <1>4 DEF ClickAnchor
<1>10. IsTree(nav') /\ IsQueue(scripts')
  BY <1>3, <1>8, <1>9 DEF NavInv
<1>11. LinkInv'
  BY <1>4, <1>5 DEF NavInv, LinkInv, ClickAnchor, StoreLink
<1>12. p # NoLink
  BY <1>5 DEF IsAddress
<1>13. PlaceInv'
  BY <1>5, <1>9, <1>12 DEF PlaceInv
<1>14. ASSUME ~ overlap'
       PROVE  GoesTo(u, scripts, p)
  <2>1. Idle(scripts) /\ ~ overlap
    BY <1>9, <1>14, NavigatingIs
  <2>2. u.selected = {n}
    <3>1. CASE n \in t.selected
      <4>1. t.selected = {NodeOf(place)}
        BY <1>1, <1>2, <2>1 DEF NavInv, GoesInv, GoesTo, Idle
      <4> QED
        BY <1>6, <3>1, <4>1
    <3> QED
      BY <1>8, <3>1
  <2> QED
    BY <1>5, <2>1, <2>2 DEF GoesTo, Idle
<1>15. GoesInv'
  BY <1>3, <1>9, <1>14 DEF GoesInv
<1> QED
  BY <1>10, <1>11, <1>13, <1>15 DEF NavInv

LEMMA ExpandStep ==
  ASSUME NavInv, NEW n \in Node, ExpandToggle(n)
  PROVE  NavInv'
<1>1. place # NoLink
  BY ClickableHasPlace DEF ExpandToggle
<1>2. PICK t : t = nav
  OBVIOUS
<1>3. PICK ss : ss = scripts
  OBVIOUS
<1>4. IsTree(t) /\ IsQueue(ss) /\ (~ overlap => GoesTo(t, ss, place))
  BY <1>1, <1>2, <1>3 DEF NavInv, GoesInv
<1>5. LinkInv' /\ place' = place /\ overlap' = overlap /\ loaded' = loaded
  BY DEF NavInv, LinkInv, ExpandToggle
<1>6. IsAddress(place)
  BY <1>1 DEF NavInv, PlaceInv
<1>7. PICK p : p = place
  OBVIOUS
<1>8. ASSUME NEW u, IsTree(u), u.crumbs = t.crumbs, u.selected = t.selected, nav' = u,
             scripts' = scripts
      PROVE  NavInv'
  <2>1. ~ overlap => GoesTo(u, ss, p)
    BY <1>4, <1>7, <1>8, GoesToSame
  <2>2. GoesInv'
    BY <1>3, <1>5, <1>7, <1>8, <2>1 DEF GoesInv
  <2>3. PlaceInv'
    BY <1>1, <1>5, <1>6 DEF PlaceInv
  <2> QED
    BY <1>3, <1>4, <1>5, <1>8, <2>2, <2>3 DEF NavInv
<1>9. CASE nav' = [nav EXCEPT !.expanded = @ \ {n}] /\ UNCHANGED scripts
  <2>1. PICK u : u = [t EXCEPT !.expanded = @ \ {n}]
    OBVIOUS
  <2>2. IsTree(u) /\ u.crumbs = t.crumbs /\ u.selected = t.selected
    BY <1>4, <2>1 DEF IsTree, TreeFields
  <2>3. nav' = u
    BY <1>2, <1>9, <2>1
  <2> QED
    BY <1>8, <1>9, <2>2, <2>3
<1>10. CASE nav' = Open(nav, {n}) /\ UNCHANGED scripts
  <2>1. PICK u : u = Open(t, {n})
    OBVIOUS
  <2>2. IsTree(u) /\ u.crumbs = t.crumbs /\ u.selected = t.selected
    BY <1>4, <2>1, OpenProperties
  <2>3. nav' = u
    BY <1>2, <1>10, <2>1
  <2> QED
    BY <1>8, <1>10, <2>2, <2>3
<1>11. CASE scripts' = Append(scripts, Script("expand", n, n, 0, "")) /\ UNCHANGED nav
  <2>1. PICK s : s = Script("expand", n, n, 0, "")
    OBVIOUS
  <2>2. s.kind = "expand" /\ s.node = n
    BY <2>1 DEF Script
  <2>3. IsScript(s) /\ ~ IsNavigation(s)
    BY <2>2 DEF IsScript, IsNavigation, Navigations
  <2>4. PICK r : r = Append(ss, s)
    OBVIOUS
  <2>5. IsQueue(r) /\ (~ overlap => GoesTo(t, r, p))
    BY <1>4, <1>7, <2>3, <2>4, AppendTypes, AppendGoes
  <2>6. scripts' = r
    BY <1>3, <1>11, <2>1, <2>4
  <2>7. GoesInv'
    BY <1>2, <1>5, <1>7, <1>11, <2>5, <2>6 DEF GoesInv
  <2>8. PlaceInv'
    BY <1>1, <1>5, <1>6 DEF PlaceInv
  <2> QED
    BY <1>2, <1>4, <1>5, <1>11, <2>5, <2>6, <2>7, <2>8 DEF NavInv
<1> QED
  BY <1>9, <1>10, <1>11 DEF ExpandToggle

(* A script comes: the navigation goes on, or a node is opened.            *)
LEMMA LoadsStep ==
  ASSUME NavInv, NEW i \in DOMAIN scripts, ScriptLoads(i)
  PROVE  NavInv'
<1>1. PICK t : t = nav
  OBVIOUS
<1>2. PICK ss : ss = scripts
  OBVIOUS
<1>3. PICK p : p = place
  OBVIOUS
<1>4. i \in DOMAIN ss
  BY <1>2
<1>5. PICK s : s = ss[i]
  OBVIOUS
<1>6. IsTree(t) /\ IsQueue(ss)
  BY <1>1, <1>2 DEF NavInv
<1>7. IsScript(s)
  BY <1>4, <1>5, <1>6 DEF IsQueue
<1>8. place # NoLink /\ IsAddress(p)
  <2>1. scripts # <<>>
    BY <1>2, <1>4
  <2> QED
    BY <1>3, <2>1 DEF NavInv, PlaceInv, Untouched
<1>9. ~ overlap => GoesTo(t, ss, p)
  BY <1>1, <1>2, <1>3, <1>8 DEF NavInv, GoesInv
<1>10. LinkInv' /\ place' = place /\ overlap' = overlap /\ loaded' = loaded
  BY DEF NavInv, LinkInv, ScriptLoads
<1>11. PlaceInv'
  BY <1>3, <1>8, <1>10 DEF PlaceInv
<1>12. PICK r : r = RemoveAt(ss, i)
  OBVIOUS
<1>13. IsQueue(r)
  BY <1>4, <1>6, <1>12, RemoveTypes
<1>14. /\ IsNavigation(s) => (~ overlap => Idle(r))
       /\ ~ IsNavigation(s) => (~ overlap => GoesTo(t, r, p))
  BY <1>4, <1>5, <1>6, <1>9, <1>12, RemoveIdle, RemoveGoes
<1>15. ASSUME NEW went, nav' = went.tree, scripts' = r \o went.ask, IsResult(went),
              ~ overlap => Advances(t.selected, p, went), IsNavigation(s)
       PROVE  NavInv'
  <2>1. IsQueue(scripts')
    <3>1. IsQueue(r \o went.ask)
      BY <1>13, <1>15, AskedTypes
    <3> QED
      BY <1>15, <3>1
  <2>2. IsTree(nav')
    BY <1>15 DEF IsResult
  <2>3. ASSUME ~ overlap
        PROVE  GoesTo(went.tree, r \o went.ask, p)
    <3>1. t.selected \subseteq {NodeOf(p)}
      BY <1>9, <2>3 DEF GoesTo
    <3>2. PICK selected : selected = t.selected
      OBVIOUS
    <3>3. Idle(r) /\ selected \subseteq {NodeOf(p)} /\ Advances(selected, p, went)
      BY <1>14, <1>15, <2>3, <3>1, <3>2
    <3> QED
      BY <1>13, <3>3, AskedGoes
  <2>4. GoesInv'
    BY <1>3, <1>10, <1>15, <2>3 DEF GoesInv
  <2> QED
    BY <1>10, <1>11, <2>1, <2>2, <2>4 DEF NavInv
<1> DEFINE fetched(n) == [t EXCEPT !.fetched = @ \cup {n}]
<1>16. \A n : Fetched(n) = fetched(n)
  BY <1>1 DEF Fetched
<1>17. ASSUME NEW n
       PROVE  IsTree(fetched(n)) /\ fetched(n).crumbs = t.crumbs
              /\ fetched(n).selected = t.selected
  <2>1. fetched(n) = [t EXCEPT !.fetched = t.fetched \cup {n}]
    OBVIOUS
  <2> QED
    BY <1>6, <2>1, FetchedSet
<1>18. IsNavigation(s) /\ ~ overlap => LeadsTo(t, s, p)
  BY <1>4, <1>5, <1>9 DEF GoesTo
<1> HIDE DEF fetched
<1>19. ASSUME NEW n, s.kind \in {"show", "child"}, nav' = ShowNode(fetched(n), s.node, s.index, s.hash).tree,
              scripts' = r \o ShowNode(fetched(n), s.node, s.index, s.hash).ask
       PROVE  NavInv'
  <2>1. PICK u : u = fetched(n)
    OBVIOUS
  <2>2. IsTree(u) /\ u.crumbs = t.crumbs /\ u.selected = t.selected
    BY <1>17, <2>1
  <2>3. PICK went : went = ShowNode(u, s.node, s.index, s.hash)
    OBVIOUS
  <2>4. s.node \in Node /\ s.index \in Nat \ {0} /\ IsNavigation(s)
    BY <1>7, <1>19 DEF IsScript, IsNavigation, Navigations
  <2>5. IsResult(went)
    BY <2>2, <2>3, <2>4, ShowNodeTypes
  <2>6. ASSUME ~ overlap
        PROVE  Advances(u.selected, p, went)
    <3>1. /\ u.crumbs = CrumbsTo(p) /\ s.index \in 1 .. Len(u.crumbs)
          /\ s.node = Way(Top, u.crumbs)[s.index] /\ s.hash = p[2]
      BY <1>18, <1>19, <2>2, <2>4, <2>6 DEF LeadsTo
    <3> QED
      BY <1>8, <2>2, <2>3, <3>1, ShowNodeAdvances
  <2> QED
    BY <1>15, <1>19, <2>1, <2>2, <2>3, <2>4, <2>5, <2>6
<1>20. CASE s.kind = "index"
  <2>1. PICK u : u = [t EXCEPT !.indices = @ \cup {s.index}]
    OBVIOUS
  <2>2. IsTree(u) /\ u.crumbs = t.crumbs /\ u.selected = t.selected
    <3>1. u = [t EXCEPT !.indices = t.indices \cup {s.index}]
      BY <2>1
    <3> QED
      BY <1>6, <3>1, IndicesSet
  <2>3. PICK went : went = GotoNode(u, s.index, s.node, s.hash)
    OBVIOUS
  <2>4. nav' = went.tree /\ scripts' = r \o went.ask
    BY <1>1, <1>2, <1>5, <1>12, <1>20, <2>1, <2>3 DEF ScriptLoads
  <2>5. IsResult(went) /\ IsNavigation(s)
    BY <1>20, <2>2, <2>3, GotoNodeTypes DEF IsNavigation, Navigations
  <2>6. ASSUME ~ overlap
        PROVE  Advances(u.selected, p, went)
    <3>1. s.hash = p[2] /\ s.node = RootOf(p) /\ s.index = FileOf(p)
      BY <1>18, <1>20, <2>5, <2>6 DEF LeadsTo
    <3> QED
      BY <1>8, <2>2, <2>3, <3>1, GotoNodeAdvances
  <2> QED
    BY <1>15, <2>2, <2>4, <2>5, <2>6
<1>21. CASE s.kind = "show"
  <2>1. nav' = ShowNode(fetched(s.node), s.node, s.index, s.hash).tree
        /\ scripts' = r \o ShowNode(fetched(s.node), s.node, s.index, s.hash).ask
    BY <1>2, <1>5, <1>12, <1>16, <1>21 DEF ScriptLoads
  <2> QED
    BY <1>19, <1>21, <2>1
<1>22. CASE s.kind = "child"
  <2>1. nav' = ShowNode(fetched(s.child), s.node, s.index, s.hash).tree
        /\ scripts' = r \o ShowNode(fetched(s.child), s.node, s.index, s.hash).ask
    BY <1>2, <1>5, <1>12, <1>16, <1>22 DEF ScriptLoads
  <2> QED
    BY <1>19, <1>22, <2>1
<1>23. CASE s.kind = "expand"
  <2>1. PICK u : u = Open(fetched(s.node), {s.node})
    OBVIOUS
  <2>2. s.node \in Node
    BY <1>7, <1>23 DEF IsScript
  <2>3. IsTree(u) /\ u.crumbs = t.crumbs /\ u.selected = t.selected
    BY <1>17, <2>1, <2>2, OpenProperties
  <2>4. nav' = u /\ scripts' = r \o <<>>
    BY <1>2, <1>5, <1>12, <1>16, <1>23, <2>1 DEF ScriptLoads
  <2>5. r \o <<>> = r
    BY <1>13 DEF IsQueue
  <2>6. ~ IsNavigation(s)
    BY <1>23 DEF IsNavigation, Navigations
  <2>7. ~ overlap => GoesTo(u, r, p)
    BY <1>14, <2>3, <2>6, GoesToSame
  <2>8. GoesInv'
    BY <1>3, <1>10, <2>4, <2>5, <2>7 DEF GoesInv
  <2> QED
    BY <1>10, <1>11, <1>13, <2>3, <2>4, <2>5, <2>8 DEF NavInv
<1> QED
  BY <1>7, <1>20, <1>21, <1>22, <1>23 DEF IsScript

(* The steps that touch neither the tree nor its scripts.                  *)
LEMMA OtherSteps ==
  ASSUME NavInv, UNCHANGED <<nav, scripts, loaded, place, overlap>>, LinkInv'
  PROVE  NavInv'
BY DEF NavInv, PlaceInv, GoesInv

LEMMA InvNext == NavInv /\ [NavNext]_navVars => NavInv'
<1> SUFFICES ASSUME NavInv, [NavNext]_navVars
             PROVE  NavInv'
  OBVIOUS
<1>1. CASE WindowLoad
  BY <1>1, LoadStep
<1>2. CASE HashChange
  BY <1>2, HashStep
<1>3. CASE AnimationEnds
  <2>1. LinkInv'
    BY <1>3 DEF AnimationEnds, NavInv, LinkInv
  <2> QED
    BY <1>3, <2>1, OtherSteps DEF AnimationEnds
<1>4. CASE ToggleSyncButton
  <2>1. PICK h : h = hash
    OBVIOUS
  <2>2. IsAddress(<<toroot, h>>)
    BY OwnAddress
  <2>3. LinkInv'
    BY <1>4, <2>1, <2>2 DEF ToggleSyncButton, NavInv, LinkInv
  <2> QED
    BY <1>4, <2>3, OtherSteps DEF ToggleSyncButton
<1>5. ASSUME NEW h \in Hashes, UserGoes(h)
      PROVE  NavInv'
  <2>1. LinkInv'
    BY <1>5 DEF UserGoes, NavInv, LinkInv
  <2> QED
    BY <1>5, <2>1, OtherSteps DEF UserGoes
<1>6. ASSUME NEW n \in Node, ClickAnchor(n)
      PROVE  NavInv'
  BY <1>6, ClickStep
<1>7. ASSUME NEW n \in Node, ExpandToggle(n)
      PROVE  NavInv'
  BY <1>7, ExpandStep
<1>8. ASSUME NEW i \in DOMAIN scripts, ScriptLoads(i)
      PROVE  NavInv'
  BY <1>8, LoadsStep
<1>9. CASE UNCHANGED navVars
  <2>1. LinkInv'
    BY <1>9 DEF navVars, NavInv, LinkInv
  <2> QED
    BY <1>9, <2>1, OtherSteps DEF navVars
<1> QED
  BY <1>1, <1>2, <1>3, <1>4, <1>5, <1>6, <1>7, <1>8, <1>9 DEF NavNext

LEMMA InvSelects == NavInv => SelectedIsPlace
<1> SUFFICES ASSUME NavInv, AtRest, ~ overlap
             PROVE  nav.selected = {NodeOf(place)}
  BY DEF SelectedIsPlace
<1>1. place # NoLink /\ scripts = <<>>
  BY DEF AtRest, NavInv, PlaceInv
<1>2. Idle(scripts)
  BY <1>1 DEF Idle
<1> QED
  BY <1>1, <1>2 DEF NavInv, GoesInv, GoesTo, Idle

\* Once everything has come, the node to which the index file of the address last gone to leads is
\* selected and no other (navtree.js:342-456, 513-538), unless navigations overlapped: for every tree
\* in which the ways of the index stay, and its index has the anchors of this page where they are
\* looked up, however tree and index are split into scripts and in whatever order these come.
THEOREM PlaceIsSelected == NavSpec => []SelectedIsPlace
BY InvInit, InvNext, InvSelects, PTL DEF NavSpec

-----------------------------------------------------------------------------
(***************************************************************************)
(* The kept link.                                                          *)
(***************************************************************************)
\* No step but the switch and a click touches the kept link, and both look at
\* the switch: the invariant is inductive as it stands.
LEMMA SyncInit == NavInit => SyncKeepsNoLink
BY DEF NavInit, SyncKeepsNoLink

LEMMA SyncNext == SyncKeepsNoLink /\ [NavNext]_navVars => SyncKeepsNoLink'
<1> SUFFICES ASSUME SyncKeepsNoLink, [NavNext]_navVars
             PROVE  SyncKeepsNoLink'
  OBVIOUS
<1>1. CASE WindowLoad
  BY <1>1 DEF WindowLoad, SyncKeepsNoLink
<1>2. CASE HashChange
  BY <1>2 DEF HashChange, SyncKeepsNoLink
<1>3. CASE AnimationEnds
  BY <1>3 DEF AnimationEnds, SyncKeepsNoLink
<1>4. CASE ToggleSyncButton
  BY <1>4 DEF ToggleSyncButton, SyncKeepsNoLink
<1>5. ASSUME NEW h \in Hashes, UserGoes(h)
      PROVE  SyncKeepsNoLink'
  BY <1>5 DEF UserGoes, SyncKeepsNoLink
<1>6. ASSUME NEW n \in Node, ClickAnchor(n)
      PROVE  SyncKeepsNoLink'
  BY <1>6 DEF ClickAnchor, StoreLink, SyncKeepsNoLink
<1>7. ASSUME NEW n \in Node, ExpandToggle(n)
      PROVE  SyncKeepsNoLink'
  BY <1>7 DEF ExpandToggle, SyncKeepsNoLink
<1>8. ASSUME NEW i \in DOMAIN scripts, ScriptLoads(i)
      PROVE  SyncKeepsNoLink'
  BY <1>8 DEF ScriptLoads, SyncKeepsNoLink
<1>9. CASE UNCHANGED navVars
  BY <1>9 DEF navVars, SyncKeepsNoLink
<1> QED
  BY <1>1, <1>2, <1>3, <1>4, <1>5, <1>6, <1>7, <1>8, <1>9 DEF NavNext

\* While the tree is synchronised no link is kept: for every tree, index and
\* address, whatever scripts, clicks and animations overlap.
THEOREM SyncedKeepsNoLink == NavSpec => []SyncKeepsNoLink
BY SyncInit, SyncNext, PTL DEF NavSpec
=============================================================================
