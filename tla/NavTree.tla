------------------------------ MODULE NavTree ------------------------------
(***************************************************************************)
(* The navigation tree beside a page of the generated documentation        *)
(* (navtree.js): it follows the address of the page, fetches its nodes and *)
(* its index from scripts when they are needed, and stays where it is      *)
(* while it is not synchronised with the page.                             *)
(*                                                                         *)
(* A script may come back at any time after it was asked for, in any       *)
(* order; the page is asked for only once but a script may be asked for    *)
(* several times.  An address is a page and a hash, "" for none.           *)
(***************************************************************************)
EXTENDS Integers, Sequences, FiniteSets, SequencesExt

CONSTANTS
  Top, Node,        \* the root object, which is not shown, and all nodes
  Children,         \* the children of every node
  Lazy,             \* the nodes whose children are in a script of their own
  Url,              \* the address of every node
  toroot,           \* the page this is
  Hashes,           \* the hashes that the address of the page may have
  LineHashes,       \* those that are numbers of lines
  breadcrumbs,      \* the entries of the index files: the way to an address, by file and address
  IndexFile,        \* the file in whose part of the order an address is, -1 before the first
  KeptLinks,        \* bound: the links that an earlier page may have left
  ShowsChildren,    \* whether this is a page whose node is shown open
  MaxScripts,       \* bound: scripts on their way
  MaxAnimations     \* bound: scrollings under way

ASSUME NavAssumption ==
  /\ Top \in Node /\ Lazy \subseteq Node /\ LineHashes \subseteq Hashes
  /\ Children \in [Node -> Seq(Node)] /\ Children[Top] # <<>>
  /\ MaxScripts \in Nat /\ MaxAnimations \in Nat /\ ShowsChildren \in BOOLEAN

VARIABLES
  nav,         \* the tree: what has been fetched, created, opened and selected
  scripts,     \* the scripts on their way, each with what its callback will do
  hash,        \* the hash of the page's address
  hashchange,  \* whether the event hashchange is due
  loaded,      \* whether the event load has come
  navpath,     \* the link kept in the local storage
  sync,        \* whether the tree is synchronised with the page
  animations,  \* the scrollings under way: the hash to set at the end, or "none"
  animationInProgress,
  place,       \* history: the address last navigated to
  overlap      \* history: whether another navigation waited for a script then, or had selected
               \* a node that the code leaves selected

navVars == <<nav, scripts, hash, hashchange, loaded, navpath, sync, animations,
             animationInProgress, place, overlap>>

NoLink == <<"none">>
NoNode == "undefined"

NavInit ==
  /\ nav = [crumbs |-> <<>>, fetched |-> {}, indices |-> {}, visited |-> {}, expanded |-> {},
            selected |-> {}]
  /\ scripts = <<>>
  /\ hash \in Hashes
  /\ hashchange = FALSE
  /\ loaded = FALSE
  /\ navpath \in {NoLink} \cup KeptLinks
  /\ sync = (navpath = NoLink)
  /\ animations = <<>>
  /\ animationInProgress = FALSE
  /\ place = NoLink
  /\ overlap = FALSE

-----------------------------------------------------------------------------
(***************************************************************************)
(* The tree.  A node's items exist once it has been visited.               *)
(***************************************************************************)
Waits(t, n) == n \in Lazy \ t.fetched           \* childrenData is the name of a script
HasData(n) == n # NoNode /\ Children[n] # <<>>  \* childrenData is not empty
Created(t) == UNION {ToSet(Children[n]) : n \in t.visited}

ChildAt(n, k) == IF n # NoNode /\ k \in DOMAIN Children[n] THEN Children[n][k] ELSE NoNode

(* The nodes that the breadcrumbs lead through from n on, n included.      *)
Way(n, crumbs) ==
  LET way[k \in 1 .. Len(crumbs) + 1] ==
        IF k = 1 THEN n ELSE ChildAt(way[k - 1], crumbs[k - 1])
  IN  way

(* The index file of an address, and the page that is looked up: that of   *)
(* an address before the first entry is the main page, in the first file.  *)
MainPage == Url[Children[Top][1]][1]

FileOf(url) == IF IndexFile[url] = -1 THEN 0 ELSE IndexFile[url]
RootOf(url) == IF IndexFile[url] = -1 THEN MainPage ELSE url[1]

(* The breadcrumbs to an address, from this one index file: an address     *)
(* that it does not hold leads to its page if the same file holds that,    *)
(* or to the first node.  They begin with that of the root's child.        *)
Crumbs(file, root, h) ==
  LET entry == <<file, <<root, h>>>>
      whole == <<file, <<root, "">>>>
  IN  <<1>> \o (CASE entry \in DOMAIN breadcrumbs -> breadcrumbs[entry]
                  [] entry \notin DOMAIN breadcrumbs /\ whole \in DOMAIN breadcrumbs ->
                       breadcrumbs[whole]
                  [] OTHER -> <<>>)

CrumbsTo(url) == Crumbs(FileOf(url), RootOf(url), url[2])

(* The node that stands for an address.                                    *)
NodeOf(url) == Last(Way(Top, CrumbsTo(url)))

(***************************************************************************)
(* The generated data: the breadcrumbs lead through nodes of the tree; the *)
(* index leads from the address of every node that is an anchor of this    *)
(* page to the node; and a link to another page does not have the hash of  *)
(* such a node.                                                            *)
(***************************************************************************)
ASSUME DataAssumption ==
  /\ NoNode \notin Node
  /\ \A n \in Node : Url[n] = <<Url[n][1], Url[n][2]>>
  /\ \A entry \in DOMAIN breadcrumbs :
       /\ breadcrumbs[entry] \in Seq(Nat)
       /\ ToSet(Way(Top, <<1>> \o breadcrumbs[entry])) \subseteq Node
  /\ \A n \in Node : Url[n][1] = toroot /\ Url[n][2] # "" => NodeOf(Url[n]) = n
  /\ \A link \in KeptLinks :
       /\ link = <<link[1], link[2]>>
       /\ \A n \in Node : Url[n] = <<toroot, link[2]>> /\ link[2] # "" => link[1] = toroot

(* getNode, if necessary, and the node is shown with its children.         *)
Open(t, nodes) == [t EXCEPT !.visited = @ \cup nodes, !.expanded = @ \cup nodes]

keepSelected(t) == t   \* mutant: an earlier selection stays

Unselect(t) == [t EXCEPT !.selected = {}]

Anchors(t, h) == IF h = "" THEN {} ELSE {a \in Created(t) : Url[a] = <<toroot, h>>}

(***************************************************************************)
(* selectAndHighlight: selects the items of this page's hash if there are  *)
(* any, and scrolls to it (highlightAnchor), else the node that was found. *)
(***************************************************************************)
SelectAndHighlight(t, h, n) ==
  [tree |-> [t EXCEPT !.selected = @ \cup (IF Anchors(t, h) = {} THEN {n} \ {NoNode}
                                           ELSE Anchors(t, h))],
   ask |-> <<>>, scrolls |-> Anchors(t, h) # {}]

(***************************************************************************)
(* showNode from node on, at an index of the breadcrumbs: opens every node *)
(* on the way up to the first one that waits for its script, or has no     *)
(* children, or to the end.  The breadcrumbs are those of the latest       *)
(* navigation, also for a callback of an earlier one.                      *)
(***************************************************************************)
Script(kind, n, child, index, h) ==
  [kind |-> kind, node |-> n, child |-> child, index |-> index, hash |-> h]

Asks(t, script) == [tree |-> t, ask |-> <<script>>, scrolls |-> FALSE]

(* How far the way goes: as many nodes as are opened.                      *)
Reach(t, way) ==
  LET stops == {k \in 1 .. Len(way) - 1 : ~ HasData(way[k]) \/ Waits(t, way[k])}
  IN  IF stops = {} THEN Len(way) - 1 ELSE Min(stops) - 1

ShowNode(t, n, index, h) ==
  LET crumbs == IF index > Len(t.crumbs) THEN <<0>> ELSE SubSeq(t.crumbs, index, Len(t.crumbs))
      way == Way(n, crumbs)
      reach == Reach(t, way)
      opened == Open(t, {way[k] : k \in 1 .. reach})
      next == way[reach + 1]
      atEnd == reach = Len(way) - 1
  IN  CASE ~ atEnd /\ ~ HasData(next) -> SelectAndHighlight(opened, h, NoNode)
        [] ~ atEnd /\ HasData(next) -> Asks(opened, Script("show", next, next, index + reach, h))
        [] atEnd /\ next = NoNode ->             \* n.childrenData throws
             [tree |-> opened, ask |-> <<>>, scrolls |-> FALSE]
        [] atEnd /\ next # NoNode /\ Waits(t, next) ->
             Asks(opened, Script("child", way[reach], next, index + reach - 1, h))
        [] OTHER ->
             SelectAndHighlight(IF ShowsChildren /\ HasData(next) THEN Open(opened, {next})
                                ELSE opened, h, next)

GotoNode(t, file, root, h) == ShowNode([t EXCEPT !.crumbs = Crumbs(file, root, h)], Top, 1, h)

(***************************************************************************)
(* navTo: the link of the local storage goes before the address; the       *)
(* number of a line is no hash of the tree; the index file may have to     *)
(* come first.                                                             *)
(***************************************************************************)
Destination(h) ==
  LET url == IF navpath # NoLink THEN navpath ELSE <<toroot, h>>
  IN  IF url[2] \in LineHashes THEN <<url[1], "">> ELSE url

(* gotoAnchor: only an anchor that has a position is scrolled to.          *)
Scroll(h) ==
  \/ /\ Len(animations) < MaxAnimations
     /\ animations' = Append(animations, h)
     /\ animationInProgress' = TRUE
  \/ UNCHANGED <<animations, animationInProgress>>

Navigations == {"index", "show", "child"}
Navigating == \E i \in DOMAIN scripts : scripts[i].kind \in Navigations

NavTo(t, h) ==
  LET url == Destination(h)
      ready == FileOf(url) \in t.indices
      went == GotoNode(t, FileOf(url), RootOf(url), url[2])
  IN  /\ nav' = IF ready THEN went.tree ELSE t
      /\ scripts' = IF ready THEN scripts \o went.ask
                    ELSE Append(scripts, Script("index", RootOf(url), NoNode, FileOf(url), url[2]))
      /\ IF ready /\ went.scrolls THEN Scroll("none")
         ELSE UNCHANGED <<animations, animationInProgress>>
      /\ place' = url

-----------------------------------------------------------------------------
(***************************************************************************)
(* The events of the page.                                                 *)
(***************************************************************************)
WindowLoad ==
  /\ ~ loaded
  /\ loaded' = TRUE
  /\ NavTo(nav, hash)
  /\ overlap' = (Navigating \/ place # NoLink)
  /\ UNCHANGED <<hash, hashchange, navpath, sync>>

(* The selection is removed unless it is this hash's item already.  An     *)
(* empty hash counts only while nothing scrolls.                           *)
HashChange ==
  /\ hashchange
  /\ hashchange' = FALSE
  /\ LET stays == Anchors(nav, hash) \cap nav.selected # {}
     IN  \/ /\ hash # ""
            /\ NavTo(IF stays THEN nav ELSE Unselect(nav), hash)
            /\ overlap' = (Navigating \/ (stays /\ (overlap \/ place' # <<toroot, hash>>)))
         \/ /\ hash = "" /\ ~ animationInProgress
            /\ NavTo(Unselect(nav), hash)
            /\ overlap' = Navigating
         \/ /\ hash = "" /\ animationInProgress
            /\ UNCHANGED <<nav, scripts, place, overlap, animations, animationInProgress>>
  /\ UNCHANGED <<hash, loaded, navpath, sync>>

(* A link in the text, or the browser's history.                           *)
UserGoes(h) ==
  /\ h # hash
  /\ hash' = h
  /\ hashchange' = TRUE
  /\ UNCHANGED <<nav, scripts, loaded, navpath, sync, animations, animationInProgress, place,
                 overlap>>

(***************************************************************************)
(* The link of an item: of an anchor of this page it selects the item and  *)
(* scrolls, then the address changes, if the anchor has a position; of     *)
(* another page it leaves this one, and the tree begins anew there.        *)
(***************************************************************************)
Clickable == UNION {ToSet(Children[n]) : n \in nav.expanded}

StoreLink(link) == navpath' = IF sync THEN navpath ELSE link

ClickAnchor(n) ==
  /\ n \in Clickable
  /\ Url[n][1] = toroot /\ Url[n][2] # ""
  /\ StoreLink(Url[n])
  /\ nav' = IF n \in nav.selected THEN nav ELSE [nav EXCEPT !.selected = {n}]
  /\ Scroll(Url[n][2])
  /\ place' = Url[n]
  /\ overlap' = (overlap \/ Navigating)
  /\ UNCHANGED <<scripts, hash, hashchange, loaded, sync>>

AnimationEnds ==
  /\ animations # <<>>
  /\ animations' = Tail(animations)
  /\ animationInProgress' = FALSE
  /\ hash' = IF Head(animations) = "none" THEN hash ELSE Head(animations)
  /\ hashchange' = (hashchange \/ hash' # hash)
  /\ UNCHANGED <<nav, scripts, loaded, navpath, sync, place, overlap>>

(***************************************************************************)
(* expandToggle: closes an open node, or opens it once its children are    *)
(* there (expandNode).                                                     *)
(***************************************************************************)
ExpandToggle(n) ==
  /\ n \in Clickable /\ HasData(n)
  /\ \/ /\ n \in nav.expanded
        /\ nav' = [nav EXCEPT !.expanded = @ \ {n}]
        /\ UNCHANGED scripts
     \/ /\ n \notin nav.expanded /\ ~ Waits(nav, n)
        /\ nav' = Open(nav, {n})
        /\ UNCHANGED scripts
     \/ /\ n \notin nav.expanded /\ Waits(nav, n)
        /\ scripts' = Append(scripts, Script("expand", n, n, 0, ""))
        /\ UNCHANGED nav
  /\ UNCHANGED <<hash, hashchange, loaded, navpath, sync, animations, animationInProgress, place,
                 overlap>>

keepLink ==   \* mutant: switching synchronisation on leaves the link
  /\ sync' = ~ sync
  /\ navpath' = IF sync THEN <<toroot, hash>> ELSE navpath
  /\ UNCHANGED <<nav, scripts, hash, hashchange, loaded, animations, animationInProgress, place,
                 overlap>>

ToggleSyncButton ==
  /\ sync' = ~ sync
  /\ navpath' = IF sync THEN <<toroot, hash>> ELSE NoLink
  /\ UNCHANGED <<nav, scripts, hash, hashchange, loaded, animations, animationInProgress, place,
                 overlap>>

(***************************************************************************)
(* A script has come: its callback goes on where the function that asked   *)
(* for it stopped.  A node whose child's children have come is shown again.*)
(***************************************************************************)
Fetched(n) == [nav EXCEPT !.fetched = @ \cup {n}]

ScriptLoads(i) ==
  LET s == scripts[i]
      went == CASE s.kind = "index" ->
                     GotoNode([nav EXCEPT !.indices = @ \cup {s.index}], s.index, s.node, s.hash)
                [] s.kind = "show" -> ShowNode(Fetched(s.node), s.node, s.index, s.hash)
                [] s.kind = "child" ->
                     ShowNode(Fetched(s.child), s.node, s.index, s.hash)
                [] s.kind = "expand" ->
                     [tree |-> Open(Fetched(s.node), {s.node}), ask |-> <<>>, scrolls |-> FALSE]
  IN  /\ nav' = went.tree
      /\ scripts' = RemoveAt(scripts, i) \o went.ask
      /\ IF went.scrolls THEN Scroll("none") ELSE UNCHANGED <<animations, animationInProgress>>
      /\ UNCHANGED <<hash, hashchange, loaded, navpath, sync, place, overlap>>

NavNext ==
  /\ \/ WindowLoad \/ HashChange \/ AnimationEnds \/ ToggleSyncButton
     \/ \E h \in Hashes : UserGoes(h)
     \/ \E n \in Node : ClickAnchor(n) \/ ExpandToggle(n)
     \/ \E i \in DOMAIN scripts : ScriptLoads(i)
  /\ Len(scripts') <= MaxScripts

NavSpec == NavInit /\ [][NavNext]_navVars
-----------------------------------------------------------------------------
(***************************************************************************)
(* Properties.                                                             *)
(***************************************************************************)

\* Once everything has come and nothing scrolls, exactly the node of the address last gone to is
\* selected, whatever scripts were fetched twice and whatever was opened or closed meanwhile;
\* unless one navigation began while another waited for a script, the event load came after a
\* hashchange, or the tree stays with a link while the page's own node was selected: two
\* nodes may then be.
AtRest == loaded /\ ~ hashchange /\ scripts = <<>> /\ animations = <<>>

SelectedIsPlace == (AtRest /\ ~ overlap) => nav.selected = {NodeOf(place)}

\* While the tree is synchronised no link is kept in the storage, whichever of toggleSyncButton, the
\* clicks and the hashchanges came last (navtree.js:61-66, 458-480): a link kept from the time before
\* would take the tree to another place than the page's when the next page is loaded.
SyncKeepsNoLink == sync => navpath = NoLink
=============================================================================
