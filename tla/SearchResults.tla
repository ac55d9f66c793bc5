--------------------------- MODULE SearchResults ---------------------------
(***************************************************************************)
(* The page of search results of the generated documentation (search.js,   *)
(* createResults and class SearchResults), as operators on the document    *)
(* that the frame holds: which rows the search has left visible, which     *)
(* lists of children are open, and what the arrow keys do.                 *)
(*                                                                         *)
(* Rows are counted from 1, not from 0.  The focus is <<"item", i, 0>> on  *)
(* the link of row i, <<"item", i, c>> on its c-th child, or elsewhere.    *)
(***************************************************************************)
EXTENDS Integers, Sequences, SequencesExt

CONSTANTS
  searchData,   \* the rows of every page: their name and number of targets
  Escapes       \* the characters of names that are escaped, and their codes

\* A code begins with a character that is escaped itself, and is no beginning of another.
ASSUME EscapesAssumption ==
  \A c \in DOMAIN Escapes :
    /\ Escapes[c] \in Seq(STRING) \ {<<>>}
    /\ Escapes[c][1] \in DOMAIN Escapes
    /\ \A d \in DOMAIN Escapes : c # d => ~ IsPrefix(Escapes[c], Escapes[d])

Nowhere == <<"none">>
Field == <<"field">>
Item(i) == <<"item", i, 0>>
Child(i, c) == <<"item", i, c>>

Blank == " "

NoPage == <<"none">>
NoMatches == <<"nomatches">>

-----------------------------------------------------------------------------
(* Names, texts and identifiers are sequences of characters in lower case. *)

convertToId(search) ==
  FlattenSeq([i \in DOMAIN search |->
                IF search[i] \in DOMAIN Escapes THEN Escapes[search[i]] ELSE <<search[i]>>])

StripLeading(s) ==
  LET solid == {i \in DOMAIN s : s[i] # Blank}
  IN  IF solid = {} THEN <<>> ELSE SubSeq(s, Min(solid), Len(s))

StripEnds(s) == Reverse(StripLeading(Reverse(StripLeading(s))))

matchRaw(rowMatchName, search) ==   \* mutant: the search is not converted
  IsPrefix(StripEnds(search), rowMatchName)

Matches(rowMatchName, search) == IsPrefix(convertToId(StripEnds(search)), rowMatchName)

(***************************************************************************)
(* createResults makes a row of each entry: its id is that of the entry,   *)
(* converted, and an entry of more than one target gets children.          *)
(***************************************************************************)
createResults(page) ==
  [i \in DOMAIN searchData[page] |->
     [id |-> convertToId(searchData[page][i].name),
      children |-> IF searchData[page][i].targets = 1 THEN 0 ELSE searchData[page][i].targets]]

(* The rows of a page are in the order of their ids, so that those that    *)
(* begin with the same characters are neighbours; only this is assumed.    *)
ASSUME SortedAssumption ==
  \A page \in DOMAIN searchData :
    LET rows == createResults(page)
    IN  \A i, k \in DOMAIN rows : \A j \in i .. k : \A n \in 0 .. Len(rows[i].id) :
          LET begin == SubSeq(rows[i].id, 1, n)
          IN  IsPrefix(begin, rows[k].id) => IsPrefix(begin, rows[j].id)

(* The document as it is once it has loaded: created, then searched.       *)
Search(rows, search) == {i \in DOMAIN rows : Matches(rows[i].id, search)}

Document(page, query) ==
  LET rows == createResults(page)
  IN  [page |-> page, rows |-> rows, display |-> Search(rows, query),
       open |-> {}, lastKey |-> "none", repeatOn |-> FALSE]

-----------------------------------------------------------------------------
(***************************************************************************)
(* FindChildElement looks for the children below the element that has the  *)
(* id of row i, which is the first such row: several rows may have one id. *)
(* 0 stands for no element.                                                *)
(***************************************************************************)
FindChildElement(d, i) ==
  LET first == Min({j \in DOMAIN d.rows : d.rows[j].id = d.rows[i].id})
  IN  IF d.rows[first].children > 0 THEN first ELSE 0

OpenChildren(d, i) == [d EXCEPT !.open = @ \cup ({FindChildElement(d, i)} \ {0})]
CloseChildren(d, i) == [d EXCEPT !.open = @ \ {FindChildElement(d, i)}]

Toggle(d, i) ==
  IF FindChildElement(d, i) \in d.open THEN CloseChildren(d, i) ELSE OpenChildren(d, i)

(* An element takes the focus if it and what it is in are displayed.       *)
CanFocus(d, e) ==
  /\ e[1] = "item"
  /\ e[2] \in d.display
  /\ e[3] # 0 => e[2] \in d.open

NavNext(d, index) ==
  LET next == {j \in d.display : j >= index}
  IN  IF next = {} THEN Nowhere ELSE Item(Min(next))

skipsOne(d, index) ==   \* mutant: starts one row too early
  LET previous == {j \in d.display : j < index}
  IN  IF previous = {} THEN Nowhere ELSE Item(Max(previous))

NavPrev(d, index) ==
  LET previous == {j \in d.display : j <= index}
  IN  IF previous = {} THEN Nowhere ELSE Item(Max(previous))

ChildrenVisible(d, i) == FindChildElement(d, i) \in d.open

(* Where Nav and NavChild move the focus on Up and Down.  The children     *)
(* that Up enters are those of row i - 1, although it is the row found     *)
(* before it whose children have to be open.                               *)
Up(d, i, c) ==
  LET previous == NavPrev(d, i - 1)
  IN  CASE c > 1 -> Child(i, c - 1)
        [] c = 1 -> Item(i)
        [] c = 0 /\ previous = Nowhere -> Field
        [] c = 0 /\ previous # Nowhere ->
             IF ChildrenVisible(d, previous[2]) /\ d.rows[i - 1].children > 0
             THEN Child(i - 1, d.rows[i - 1].children)
             ELSE previous

Down(d, i, c) ==
  IF c < d.rows[i].children /\ (c > 0 \/ ChildrenVisible(d, i))
  THEN Child(i, c + 1)
  ELSE NavNext(d, i + 1)

-----------------------------------------------------------------------------
(***************************************************************************)
(* ProcessKeys: what the document remembers of a key event, and whether    *)
(* the event is acted upon.  The first keypress after a keydown is not.    *)
(***************************************************************************)
ProcessKeys(d, type, key) ==
  CASE type = "keydown" -> [d EXCEPT !.repeatOn = FALSE, !.lastKey = key]
    [] type = "keypress" -> [d EXCEPT !.repeatOn = @ \/ d.lastKey # "none"]
    [] type = "keyup" -> [d EXCEPT !.repeatOn = FALSE, !.lastKey = "none"]

Acts(d, type) ==
  \/ type = "keydown"
  \/ type = "keypress" /\ d.repeatOn /\ d.lastKey # "none"

(* What Nav and NavChild change in the document.  Enter follows the link,  *)
(* which opens or closes the children where there are several targets.     *)
NavDocument(d, type, key, i, c) ==
  LET e == ProcessKeys(d, type, key)
  IN  CASE key = "enter" -> IF type = "keydown" THEN Toggle(d, i) ELSE d
        [] key # "enter" /\ Acts(d, type) /\ c = 0 /\ e.lastKey = "right" -> OpenChildren(e, i)
        [] key # "enter" /\ Acts(d, type) /\ c = 0 /\ e.lastKey = "left" -> CloseChildren(e, i)
        [] OTHER -> e

(* Where Nav and NavChild send the focus; Escape closes the results and    *)
(* goes to the search field.                                               *)
NavTarget(d, type, key, i, c) ==
  LET last == ProcessKeys(d, type, key).lastKey
  IN  CASE key = "enter" \/ ~ Acts(d, type) -> Nowhere
        [] last = "up" -> Up(d, i, c)
        [] last = "down" -> Down(d, i, c)
        [] last = "escape" -> Field
        [] OTHER -> Nowhere
=============================================================================
