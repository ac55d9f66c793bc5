----------------------------- MODULE SearchBox -----------------------------
(***************************************************************************)
(* The search panel of the generated documentation (search.js, class       *)
(* SearchBox) with the frame of results: the handlers of the page, the two *)
(* timers, the asynchronous loading of the frame, and a user at the        *)
(* keyboard and the mouse.                                                 *)
(*                                                                         *)
(* The browser handles one event at a time.  A handler is an operator from *)
(* the panel to the panel; the handlers that another one calls, or that    *)
(* moving the focus triggers, are applied in the order of the calls.       *)
(***************************************************************************)
EXTENDS SearchResults

CONSTANTS
  indexSections,  \* the filters from 0 on, each with the letters of its index
  Letters,        \* the characters that may be typed
  searchLabel,    \* what the field shows while it is not in use
  MaxLength,      \* bound: characters in the field
  MaxTimers       \* bound: timers that run although no variable holds them

ASSUME SearchAssumption ==
  /\ DOMAIN indexSections = 0 .. Cardinality(DOMAIN indexSections) - 1
  /\ MaxLength \in Nat /\ MaxTimers \in Nat
  /\ searchLabel \in Seq(STRING)
  /\ \A section \in DOMAIN indexSections :
       /\ indexSections[section] \in Seq(STRING)
       /\ \A k \in DOMAIN indexSections[section] :
            <<section, indexSections[section][k]>> \in DOMAIN searchData
  /\ \A page \in DOMAIN searchData :
       searchData[page] \in Seq([name : Seq(STRING), targets : Nat \ {0}])
  /\ NoMatches \in DOMAIN searchData /\ searchData[NoMatches] = <<>>

VARIABLES
  box,     \* the fields of the SearchBox and what its elements show; astray is history:
           \* whether, since the last search, the panel itself emptied the field under open
           \* results or stopped the timer of a search to open the menu
  frame,   \* the document in the frame of results
  focus,   \* the focused element
  held,    \* the key that is down
  mouse    \* whether the mouse is over the filter's icon or its menu

searchVars == <<box, frame, focus, held, mouse>>

Select == <<"select">>

SearchInit ==
  /\ box = [field |-> searchLabel, lastSearchValue |-> <<>>, lastResultsPage |-> NoPage,
            searchIndex |-> 0, bullet |-> 0, searchActive |-> FALSE,
            active |-> FALSE, results |-> FALSE, menu |-> FALSE,
            keyTimeout |-> FALSE, strayKeyTimers |-> 0,
            hideTimeout |-> FALSE, strayHideTimers |-> 0,
            loading |-> <<NoPage, <<>>>>, astray |-> FALSE]
  /\ frame = [page |-> NoPage, rows |-> <<>>, display |-> {}, open |-> {},
              lastKey |-> "none", repeatOn |-> FALSE]
  /\ focus = Nowhere
  /\ held = "none"
  /\ mouse = "away"

-----------------------------------------------------------------------------
(***************************************************************************)
(* Handlers.                                                               *)
(***************************************************************************)
\* searchValue in OnSearchFieldChange: all blanks are removed.
StripBlanks(s) ==
  LET kept[n \in 0 .. Len(s)] == IF n = 0 THEN <<>>
                                 ELSE IF s[n] = Blank THEN kept[n - 1]
                                 ELSE Append(kept[n - 1], s[n])
  IN  kept[Len(s)]

Activate(b, isActive) ==
  IF isActive \/ b.results
  THEN [b EXCEPT !.active = TRUE,
                 !.field = IF @ = searchLabel THEN <<>> ELSE @,
                 !.searchActive = @ \/ b.field = searchLabel,
                 !.astray = @ \/ (b.results /\ b.field = searchLabel)]
  ELSE [b EXCEPT !.active = FALSE, !.field = searchLabel, !.searchActive = FALSE,
                 !.lastSearchValue = <<>>, !.lastResultsPage = NoPage]

HideResults(b) == [b EXCEPT !.results = FALSE]

CloseResultsWindow(b) == Activate(HideResults(b), FALSE)

CloseSelectionWindow(b) == [b EXCEPT !.menu = FALSE]

keepHideTimer(b) == [b EXCEPT !.menu = TRUE]   \* mutant: does not stop the timer

OnSearchSelectShow(b) == [b EXCEPT !.menu = TRUE, !.hideTimeout = FALSE]

OnSearchSelectHide(b) ==
  [b EXCEPT !.hideTimeout = TRUE, !.strayHideTimers = @ + (IF b.hideTimeout THEN 1 ELSE 0)]

(***************************************************************************)
(* Search: the page is that of the first letter, or the first page of all  *)
(* if there is no letter, or the page without matches.  A timer that is    *)
(* still running is forgotten, not stopped.  A filter that does not exist  *)
(* makes it throw.                                                         *)
(***************************************************************************)
ResultsPage(section, searchValue) ==
  LET letters == indexSections[section]
      found == {k \in DOMAIN letters : searchValue = <<>> \/ letters[k] = searchValue[1]}
  IN  IF found = {} THEN NoMatches ELSE <<section, letters[Min(found)]>>

SearchThrows(b) == b.searchIndex \notin DOMAIN indexSections

SearchPanel(b) ==
  LET searchValue == StripLeading(b.field)
      forgotten == [b EXCEPT !.keyTimeout = FALSE,
                             !.strayKeyTimers = @ + (IF b.keyTimeout THEN 1 ELSE 0)]
      page == ResultsPage(b.searchIndex, searchValue)
  IN  IF SearchThrows(b) THEN forgotten
      ELSE [forgotten EXCEPT
              !.results = TRUE, !.lastSearchValue = searchValue, !.lastResultsPage = page,
              !.astray = FALSE,
              !.loading = <<page, IF page = NoMatches THEN <<>> ELSE searchValue>>]

SearchesOnSelect(b) == StripBlanks(b.field) # <<>> /\ b.searchActive

OnSelectItem(b, id) ==
  LET s == [b EXCEPT !.searchIndex = id, !.bullet = id]
  IN  IF SearchesOnSelect(s) THEN SearchPanel(s) ELSE s

(***************************************************************************)
(* OnSearchFieldChange after the keys that have a meaning of their own.    *)
(***************************************************************************)
StopKeyTimer(b) == [b EXCEPT !.keyTimeout = FALSE]

compareLength(b) ==   \* mutant: only the number of letters is compared
  CASE Len(StripBlanks(b.field)) = Len(b.lastSearchValue) -> b
    [] Len(StripBlanks(b.field)) # Len(b.lastSearchValue) /\ StripBlanks(b.field) # <<>> ->
         [b EXCEPT !.keyTimeout = TRUE]
    [] OTHER -> [HideResults(b) EXCEPT !.lastSearchValue = <<>>]

CompareValue(b) ==
  LET searchValue == StripBlanks(b.field)
  IN  CASE searchValue = b.lastSearchValue -> b
        [] searchValue # b.lastSearchValue /\ searchValue # <<>> ->
             [b EXCEPT !.keyTimeout = TRUE]
        [] OTHER -> [HideResults(b) EXCEPT !.lastSearchValue = <<>>]

FieldTarget(b, key) ==
  CASE key = "shift down" -> Select
    [] key = "escape" -> Nowhere
    [] key \in {"down", "enter"} /\ b.results /\ CanFocus(frame, NavNext(frame, 1)) ->
         NavNext(frame, 1)
    [] OTHER -> Field

OnSearchFieldChange(b, key) ==
  LET s == StopKeyTimer(b)
      left == IF FieldTarget(b, key) = Field THEN s ELSE Activate(s, FALSE)   \* the field's onblur
  IN  CASE key = "shift down" ->
             [Activate(OnSearchSelectShow(s), FALSE) EXCEPT !.astray = @ \/ b.keyTimeout]
        [] key = "escape" ->
             Activate([HideResults(left) EXCEPT !.lastSearchValue = <<>>], FALSE)
        [] OTHER -> CompareValue(left)

(***************************************************************************)
(* OnSearchSelectKey: after the arrow keys or the choice of a filter; an   *)
(* exception of Search leaves out what follows it.                         *)
(***************************************************************************)
OnSearchSelectKey(b, key) ==
  LET chosen == OnSelectItem(b, b.searchIndex)
  IN  CASE key = "down" /\ b.searchIndex < Cardinality(DOMAIN indexSections) ->
             OnSelectItem(b, b.searchIndex + 1)
        [] key = "up" /\ b.searchIndex > 0 -> OnSelectItem(b, b.searchIndex - 1)
        [] key \in {"enter", "escape"} ->
             IF SearchesOnSelect(b) /\ SearchThrows(b) THEN chosen
             ELSE Activate(CloseSelectionWindow(chosen), TRUE)
        [] OTHER -> b

SelectTarget(b, key) ==
  IF key \in {"enter", "escape"} /\ ~ (SearchesOnSelect(b) /\ SearchThrows(b)) THEN Field
  ELSE Select

-----------------------------------------------------------------------------
(***************************************************************************)
(* The user.  Moving the focus calls onblur and onfocus of the field.      *)
(***************************************************************************)
Refocus(b, to) ==
  CASE focus = Field /\ to # Field -> Activate(b, FALSE)
    [] focus # Field /\ to = Field -> Activate(b, TRUE)
    [] OTHER -> b

FieldKeys == {"down", "enter", "escape", "shift down"}
ArrowKeys == {"up", "down", "left", "right", "escape", "enter"}

(* Typing: the text changes when the key goes down, and again while it is  *)
(* held; the handler runs when the key comes up.                           *)
TypeInField ==
  /\ focus = Field
  /\ held \in {"none", "text"}
  /\ held' = "text"
  /\ \E text \in {Append(box.field, c) : c \in Letters \cup {Blank}}
                   \cup (IF box.field = <<>> THEN {} ELSE {Front(box.field)}) :
       /\ Len(text) <= MaxLength
       /\ box' = [box EXCEPT !.field = text]
  /\ UNCHANGED <<frame, focus, mouse>>

(* The other keys do nothing here before they come up.  One of them may    *)
(* have gone down in the results or in the menu.                           *)
ReleaseInField(key) ==
  /\ focus = Field
  /\ held = key \/ (held = "none" /\ key \in FieldKeys)
  /\ box' = OnSearchFieldChange(box, key)
  /\ focus' = FieldTarget(box, key)
  /\ held' = "none"
  /\ UNCHANGED <<frame, mouse>>

PressInSelect(key) ==
  /\ focus = Select
  /\ held \in {"none", key}
  /\ held' = key
  /\ box' = OnSearchSelectKey(box, key)
  /\ focus' = SelectTarget(box, key)
  /\ UNCHANGED <<frame, mouse>>

(* A key in the results: goes down, repeats while it is held, comes up.    *)
(* Enter on the link of a single target leaves the documentation's page.   *)
KeyInResults(type, key) ==
  LET i == focus[2]
      c == focus[3]
      target == NavTarget(frame, type, key, i, c)
      closed == IF target = Field /\ Acts(frame, type) /\
                   ProcessKeys(frame, type, key).lastKey = "escape"
                THEN CloseResultsWindow(box) ELSE box
  IN  /\ focus[1] = "item"
      /\ key = "enter" => c = 0 /\ frame.rows[i].children > 0
      /\ IF type = "keydown" THEN held \in {"none", key} ELSE held = key
      /\ held' = IF type = "keyup" THEN "none" ELSE key
      /\ frame' = NavDocument(frame, type, key, i, c)
      /\ focus' = IF target = Field \/ CanFocus(frame, target) THEN target ELSE focus
      /\ box' = IF target = Field THEN Activate(closed, TRUE) ELSE closed
      /\ UNCHANGED mouse

(* A key that comes up where no handler waits for it.                      *)
ReleaseElsewhere ==
  /\ focus \in {Nowhere, Select}
  /\ held # "none"
  /\ held' = "none"
  /\ UNCHANGED <<box, frame, focus, mouse>>

Click(to, handled) ==
  /\ held = "none"
  /\ focus' = to
  /\ box' = handled
  /\ UNCHANGED <<held, mouse>>

ClickField == Click(Field, Refocus(box, Field)) /\ UNCHANGED frame

ClickElsewhere == focus # Nowhere /\ Click(Nowhere, Refocus(box, Nowhere)) /\ UNCHANGED frame

ClickClose ==
  /\ box.results
  /\ Click(Nowhere, CloseResultsWindow(Refocus(box, Nowhere)))
  /\ UNCHANGED frame

ClickFilter(id) ==
  /\ box.menu
  /\ mouse = "over"
  /\ Click(Select, OnSelectItem(Refocus(box, Select), id))
  /\ UNCHANGED frame

ClickRow(i) ==
  /\ box.results
  /\ i \in frame.display
  /\ frame.rows[i].children > 0
  /\ Click(Item(i), Refocus(box, Item(i)))
  /\ frame' = Toggle(frame, i)

MouseOver ==
  /\ mouse = "away"
  /\ mouse' = "over"
  /\ box' = OnSearchSelectShow(box)
  /\ UNCHANGED <<frame, focus, held>>

MouseOut ==
  /\ mouse = "over"
  /\ mouse' = "away"
  /\ box' = OnSearchSelectHide(box)
  /\ UNCHANGED <<frame, focus, held>>

-----------------------------------------------------------------------------
(***************************************************************************)
(* The browser: timers that fire, and the page that has loaded.            *)
(***************************************************************************)
KeyTimerFires ==
  /\ \/ /\ box.keyTimeout
        /\ box' = SearchPanel([box EXCEPT !.keyTimeout = FALSE])
     \/ /\ box.strayKeyTimers > 0
        /\ box' = SearchPanel([box EXCEPT !.strayKeyTimers = @ - 1])
  /\ UNCHANGED <<frame, focus, held, mouse>>

HideTimerFires ==
  /\ \/ /\ box.hideTimeout
        /\ box' = CloseSelectionWindow([box EXCEPT !.hideTimeout = FALSE])
     \/ /\ box.strayHideTimers > 0
        /\ box' = CloseSelectionWindow([box EXCEPT !.strayHideTimers = @ - 1])
  /\ UNCHANGED <<frame, focus, held, mouse>>

PageLoads ==
  /\ box.loading[1] # NoPage
  /\ frame' = Document(box.loading[1], box.loading[2])
  /\ box' = [box EXCEPT !.loading = <<NoPage, <<>>>>]
  /\ focus' = IF focus[1] = "item" THEN Nowhere ELSE focus
  /\ UNCHANGED <<held, mouse>>

UserStep ==
  \/ TypeInField \/ ReleaseElsewhere
  \/ \E key \in FieldKeys \cup ArrowKeys \cup {"text"} : ReleaseInField(key)
  \/ \E key \in ArrowKeys : PressInSelect(key)
  \/ \E key \in ArrowKeys, type \in {"keydown", "keypress", "keyup"} : KeyInResults(type, key)
  \/ ClickField \/ ClickElsewhere \/ ClickClose
  \/ \E id \in DOMAIN indexSections : ClickFilter(id)
  \/ \E i \in DOMAIN frame.rows : ClickRow(i)
  \/ MouseOver \/ MouseOut

SearchNext ==
  /\ UserStep \/ KeyTimerFires \/ HideTimerFires \/ PageLoads
  /\ box'.strayKeyTimers <= MaxTimers

SearchSpec == SearchInit /\ [][SearchNext]_searchVars

-----------------------------------------------------------------------------
(***************************************************************************)
(* Properties.                                                             *)
(***************************************************************************)

\* Once the keyboard is at rest, no search is due and the frame has loaded, an open window shows
\* the results of what is in the field under the filter that is marked, however key events, timers,
\* filters and loading have overlapped.  It says nothing of a field that the panel has emptied or
\* filled with its label itself while a window was open or a timer running.
Question == StripBlanks(box.field)

AtRest == held = "none" /\ ~ box.keyTimeout /\ box.strayKeyTimers = 0 /\ box.loading[1] = NoPage

ShownAnswersTheField ==
  (AtRest /\ box.results /\ box.searchActive /\ Question # <<>>
     /\ ~ SearchThrows(box) /\ ~ box.astray) =>
    /\ StripBlanks(box.lastSearchValue) = Question
    /\ box.lastResultsPage = ResultsPage(box.bullet, StripLeading(box.field))
    /\ frame.page = box.lastResultsPage
    /\ frame.display = Search(frame.rows, box.lastSearchValue)

\* In the results, Up goes back to where the focus was before Down, whatever text has hidden rows
\* and whatever children are open.  Up takes the children of the row with the next lower number,
\* which is the one found before it because the rows that a search leaves are neighbours.
Positions ==
  {Item(i) : i \in frame.display}
    \cup UNION {{Child(i, c) : c \in 1 .. frame.rows[i].children} :
                  i \in frame.open \cap frame.display}

UpUndoesDown ==
  \A p \in Positions :
    LET q == Down(frame, p[2], p[3])
    IN  q \in Positions => Up(frame, q[2], q[3]) = p

\* The search finds exactly the names that begin with the text, blanks at its ends aside: escaping
\* the characters of both keeps what is a beginning of what.  Checked once, for short names.
Characters == {"d", "5"} \cup DOMAIN Escapes
Short == SeqOf(Characters, 3)

FindsWhatBeginsSo ==
  SearchInit => \A name, text \in Short :
                  Matches(convertToId(name), text) <=> IsPrefix(StripEnds(text), name)

\* The menu of filters is not closed under the mouse: only a key or a click does that.
MenuStaysOpen ==
  [][(mouse = "over" /\ mouse' = "over" /\ box.menu /\ ~ box'.menu) => held' # "none"]_searchVars
=============================================================================
