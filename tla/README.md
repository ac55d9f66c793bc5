# Formal models of the distributed-systems assignments

The repository holds four programs, one per assignment ("Termin"), and the viewer of the generated documentation of the
third. This directory models all five in TLA+, checks the models with TLC and proves central results about each
with TLAPS.

    tlc -config MCHBQ.cfg MCHBQ        a run (each .cfg below belongs to the module of the same prefix)
    tlapm HBQProofs.tla                the proofs of a module (QueueLemmas.tla holds lemmas of HBQProofs)

## 1. The system

### Termin 1 (`Abgabe - Termin 1/*.erl`): a message service

Editors write numbered texts, readers fetch them in the order of the numbers.

| part | state | operations | talks to |
|---|---|---|---|
| server (`server.erl`) | waiting for the HBQ / loop, latency timer | getmsgid, dropmessage, getmessages, latency timeout | number service, controller, HBQ (casts) |
| number service (`numberService.erl`) | next number | hand out a number, kill | client |
| controller (`controller.erl`) with CMEM (`cmem.erl`) | number each client gets next, with an expiry | getmessages, kill | HBQ (call), client |
| HBQ (`hbq.erl`) with DLQ (`dlq.erl`) | hold-back list with its length, delivery queue, expected number | initHBQ, pushHBQ, deliverMSG, dellHBQ | server, controller, client |
| client (`client.erl`) | phase, counter, sleep time, lifetime timer | write five messages, read until told there are no more | server |

What is hard: messages overtake each other and some never arrive, so the HBQ must decide when to stop waiting;
the hold-back list, its length, the DLQ and `Expected` are four copies of related facts; a read takes two
processes and the memory of a third, while other clients write; timers cancel messages that may already be in
a mailbox; the shutdown is a chain of messages. What makes it correct: every message is decided once and in order,
the hold-back list stays bounded, the DLQ is the window on the newest entries, readers neither skip nor repeat.

### Termin 2 (`Termin 2/*.erl`): a distributed gcd

A coordinator collects gcd processes, joins them in a ring, hands out multiples of a wished-for gcd and starts a
calculation; a process that gets a smaller value reduces its own and tells both neighbours; processes that have
been idle for two timeouts call a vote, and a vote with enough answers is reported as the end. What is hard:
neighbours calculate at the same time with values that are already replaced; nobody sees the end; timers are
"cancelled" with a value `timer:cancel` does not accept; a second calculation may start during the first; the
operator's commands arrive at any moment. `Termin 2/LLu` is an older draft.

### Termin 3 (`Termin 3/timeMux`, C++): a TDMA station

Stations share a multicast channel: a frame of one second is divided into slots, each station picks a free slot of
the next frame, notices collisions and gives up its slot. Parts: the station (`timux.cpp`: loop, message handler,
collision removal, slot choice), sorted lists (`linkedArray.hpp`), ring buffers (`ringBuffer.hpp`), a connection with sender
and receiver threads and one detached thread per message and callback (`network.cpp`, `callback.hpp`), UDP sockets.

| part | state | operations | talks to |
|---|---|---|---|
| station loop (`timux.cpp`) | own slot, slot announced, frame | wait for its slot, build and send, end the frame | channel, list |
| message list (`linkedArray.hpp`) | entries by time of receipt | put, removal of collisions | loop and callback threads |
| callback threads (`network.cpp`) | one message each | stamp it, compare the frame, lock, put | list |

What is hard: a callback thread compares the frame before it takes the lock, so that its message may be filed in
the next frame's list; messages get lost; two stations may join in the same slot; the list is not as sorted as its
note says, and collisions are looked for among neighbours. What makes it correct: a slot has one user, a collision
is over after a frame, and a station that must move finds a slot.

### The viewer of Termin 3's documentation (`Termin 3/doku/html`, `Termin 3/work/doku/html`, JavaScript)

The HTML documentation that is committed with Termin 3 runs scripts of its own. doxygen generated them; they are modelled
because they are event-driven programs with timers, asynchronous loading and state in several places, not because
the authors wrote them.

| part | state | operations | talks to |
|---|---|---|---|
| search panel (`search.js`, class `SearchBox`, wired up in `index.html`) | last value and page, marked filter, two timers, what is shown | keys and focus of the field, mouse and keys of the menu of filters, timers, search | the frame of results |
| results (`search.js`, `SearchResults`, `createResults`) | visible rows, open lists, last key | search among rows, arrow keys, toggling | the panel (its parent window) |
| navigation tree (`navtree.js`) | what is fetched, created, opened, selected; the link kept in the local storage | load, hashchange, clicks, opening and closing, synchronisation, callbacks of scripts | the browser's address and storage |

What is hard: key timers that are forgotten while they run, a page that loads while the user types on, a menu closed by
a timer that mouse movements stop, focus moves that trigger other handlers; scripts that arrive in any order and twice,
callbacks that share one set of breadcrumbs. What makes it correct: the window at rest answers what is in the field, arrow
keys undo each other, the menu stays open under the mouse, exactly the node of the address is selected.

No committed page includes `navtree.js` or calls `initNavTree`: the page around it is modelled from what
`initNavTree` reads (its events are external in the map).

### Termin 4 (`Termin 4/Abgabe/sourceCode`, Java): an object broker

| part | state | operations | talks to |
|---|---|---|---|
| `SpezialObjectBroker` | counter of request ids, map of responses, registered objects, pool of tasks | syncCall, asyncCall, getResponse, response, call, registerLocal | communication module, application |
| `Kommunikationsmodul` | map of sockets with what has been read of each, one listening thread | call, response, run | other brokers |
| `Decoder` | none | requests and responses to bytes and back | |
| name service (`NameServiceImpl`, `SimpleNameService`) | names and addresses | rebind, getService / resolve | server, clients |
| calculation server, client (`ServerSimple`, `ClientSimpleSpamer`) | | register a calculator; threads that resolve it and call it | |
| IDL compiler | | text generation | |

What is hard: request ids taken under a monitor that changes with each increment, answers after the timeout, a map
that one thread iterates over while others insert, messages split over several reads, values that cannot be
encoded or decoded, a name service that forgets everything when it is started again. What makes it correct: a method runs
at most once per call, an answer belongs to its call, a name that resolves is served, no caller waits for ever.

Every part, with its status, is also a row of `components` in PROJECT.json; every exposed line is a row of
`hazards`, with the properties that cover it or a note why none does.

## 2. Modules

| module | models | used by |
|---|---|---|
| `Queues` | the functions of `dlq.erl` and the list functions of `hbq.erl`, as operators in closed form | all modules of Termin 1 |
| `HBQClauses` | the recursive clauses of the same functions, as recursive functions, to compare the closed forms with | `MCHBQ`, `HBQProofs` |
| `OrderedDelivery` | what the HBQ promises, without queues: numbers are decided in order, given up only when patience ends | `HBQ`, by `INSTANCE ... WITH` |
| `HBQ` | the HBQ process that owns the DLQ | `MCHBQ`, `MessageService`, `HBQProofs` |
| `MessageService` | clients, server, number service, controller, CMEM around `HBQ` | `MCMessageService`, `ServiceProofs` |
| `GGT` | coordinator, ring and gcd processes of Termin 2 | `MCGGT`, `GGTProofs` |
| `TDMA` | the stations of Termin 3 and their channel | `MCTDMA`, `TDMAProofs` |
| `RemoteCall` | what the object broker promises: at most one execution, answers only after it, callers may give up | `Broker`, by `INSTANCE ... WITH` |
| `Broker` | the object broker in name service, calculation server and client | `MCBroker`, `BrokerProofs` |
| `SearchResults` | the page of results, as operators on its document | `SearchBox` |
| `SearchBox` | the search panel with the frame, its timers and the user | `MCSearchBox`, `SearchBoxProofs` |
| `NavTree` | the navigation tree beside a page | `MCNavTree`, `NavTreeProofs` |
| `QueueLemmas`, `HBQProofs`, `ServiceProofs`, `GGTProofs`, `TDMAProofs`, `BrokerProofs`, `SearchBoxProofs`, `NavTreeProofs` | lemmas and theorems (section 4) | |

### How the models correspond to the code

*HBQ.* `hbqState` is the function the process is in; `hbqSize` and `hbqList` are the tuple `{Size,List}`; `dlq` is
the DLQ's list, newest first, of which only the number and the mark of a closed gap are kept; `expected` is the
loop's argument. `arrived`, `discarded`, `released` and `gaps` are history. `pushHBQ(n)` is the whole handler: the
discarded number, the expected one with `tryToAppend`, or the insertion with `tryToCloseGap` (which stores one
marker and appends the run behind it). A message that reaches the process before `initHBQ` makes it call `start()`,
which cannot register the name again: `startupOther` crashes. `deliverMSG` reads only; `AnswersFitTheQueue`
evaluates it for every number.

*MessageService.* Erlang orders the messages between two processes only, so there is one queue per pair; a client
has one open request at a time and one mailbox. A handler is one action. The CMEM is called synchronously by the
controller and is a function from clients to numbers; `CMEMForgets` is an entry that has become too old.
`kill` distinguishes a latency message sent before the last reset of the timer ("stale") from one sent after it.
The halved sleep time is a float in Erlang, which `timer:sleep` rejects: `WakeUp` then crashes.

*GGT.* `phase` is the coordinator's function, `outbox` what it has still to send before it receives again,
`clientList` and `minMi` its arguments. A process has its `mailbox`, `neighbors`, `mi` (0 for the text "not set"),
`consense` and the number of `timers` that still run. Vote handlers are entries of `votes`. With `OneNode` the
mailbox is received in the order of arrival (on one node a message is in the mailbox when the send returns);
without it only the order of each sender is kept, which is what Erlang promises between nodes. The
name service is not in the repository: a lookup finds every living process, a multicast reaches all of them
some time after it was asked for (`Multicast`). The calculated delay (`timer:sleep`) is in the step that ends it:
the process receives nothing in between. Two faults of the committed text that keep the program from running at all are
passed over so that the algorithm can be studied: the stray comma in `koordinator.erl:94`, and the starter, which
hands on a pid where `tool:send` needs a name and so ends before it starts a gcd process (`StartProcess` is
`ggt_process:init`, called directly).

*TDMA.* The clocks of the stations agree within a quarter of a slot, so a slot is one step (`SlotPasses`): who has it
builds its package from its list, with `removeColisons` and `NextSlot` (`build`), sends, and a thread starts at every
receiver that the message reaches. `recived` is such a thread's put, which may come after the slot or, if the frame was
compared before it ended, in the next frame's list (`frameEnd` chooses which threads have compared). `index` is the time of receipt
in the list's unit, `put` the loop of `LinkedListArray` as it is. A first element of an empty list of free slots
is unset memory: any slot. `lost`, `late`, `joined`, `announced`, `garbage` are history. A foreign station obeys the same
protocol but is not this program.

*Broker.* A call goes through `pc`: `ReadMonitor`, `EnterMonitor` and `IncrementRequestID` are the three steps of
`synchronized (RequestID) { return RequestID++; }`, `call` and `Waiting` the send and the wait in `syncCall`, `TakeResponse` and
`NoResponse` its end. A message is two units on the `wire` of a connection and can be read in two parts into `baos`.
A listener accepts and makes an iterator (`AcceptAndIterate`), visits its sockets in any order (`Visit`: read, decode,
hand on) and fails when the map has changed (`IteratorFails`); decoding an answer of an unknown exception (`"foreign"`) ends it too,
as nothing in `run` catches it. A task runs the method (`Invoke`) and answers (`Respond`) unless the value cannot be encoded
(`"mute"`). `call` in a message names the call it belongs to and is not transmitted: the properties compare it.

*SearchBox, SearchResults.* The browser runs one handler at a time. A handler is an operator from the fields of the panel (`box`)
or the document (`frame`) to new ones; handlers that others call, or that moving the focus triggers, are applied in the
order of the calls. A key goes down, repeats, and up (`held`), since the results act on one and the field on the other; a
timer that is set anew without being stopped is counted in `strayKeyTimers`, `strayHideTimers`. Pages load at any time after
they were asked for (`loading`). Positions, sizes and the images of the panel are left out.

*NavTree.* A node is a model value with its children; `nav` is what the scripts have brought, which items exist, are
open or selected, and the breadcrumbs of the latest navigation (`o.breadcrumbs`, shared by all callbacks). `scripts` are those
on their way with what their callbacks do; one may be on its way twice. `breadcrumbs` holds the entries of each index file apart,
since `gotoNode` looks only in the file that `navTo` has chosen by the order of the addresses (`IndexFile`, `FileOf`); an address before the
first entry is looked up as the main page (`RootOf`, `navtree.js:445`). The events are load, hashchange, clicks on links
and on the arrows, the button for synchronisation, the arrival of a script and the end of a scroll.

## 3. Runs

Passing runs:

| run | instance | question |
|---|---|---|
| `hbq` | numbers 1..11 in every order, any of them missing, DLQ limit 9 | the HBQ's invariants, that it implements `OrderedDelivery`, and that the closed forms equal the code's clauses in every state |
| `service` | two clients, four numbers, limit 3, all timers, one CMEM expiry | `initHBQ` comes first; each step uses the HBQ as its module assumes (`UsesHBQ`); no reader skips or repeats a message |
| `service_stop` | two clients, two numbers, fair | a shutdown and a client's kill reach everybody |
| `service_read` | two clients, four numbers, one expiry, no timers, fair | a reader gets to the end |
| `ggt` | up to three processes, values 4, 12, 18, one node, every command at any moment | the gcd of the ring is kept, nobody gets a Y before its Mi, the end is stable, the coordinator knows the minimum |
| `ggt_ends` | three processes on several nodes, fair | values stay multiples even if messages overtake each other; the calculation ends |
| `ggt_votes` | two processes, values 2 and 6, timers | the end is reported, with a Mi of the end |
| `broker` | a client thread with two calls, answers that cannot be encoded or decoded, one restart of the name service | the broker implements `RemoteCall`, loses no request but by the restart, serves what it announces, and lets nobody wait for ever |
| `station` | two stations and a foreign one in three slots, one lost and two late messages | a slot has one user; a station that must move finds a slot |
| `search` | two filters, two pages, a label that can be typed, rows hidden before and behind those that are found | the window answers the field; Up undoes Down; the search finds what begins so; the menu stays open |
| `navtree` | four nodes, two of them on the page, one fetched; two index files, addresses that they do not hold | the place is selected; a synchronised tree keeps no link |

One run finds the code at variance with a test (it is the entry of `findings`):

| run | the code | the test |
|---|---|---|
| `broker_ids` | `getRequestID` locks the Integer that its increment replaces (`SpezialObjectBroker.java:21`): two threads of a client get one request id and each other's answers (`AnswersAreRight`) | ten threads each get the sums of their own operands (`ClientSimpleSpamer.java:28`, "wrong response") |

Five more counterexamples are kept as configurations to run by hand; TLC ends each with a violation:

| configuration | property | the code | what is said |
|---|---|---|---|
| `MCHBQ_gap.cfg` | `OnlyOldNumbersReplaced` | a lower number of a wide closed gap is answered with the oldest entry (`dlq.erl:72`) | only numbers below the smallest are (`dlq.erl:71`) |
| `MCMessageService_stale.cfg` | `OnlyIdleServerStops` | a latency message already in the mailbox shuts down a busy server | only if no new request arrived (`server.erl:95-97`) |
| `MCMessageService_down.cfg` | `ControllerEnds` | the controller waits for `{reply,down}` (`controller.erl:30`), the HBQ answers `{reply,ok}` (`hbq.erl:123`) | the whole system ends (`server.erl:86`) |
| `MCGGT_again.cfg` | `EndsAtMultiples` | a Y of the former calculation spoils the new one (`ggt_process.erl:44`) | calc starts a new calculation with the gcd wished for (`koordinator.erl:38-39`) |
| `MCTDMA_sorted.cfg` | `ListIsSorted` | `put` goes on while the index is *smaller* and so inserts an early message behind a late one (`linkedArray.hpp:98`) | the list is sorted by its index (`linkedArray.hpp:25`) |

Other observations are in the models as what the code does, without a run of their own, because a property could
only repeat one step:

* Termin 1: the clause for a number that is already held never applies (`hbq.erl:79`, "es wird ignoriert"; the numbers are
  unique, so it is never needed); a client whose sleep time has become a float crashes (`client.erl:44`, `WakeUp`).
* Termin 2: a calculation whose first Y all go to processes with smaller Mi is over at once (`ring.erl:66`); toggle crashes
  on a flag that the configuration gives as a number (`koordinator.erl:128`), and reset in the initial phase on swapped
  arguments (`koordinator.erl:139`). A vote that is counted while the ring is still calculating is no finding:
  `koordinator.erl:18` speaks of wrong messages of termination, and their correction is marked as open at line 197.
* Termin 3: with late callback threads a station can take its slot from an empty list of free slots, which the comment hopes
  to be impossible (`timux.cpp:146`, "sollte allerdings nie passieren können"); `MoveFindsSlot` says that it takes a late thread.
* Termin 4: an iteration that overlaps with a new connection ends the listener for good (`Kommunikationsmodul.java:175`); a call
  that could not be sent still waits for its timeout.
* Search panel: Shift+Down stops the timer of a search and opens the menu, so that search never happens; focusing a field whose
  text equals the label empties it under open results; `OnSearchSelectKey` goes one filter too far (`search.js:303`), and a search
  with a filter that does not exist throws (`SearchThrows`); key timers are overwritten without being stopped (`search.js:291`, `340`);
  of two rows with one id `FindChildElement` finds the first (`search.js:447`); Up looks for the children of the row with the next
  lower number and not of the row it has found (`search.js:628-639`), so it would stay or stop at a row's own link if hidden rows
  lay between two visible ones, which the order of the rows excludes.
* Navigation tree: overlapping navigations leave two nodes selected, since their callbacks share `o.breadcrumbs` (`navtree.js:364`)
  and the load handler unselects nothing (`513-516`); hashchange compares with the page's address although `navTo` goes to the
  link that was kept (`428-436`); an anchor that is not in the index selects its page's node only if it sorts into the index file
  that holds the page, else the first node (`415-416`), and the fallback to the index page never happens, because `$.extend`
  makes a list of nothing (`416-417`).

### Bounds, and why they suffice

* *hbq.* `DLQSize` is 9, so that the third of the limit is reached by three held numbers: runs of several numbers, gaps
  of one and of several, cut-off entries and every order of them occur with eleven numbers.
* *service.* A limit of 3 closes each gap at once and cuts entries off under the readers, the case in which a stale number
  in the CMEM could skip something; `service_read` has a limit of 4, with which messages are also held back.
  `MessagesPerCycle` is 1 instead of 5: the client writes and reads more often with the same numbers, and throws
  away every second number (every sixth in the code), so there are as many gaps as possible. `MaxNr`, `MaxForget` and
  `MaxCalcs` cap counters in guards; requests for numbers beyond the last one are not answered.
* *ggt.* Three gcd processes are the smallest ring in which the two neighbours differ; three different values with a gcd
  that is none of them give chains of reductions. `Wish` is 2, so that a lost factor shows. `MaxTimeouts` bounds how
  many timeouts and unsent votes exist at once (two: a timeout of one process while the vote of another is on its
  way); it does not bound how many there are in a run.
* *broker.* Two calls of one thread are enough for a late answer to meet a later call and for a restart between resolve
  and call; with the server's registration two programs talk to the name service at the same time. `broker_ids` needs
  two threads, and two calls of each: while both resolve the name the counter's old and new value are two monitors.
  A thread of the pool may take any time, so what a larger pool would do is covered.
* *station.* As many users as slots, the most the protocol allows; two stations of this program can collide, the foreign one
  shows what others announce. One lost message is enough to make a station give up a slot that others count on;
  with two late ones two messages of a frame can be filed in the next.
* *search.* The label can be typed, a name is the beginning of another and two rows share a name: the cases in which
  the panel confuses texts. The text "dd" leaves two rows of five, with hidden ones before and behind them. Two characters are enough to change a text to one of another page, longer, shorter or empty. At most one
  stray key timer runs (`MaxTimers`) beside the one that can be stopped; no bound is needed for the menu's, of which
  none is ever forgotten (section 4).
* *navtree.* A node on the way to the page's anchor is fetched, so that every navigation may have to wait; two index files
  let a navigation wait twice. Of the addresses one is no entry but its page is, in the same file; of one the file holds neither
  ("#z" sorts behind the anchor); one page sorts before everything. Two scripts on their way (`MaxScripts`) and one scroll (`MaxAnimations`) allow each overlap of two.

Symmetry is used for Termin 1's clients and Termin 2's processes, which no definition tells apart, and never in a run with a
liveness property. Deadlock is checked in `station`, `search` and `navtree`, where something can always happen; the other
programs may stop (shut down, everything read or called, operator idle).

### Fairness

`MessageService!Fairness` and `GGT!Fairness` ask for weak fairness of each process's receiving step: the Erlang scheduler
runs every process that has a message, and a mailbox is a queue, so no sender of the server waits for ever
(`WF` per client). Timers, the expiry of CMEM entries, the operator and the start of processes are free. In
`GGT` a timer that runs must fire, since `send_after` promises it. `ReadingEnds` is checked without timers, because a server
that shuts down or a client that is killed ends no reading; it exempts states in which a gap of several numbers has been
closed, where the counterexample of `MCHBQ_gap.cfg` sends readers back. `BrokerFairness` asks only that a client's
thread that can run does: its wait has a timeout, so `CallsEnd` needs nothing of listeners, pools or the other programs.

### What the properties say

Beside the type invariants: for the HBQ the order of the list, agreement of its four copies of the state, the
bound, a three-way partition of everything pushed (`NothingLost`), the window (`DLQWindow`), what each possible read
answers, and the refinement. For the service: that the HBQ sees each number once and `initHBQ` first, that readers
neither skip nor repeat, that shutdown, kill and reading come to an end. For the gcd: `MultiplesOfWish` and `GcdKept` together
say that no reduction, even with a value its sender no longer has, loses or invents a divisor; `NoGreaterNeighbor` says
that a silent ring has nothing left to do around a process that has calculated; `EndIsReported` that the two-stage votes,
in which a process that is asked too early stays silent, still end in a report.

For the broker: the refinement of `RemoteCall` (no second execution, no answer without one, no answer of another
call), as long as no two calls share a number, which `broker_ids` shows they can; `RequestsArrive` that reassembly and dying
listeners lose no request; `ResolvedIsServed` that the order in `rebind` suffices; `OnlyUntakenResponses` that the map keeps only
what nobody has taken. For the stations `OneUserOfASlot` speaks of runs in which nothing was lost or late: a station
cannot see what it did not get; `MoveFindsSlot` holds with losses. `ShownAnswersTheField` exempts what the user did not do
(`astray`: the panel emptied the field itself, or opening the menu stopped the timer of a search) and a filter that does
not exist; `SelectedIsPlace` exempts overlapping navigations (`overlap`). Both exemptions are observations above.

Each property has a mutant: a small change of one mapped definition, kept beside it and marked `mutant`, that a run
must reject.

## 4. Proofs

### The hold-back queue (`HBQProofs`, `QueueLemmas`)

The theorems are about `HBQSpec`, for every set `Nr` of positive numbers and every positive `DLQSize`
(`NrAssumption` in `HBQ`, and the assumption of `Queues`).

The invariants of section 3 are not inductive one by one: that the run appended to the DLQ is ascending needs the order of the list;
that `expected` equals the DLQ's own number needs that the entry at its head is the last one stored; that nothing is lost needs that
held numbers are beyond `expected`; that the counter is right needs nothing but itself, and the bound needs both. The inductive
invariant is their conjunction

    IInv == HBQTypeOK /\ HeldAscending /\ ExpectedFromDLQ /\ HoldBackBounded /\ NothingLost /\ Decided /\ StartupEmpty

where `Decided` adds that every number that was discarded, stored or given up is below `expected`,
and `StartupEmpty` that the process has nothing before `initHBQ`. `IInvInit` and `IInvNext` prove it step by step: an
effect lemma for each branch of a push (expected, held, held and gap closed) says what the new state is in terms of sets and orders,
a step lemma derives each conjunct from it. `QueueLemmas` holds the facts about the operators: a run and the rest split an
ascending list, insertion keeps it ascending, cutting keeps the newest, the stored numbers are the union of the old and the new.

| theorem | statement |
|---|---|
| `TypeCorrect` | `HBQSpec => []HBQTypeOK` |
| `ListStaysAscending` | `HBQSpec => []HeldAscending` |
| `ExpectedAgreesWithDLQ` | `HBQSpec => []ExpectedFromDLQ` |
| `HoldBackStaysBounded` | `HBQSpec => []HoldBackBounded` |
| `NothingIsLost` | `HBQSpec => []NothingLost` |
| `DLQIsWindow` | `HBQSpec => []DLQWindow`, inductive relative to `IInv` |
| `AnswersFit` | `HBQSpec => []AnswersFitTheQueue`: a lemma about the walk through a descending queue, applied to the window |
| `ImplementsOrderedDelivery` | `HBQSpec => DeliversInOrder`: each step is an `Accept` of `OrderedDelivery` or a stutter |
| `ClosedFormsAgree` | `HBQSpec => []ClausesAgree`: in every state the closed forms compute what the clauses of the code compute |

All of these reason about the closed forms of `Queues`; `ClosedFormsAgree` is what ties them to the code's recursion. `HBQClauses`
writes the clauses as recursive functions (`Cut`, `Insert`, `TryToAppend`, `Walk`) of the argument that gets smaller. For each of them
one lemma says that the closed form satisfies the clauses (`CutStep`, `InsertStep`, `RunStep` with `AppendGoesOn`, `WalkStep`), so a function
that satisfies them exists and the recursive definition denotes one (`CutDef`, ...); a second says that it has the
closed form's value, by induction on the length (`CutAgrees`, ...). The code cuts the queue after every push and the model once after
all of a run: `CutTwice` shows that this is the same, `RunIsTryToAppend` that it also is if nothing is pushed, because a queue
is never longer than its limit (from `DLQWindow`).

### The message service (`ServiceProofs`)

For every set of clients, every number of messages, every `MessagesPerCycle` and every limit of the DLQ, with timers firing
or not (`MessageServiceAssumption`). The inductive invariant is

    ServiceInv == IInv /\ DLQWindow /\ ClientTypes /\ OtherTypes /\ StartInv /\ EachOnce /\ ControllerInv /\ ReaderInv

`HBQ` assumes that no number is pushed twice. `EachOnce` is why nobody in the service does: a number handed out is in one
place, a mailbox, a sleeping client, a request to the server, a request to the HBQ, or it has arrived. `ControllerInv` says that
the controller asks one thing at a time, with the number the CMEM still has when the answer comes; so `ReaderInv` can
say, for every moment of a read, which number a client gets next, that this is not beyond the expected number, and that the
client has got whatever is older and still in the DLQ. `IInv` and `DLQWindow` are carried along because what a read answers
depends on the window. Since `ServiceUsesHBQ` makes a behaviour of the service one of `HBQSpec`, all theorems of `HBQProofs`
hold in it; `ServiceDeliversInOrder` is the example.

| theorem | statement |
|---|---|
| `ServiceUsesHBQ` | `Spec => UsesHBQ` |
| `ServiceDeliversInOrder` | `Spec => DeliversInOrder` |
| `ServiceTypeCorrect` | `Spec => []ServiceTypeOK` |
| `InitComesFirst` | `Spec => []InitBeforeRequests` |
| `ReadersSkipNothing` | `Spec => []NothingSkipped` |
| `ReadersRepeatNothing` | `Spec => NoMessageTwice` |

### The distributed gcd (`GGTProofs`)

For every set of processes (not only the three of the runs), every `Factor`, quota, number of calculations and resets, and every
order of messages (`GGTAssumption`). Types and multiples are one argument: `ValuesIn(V)` says that everything that is or
becomes a value (`mi`, `minMi`, the numbers in messages, in the coordinator's outbox and in votes) belongs to V; it is
inductive whenever V is closed (`Closed(V)`: it has every product of a wish and a factor, and `((m - 1) % y) + 1` does not leave
it). It also needs that the client list has no process twice and that greetings come from processes not in it, so that
`step` builds its ring from a permutation. The positive numbers are closed, and so are the multiples of w if w is the only wish:
`a*w - 1 = q*(b*w) + r` makes `r + 1` the multiple `a - q*b` of w.

*The end is reported*, in any order of the messages too. `VoteInv` remembers three things of the past: for each process the vote it has
started since its last value (`own`), who has answered that vote (`got`) and when the name service sent it out (`rank`).

    VoteInv == \E own, got, rank, last : History(...) /\ TimersRun(own) /\ OwnVotes(own, got) /\ VotesReach(own, got, rank)

A process with a Mi and no vote of its own still has a timer or a timeout to come; a vote and its answers never count to more than the
quota; and a vote has been answered by, or waits at, every process whose own vote was sent out no later. So when nothing is left to
receive, the vote that was sent out last has an answer from the whole ring, although earlier ones may have been left unanswered by
processes without Consense. `ReadyInv` is why nobody of the ring is missing: while the coordinator is at work none is killed, and one
that was ended by a Y has no Mi. The condition is that the quota is no more than the ring: the coordinator computes it from the
processes started so far (`koordinator.erl:115`), but `step` does not wait for their hello.

The rest is about one node (`OneNode`), where a mailbox is received in the order of sending.

*The order of messages.* That no Y comes too early is an order kept by three queues in a row: the coordinator's outbox, the mailbox of
a process and the mailboxes of its neighbours. `OrderInv` has four parts. `OutboxInv`: the outbox has neighbours, or values, never
both, and each new Mi before each Y. `LinksInv`: who works with values knows two neighbours or has them waiting in its mailbox, a newcomer
has no value and is nobody's neighbour, and neighbours are in the ring together or not at all. `MailOK`: in a mailbox nothing of value is
before the neighbours, and a Y only behind a Mi, unless there is one already. `StageInv`: when the first value is sent all have
their neighbours, and when the first Y is received all have their Mi or have it waiting, also in a ring that an earlier
coordinator has left. The proof has a lemma per action (`SendNextOrder`, `ReceiveSendyOrder`, ...) on top of facts about what a
step does to a mailbox: it drops its first message (`Drops`) or gets some at its end (`Grows`).

*The calculation.* `CalcInv` speaks of the value each process has or is going to have (`Value`):

    CalcInv == Calculating => OneValue /\ StaleInv /\ MinInv /\ ToldInv /\ WishInv

A Y may be a value that its sender no longer has, so that it is no value of the ring. `StaleInv` says why it does no harm: whatever
divides all values up to it divides it as well. With y < m, the divisors of m and y are those of y and ((m - 1) % y) + 1
(`SameDivisors`), so a reduction changes no common divisor. `ToldInv`: a neighbour of a process that has reduced its Mi is no
greater, or has a value that is no greater before it. `MinInv`: among what the coordinator knows and the briefs on their way is
something at most as great as each value, and nothing smaller than all. `WorkInv` is why none of this is lost with a killed process: as
long as the coordinator is at work no kill is on its way into its ring.

`OneValue` needs that a calculation starts when no value of the last one is on its way (`AtRest`). The program leaves that to
the operator, so it is a condition of the theorems, `CalcsFromRest == [][calcs' # calcs => AtRest]_vars`. Without it they are
false: `MCGGT_again.cfg` is the counterexample. It is not needed for one calculation (`FirstCalcFromRest`: before it there are no
values at all, which is `ValuesIn({})`), the case of the runs.

| theorem | statement |
|---|---|
| `GGTTypeCorrect` | `Spec => []GGTTypeOK` |
| `MultiplesStay` | `Wish = {w}` implies `Spec => []MultiplesOfWish` |
| `EndIsKnown` | `Spec => [](Quota <= Cardinality(Ring) => EndIsReported)` |
| `EndIsKnownByTwo` | `Quota <= 2` implies `Spec => []EndIsReported` |
| `SetpmIsFirst` | `Spec => []SetpmComesFirst` |
| `NoNeighborIsGreater` | `OneNode` implies `Spec /\ CalcsFromRest => []NoGreaterNeighbor` |
| `MinimumIsKnown` | `OneNode` implies `Spec /\ CalcsFromRest => []MinMiIsMinimum` |
| `EndsHaveTheWish` | `OneNode` implies `Spec /\ CalcsFromRest => []EndsAtMultiples` |
| `GcdIsKept` | `OneNode` implies `Spec /\ CalcsFromRest => GcdKept` |
| `FirstCalcFromRest` | `MaxCalcs <= 1` implies `Spec => CalcsFromRest` |
| `OneCalculation` | `OneNode` and `MaxCalcs <= 1` imply `Spec =>` the four properties above |

The premise of `MultiplesStay` is needed: with two wishes a process may still have a value of the former calculation.

### The stations (`TDMAProofs`)

For every set of stations of this program and of others, every number of slots that is enough for them and every order in which
the messages of a slot are received (`TDMAAssumption`; no two of them come at one instant).

    TDMAInv == Types /\ HeardInTime /\ RingInv

`HeardInTime` is about runs in which no message was late, though some may be lost. `put` stops in odd places, but then the list is
still grouped by slots (`Tidy`), so that looking for collisions among neighbours finds all of them, and what `build`
takes for used are the announcements of those that were heard alone in their slot. Those are fewer than the slots that have
passed, so one is free. `RingInv` adds that nothing was lost: all stations have heard the same, who was heard alone owns the slot it
announced, owners have different slots, and who joins takes a slot that nobody owns. It speaks of owners by what was heard and not by
who has a slot, because at the end of a frame the stations switch one after the other.

| theorem | statement |
|---|---|
| `SlotsHaveOneUser` | `TDMASpec => []OneUserOfASlot` |
| `MovesFindSlots` | `TDMASpec => []MoveFindsSlot` |

### The object broker (`BrokerProofs`)

For every set of client threads, every number of calls and of restarts (`BrokerAssumption`).

| theorem | statement |
|---|---|
| `BrokerTypeCorrect` | `BrokerSpec => []BrokerTypeOK` |
| `ResolvedNamesAreServed` | `BrokerSpec => []ResolvedIsServed` |
| `RequestsDoArrive` | `BrokerSpec => []RequestsArrive` |
| `BrokerIsRemoteCall` | `BrokerSpec /\ []NumbersApart => ImplementsRemoteCall` |
| `MapsHoldUntaken` | `BrokerSpec /\ []NumbersApart => []OnlyUntakenResponses` |
| `AnswersAreOwn` | `BrokerSpec /\ []NumbersApart => []AnswersAreRight` |
| `OneCallerIsRemoteCall` | `OneCaller` implies `BrokerSpec => ImplementsRemoteCall` |
| `OneCallerMapsUntaken` | `OneCaller` implies `BrokerSpec => []OnlyUntakenResponses` |

`TypeInv` types what `BrokerTypeOK` leaves open: every unit on a wire or half read is one of a request or a response, and
every task belongs to a connection of its broker. `ResolvedIsServed` is not inductive: a name comes from a task, which came from
bytes, which came from a thread. `ServedInv` says of each of these places that what speaks of the calculator (a rebind, an
address as an answer, a resolved reference, a request for it) is there only after `registerLocal`, and a registration is never undone.

The other theorems follow a call through all places it can be in:

    RunInv == TypeInv /\ FlowInv /\ CallsInv /\ OneTokenInv /\ ExecutionInv /\ ArriveInv

`FlowInv`: what was read of a connection and what is still on its wire are together whole messages, in the right direction, and only a
restart of the name service ends a connection. `OneTokenInv`: a call is in one place at a time, as units of one message, a task or a
response. `ExecutionInv`: it is a request until the method has run and a response afterwards, so the method runs once.
`ArriveInv` is `RequestsArrive` with the places spelled out.

Numbers need a condition. `getRequestID` locks the object that its increment replaces, so that two threads of one program can be
inside; `NumbersApart` says that they are not. Then the numbers on their way are different and below the next one
(`NumbersInv`), an answer found under a number is the answer of the call that has it (`TakenFits`), and each step is one of
`RemoteCall` or a stutter. `AnswersAreOwn` is the property that `broker_ids` violates: the monitor is the only reason. One calling
thread (`OneCaller`) meets the condition, the case of run `broker`.

### The documentation viewer (`SearchBoxProofs`, `NavTreeProofs`)

For every index, label, text and number of timers, and for every tree and index. `SearchAssumption` says that names, labels and index
entries are texts and that each entry of the index has its page of results; `EscapesAssumption` that no code of an
escaped character is the beginning of another and that each begins with a character that is escaped itself (`_` and two digits,
`search.js:34-57`). `SortedAssumption` says that rows whose ids begin alike are neighbours, as they are in every page of
`doku/html/search/`, which Doxygen sorts by id. `DataAssumption` is about what Doxygen generates for the tree: breadcrumbs
lead through nodes that exist (where they do not,
`showNode` stops without a selection or throws, `navtree.js:362-366`); the file in which the address of an anchor of this page is looked up leads
to the anchor's node; and a link to another page has no hash that is an anchor here, since `selectAndHighlight` looks for the hash on this page (`navtree.js:322-325`)
wherever the link leads. `MCNavTree` fulfils it, and so does the tree that is committed (one page, two addresses).

| theorem | statement |
|---|---|
| `ResultsAnswerTheField` | `SearchSpec => []ShownAnswersTheField` |
| `UpGoesBack` | `SearchSpec => []UpUndoesDown` |
| `SearchFindsWhatBegins` | for all texts: the search finds a name exactly if it begins with the text, blanks at its ends aside |
| `SearchFinds` | `SearchSpec => []FindsWhatBeginsSo`, the same for the names of the run |
| `MenuIsKept` | `SearchSpec => MenuStaysOpen` |
| `PlaceIsSelected` | `NavSpec => []SelectedIsPlace` |
| `SyncedKeepsNoLink` | `NavSpec => []SyncKeepsNoLink` |

The inductive invariant of the panel with its frame is

    ShownInv == /\ Good(box, frame)
                /\ held # "text" => Compared(box)
                /\ held = "text" => focus = Field
                /\ FrameOK(frame)
                /\ focus[1] = "item" => focus[2] \in DOMAIN frame.rows

`Good` says that the marked filter is the one searched with, that the page of an open window belongs to the last search (`Fits`), and
that the frame shows that search or still loads it (`Loads`). `Compared` says that the last search was for what is in the field, or
that a timer is due that will compare them; between the key that changes the field and its handler (`held = "text"`) it does not hold. The
property needs both, since a handler compares the field with the last value and not with what the frame shows. Most handlers do not search:
they are shown `Calm` (what they leave open they leave as it was) or `Steady` (the timer too), which is transitive, so a handler
that calls others needs one line for each. `FrameOK`: a list of children is open only at a row that has children and is the first of its id; that
makes Up find the way back when two rows have one id, where `FindChildElement` finds the first. And the rows on display are
neighbours (`SearchLeavesNeighbours`, from `SortedAssumption`): the row before one is then the row that Up looks for the children of.

What the panel compares are texts without blanks, so the proof needs that two functions on texts of any length agree: `StripBlanks` is
a recursive function of the position, for which `StripBlanksProperties` is proved by induction (`Induction`: a set of numbers that has 0
and the successor of each is all of them). The same way `IdsBeginAlike` shows that the identifiers of two names begin alike exactly
if the names do: at the first place where the names differ their codes do, and neither code is the beginning of the other.

`MenuStaysOpen` needs `MenuInv`: the menu's timer is never forgotten (`strayHideTimers` stays 0, unlike the field's) and does not
run while the mouse is over the menu; then only keys and clicks can close it. Each handler is shown to start no such
timer and, where it matters, to leave the menu open. `SyncKeepsNoLink` is inductive as it is; every action that stores a
link tests `sync` first, and switching it on deletes the link.

*The place is selected.* The inductive invariant of the tree is

    NavInv == IsTree(nav) /\ IsQueue(scripts) /\ LinkInv /\ PlaceInv /\ GoesInv
    GoesInv == place # NoLink /\ ~ overlap => GoesTo(nav, scripts, place)

`GoesTo` says that at most one navigation is under way and that its script `LeadsTo` the place: it carries the place's hash, the
breadcrumbs are still the place's, and its node is the one at its index of the way from the root. No node but the place's is selected
meanwhile, and it is selected when no navigation is left. `SelectedIsPlace` alone is not inductive: it says nothing while
a script is awaited, and the callback goes on with an index into breadcrumbs that any other navigation may have replaced. `PlaceInv` adds that
nothing is open or awaited before the first navigation, and with `LinkInv` that an address of another page never has an anchor's hash of this
one, kept links included. When a script comes, `showNode` begins in the middle of the way: `RestOfWay` shows, by induction over the breadcrumbs,
that what is left of a way is the way of what is left of its breadcrumbs, so that a navigation that stopped at several scripts, or came to
one twice, ends where an undisturbed one does. `ShowNodeAdvances` then has two cases: the end of the way, where exactly the place's node is selected,
and a stop, where the new script leads to the place. Scripts that only open a node change neither breadcrumbs nor selection. `Way` is
a recursive function, of which `WayProperties` shows that it exists for breadcrumbs of any length.

### Only model-checked

* All liveness (`CalculationEnds`, `CallsEnd`, `ReadingEnds`, `ShutdownReachesAll`, `KillObeyed`): fairness and ENABLED
  are outside the prover's reach.

## 5. Not modelled, and why

* Logging, configuration files, time stamps and texts: no property depends on them.
* Termin 1: the server's trash can and handlers of messages nobody sends.
* Termin 2: `getsteeringval` and the quota computed from it (`Quota` is a constant), `nudge`, and `prompt` and `briefterm`, which the
  coordinator only logs; `tellmi` and `pingGGT`, which change nothing. The starter, for the reason in section 2. `LLu` is an
  older draft.
* Termin 3: the ring buffers of `ringBuffer.hpp` carry nothing in this program: the station locks the outgoing one for ever
  (`timux.cpp:91`) and sends past it with `raw()` (`172`), nothing is put into the incoming one, and `tryPut` (63-75) would not
  compile if it were instantiated. `LinkedListArray::get` is never called. The offset of the clock and its
  synchronisation: the stations' clocks are taken to agree within a quarter of a slot. The data of the packages, and with it
  what a late thread reads from memory the receiver has freed (`network.cpp:148`): a late thread puts the content of its own
  message. UDP sockets, `bcServer` and hand-run tests.
* Viewer: `dynsections.js` and `resize.js` (single handlers that show, hide and measure), jquery (vendored); positions and sizes;
  scrolling of the tree, glow effects, links to other pages (they leave the page), scripts that fail to load, a
  second page on the same storage.
* Termin 4: `shutDown` (the programs end with it), refused connections, sockets that this side has closed (it closes none), the
  bytes of values (NaN and the like), the stack of `UpnCalcImpl` (a sequential class of a few lines), the IDL compiler
  (sequential text generation).

## 6. What is left

* The data races of the calculator's stack and of late threads in Termin 3, if the data of packages were modelled.
* Proofs: every invariant that a passing run checks is a theorem; of the temporal properties only liveness is left to TLC.
