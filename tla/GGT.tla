-------------------------------- MODULE GGT --------------------------------
(***************************************************************************)
(* The distributed gcd of assignment 2: a coordinator (koordinator.erl,    *)
(* ring.erl, clientList.erl) that collects gcd processes, joins them in a  *)
(* ring and starts calculations, and the gcd processes (ggt_process.erl)   *)
(* with their timers and votes.                                            *)
(*                                                                         *)
(* A mailbox is a sequence of messages with their senders.  Erlang keeps   *)
(* the order of the messages of one sender only; on a single node the      *)
(* order of sending is the order of arrival, so OneNode decides whether a  *)
(* process takes the first message or the first one of any sender.         *)
(*                                                                         *)
(* A timer may fire at any moment.  timer:cancel is called with the pair   *)
(* {ok,TRef} that send_after returned, for which it does nothing: a        *)
(* process has as many timers running as it has started.                   *)
(*                                                                         *)
(* The name service is not part of the repository: a lookup finds every    *)
(* process that has not been killed, and a vote is sent to all of these.   *)
(*                                                                         *)
(* The coordinator sends one message after the other.  A process sends to  *)
(* its two neighbors in one step: with at most three processes no other    *)
(* one has both as its neighbors and could tell the difference.            *)
(***************************************************************************)
EXTENDS Integers, Sequences, FiniteSetsExt, SequencesExt

CONSTANTS
  Process,     \* the gcd processes
  Quota,       \* ProcessCountNeeded: votes that end a calculation
  Wish,        \* the gcds an operator may wish for
  Factor,      \* the products of prime powers that bestimme_mis may draw
  Command,     \* the commands that the operator gives to the coordinator
  MaxCalcs,    \* bound: calculations started
  OneNode,     \* whether all processes run on one Erlang node
  MaxTimeouts  \* bound: timeouts and votes waiting at a time, 0 if no timer fires

ASSUME GGTAssumption ==
  /\ Quota \in Nat \ {0} /\ MaxCalcs \in Nat
  /\ Wish \subseteq Nat \ {0} /\ Factor \subseteq Nat \ {0}
  /\ OneNode \in BOOLEAN /\ MaxTimeouts \in Nat

VARIABLES
  phase,       \* coordinator: "init", "calc", "resetting", "down", "crashed"
  clientList,  \* coordinator: the processes that have said hello, newest first
  minMi,       \* coordinator: the smallest Mi it knows of, 0 for none
  outbox,      \* coordinator: what it has still to send before its next receive
  wish,        \* the gcd wished for in the last calculation, 0 for none
  calcs,       \* calculations started (bounds the model)
  greetings,   \* processes whose hello is on its way
  briefs,      \* values of the briefmi messages on their way
  state,       \* process: "new", "work", "dead", "crashed"
  neighbors,   \* process: <<left, right>>, << >> if not set
  mi,          \* process: Mi, 0 if not set
  consense,    \* process: Consense
  timers,      \* process: how many timers run
  mailbox,     \* process: its mailbox
  votes,       \* the vote handlers, in the order of their start
  calculated   \* history: processes that have reduced their Mi since setpm

coordVars == <<phase, clientList, minMi, outbox, wish, calcs>>
procVars == <<state, neighbors, mi, consense, timers, calculated>>
vars == <<coordVars, greetings, briefs, procVars, mailbox, votes>>

Coordinator == "coordinator"
NameService == "nameservice"
Timer == "timer"

Message(from, type, nr, ring) == [from |-> from, type |-> type, nr |-> nr, ring |-> ring]
setneighbors(left, right) == Message(Coordinator, "setneighbors", 0, <<left, right>>)
setpm(n) == Message(Coordinator, "setpm", n, << >>)
sendy(from, y) == Message(from, "sendy", y, << >>)
kill == Message(Coordinator, "kill", 0, << >>)
vote(handler) == Message(NameService, "vote", handler, << >>)
timeout == Message(Timer, "timeout", 0, << >>)

Init ==
  /\ phase = "init" /\ clientList = << >> /\ minMi = 0 /\ outbox = << >>
  /\ wish = 0 /\ calcs = 0
  /\ greetings = {} /\ briefs = {} /\ votes = << >> /\ calculated = {}
  /\ state = [p \in Process |-> "new"]
  /\ neighbors = [p \in Process |-> << >>]
  /\ mi = [p \in Process |-> 0]
  /\ consense = [p \in Process |-> FALSE]
  /\ timers = [p \in Process |-> 0]
  /\ mailbox = [p \in Process |-> << >>]

(***************************************************************************)
(* tool:send: out[q] goes to the end of q's mailbox, unless q is gone.     *)
(***************************************************************************)
Send(box, out) ==
  mailbox' = [q \in Process |-> IF state[q] = "work" THEN box[q] \o out[q] ELSE box[q]]

-----------------------------------------------------------------------------
(***************************************************************************)
(* The coordinator, which receives its next message when it has sent all   *)
(* that the last one made it send.                                         *)
(***************************************************************************)
Ring == {clientList[i] : i \in DOMAIN clientList}

Receiving(phases) == phase \in phases /\ outbox = << >>

SendNext ==
  /\ outbox # << >>
  /\ outbox' = Tail(outbox)
  /\ Send(mailbox, [q \in Process |->
       IF Head(outbox).to = q THEN <<Head(outbox).message>> ELSE << >>])
  /\ UNCHANGED <<phase, clientList, minMi, wish, calcs, greetings, briefs, procVars, votes>>

(***************************************************************************)
(* A process that says hello after the initial phase is ignored.           *)
(***************************************************************************)
Hello(p) ==
  /\ p \in greetings /\ Receiving({"init", "calc"})
  /\ greetings' = greetings \ {p}
  /\ clientList' = IF phase = "init" THEN <<p>> \o clientList ELSE clientList
  /\ UNCHANGED <<phase, minMi, outbox, wish, calcs, briefs, procVars, mailbox, votes>>

(***************************************************************************)
(* step: the processes are shuffled and told their neighbors, the inner    *)
(* ones first.  A ring of fewer than two processes does not match          *)
(* constructRing's pattern and the coordinator crashes.                    *)
(***************************************************************************)
Neighborhood(ring, i) ==
  LET n == Len(ring)
  IN  [to |-> ring[i],
       message |-> setneighbors(ring[IF i = 1 THEN n ELSE i - 1], ring[IF i = n THEN 1 ELSE i + 1])]

Step ==
  /\ "step" \in Command /\ Receiving({"init"})
  /\ LET n == Len(clientList)
     IN  \/ n < 2 /\ phase' = "crashed" /\ UNCHANGED outbox
         \/ /\ n >= 2
            /\ phase' = "calc"
            /\ \E ring \in SetToSeqs(Ring) :
                 outbox' = [i \in 1..n - 2 |-> Neighborhood(ring, i + 1)]
                             \o <<Neighborhood(ring, 1), Neighborhood(ring, n)>>
  /\ UNCHANGED <<clientList, minMi, wish, calcs, greetings, briefs, procVars, mailbox, votes>>

(***************************************************************************)
(* calc: different multiples of w go to the processes as their Mi; the     *)
(* first values are sent once more, as Y, to processes chosen at random.   *)
(***************************************************************************)
HowManny(n) == Max({2, (2 * n + 5) \div 10})

CalcStartFirst(w) ==   \* mutant: the Y are sent before the Mi
  /\ "calc" \in Command /\ Receiving({"calc"}) /\ calcs < MaxCalcs
  /\ calcs' = calcs + 1
  /\ wish' = w
  /\ LET n == Len(clientList)
     IN  \E factor \in Injection(1..n, Factor),
            started \in Injection(1..HowManny(n), Ring) :
           /\ minMi' = Min({w * factor[i] : i \in 1..n})
           /\ outbox' =
                [i \in 1..HowManny(n) |->
                  [to |-> started[i], message |-> sendy(Coordinator, w * factor[i])]]
                \o [i \in 1..n |-> [to |-> clientList[i], message |-> setpm(w * factor[i])]]
  /\ UNCHANGED <<phase, clientList, greetings, briefs, procVars, mailbox, votes>>

Calc(w) ==
  /\ "calc" \in Command /\ Receiving({"calc"}) /\ calcs < MaxCalcs
  /\ calcs' = calcs + 1
  /\ wish' = w
  /\ LET n == Len(clientList)
     IN  \E factor \in Injection(1..n, Factor),
            started \in Injection(1..HowManny(n), Ring) :
           /\ minMi' = Min({w * factor[i] : i \in 1..n})
           /\ outbox' =
                [i \in 1..n |-> [to |-> clientList[i], message |-> setpm(w * factor[i])]]
                \o [i \in 1..HowManny(n) |->
                      [to |-> started[i], message |-> sendy(Coordinator, w * factor[i])]]
  /\ UNCHANGED <<phase, clientList, greetings, briefs, procVars, mailbox, votes>>

GreatestMi(v) ==   \* mutant: keeps the greater Mi
  /\ v \in briefs /\ Receiving({"init", "calc"})
  /\ briefs' = briefs \ {v}
  /\ minMi' = IF phase = "calc" /\ minMi < v THEN v ELSE minMi
  /\ UNCHANGED <<phase, clientList, outbox, wish, calcs, greetings, procVars, mailbox, votes>>

BriefMi(v) ==
  /\ v \in briefs /\ Receiving({"init", "calc"})
  /\ briefs' = briefs \ {v}
  /\ minMi' = IF phase = "calc" /\ (minMi = 0 \/ minMi > v) THEN v ELSE minMi
  /\ UNCHANGED <<phase, clientList, outbox, wish, calcs, greetings, procVars, mailbox, votes>>

(***************************************************************************)
(* toggle: the flag is a number in koordinator.cfg, for which not(...)     *)
(* raises an exception.                                                    *)
(***************************************************************************)
Toggle ==
  /\ "toggle" \in Command /\ Receiving({"init", "calc"})
  /\ phase' = "crashed"
  /\ UNCHANGED <<clientList, minMi, outbox, wish, calcs>>
  /\ UNCHANGED <<greetings, briefs, procVars, mailbox, votes>>

(***************************************************************************)
(* reset: the processes are killed and a new coordinator starts.  In the   *)
(* initial phase the arguments are in the wrong order: the first message   *)
(* to be sent, through a name service called init, raises an exception.    *)
(***************************************************************************)
Kills == [i \in DOMAIN clientList |-> [to |-> clientList[i], message |-> kill]]

Reset ==
  /\ "reset" \in Command
  /\ \/ /\ Receiving({"init"}) /\ clientList # << >>
        /\ phase' = "crashed" /\ UNCHANGED outbox
     \/ /\ \/ Receiving({"calc"})
           \/ Receiving({"init"}) /\ clientList = << >>
        /\ phase' = "resetting" /\ outbox' = Kills
  /\ UNCHANGED <<clientList, minMi, wish, calcs, greetings, briefs, procVars, mailbox, votes>>

(***************************************************************************)
(* The new coordinator does not have what was sent to the old one, or to   *)
(* nobody while the name was not registered.                               *)
(***************************************************************************)
StartAgain ==
  /\ Receiving({"resetting"})
  /\ phase' = "init" /\ clientList' = << >> /\ minMi' = 0 /\ wish' = 0
  /\ greetings' \in SUBSET greetings /\ briefs' \in SUBSET briefs
  /\ UNCHANGED <<outbox, calcs, procVars, mailbox, votes>>

Kill ==
  /\ "kill" \in Command /\ Receiving({"init", "calc"})
  /\ phase' = "down" /\ outbox' = Kills
  /\ UNCHANGED <<clientList, minMi, wish, calcs, greetings, briefs, procVars, mailbox, votes>>

-----------------------------------------------------------------------------
(***************************************************************************)
(* The gcd processes.                                                      *)
(***************************************************************************)
StartProcess(p) ==
  /\ state[p] = "new"
  /\ state' = [state EXCEPT ![p] = "work"]
  /\ greetings' = greetings \cup {p}
  /\ UNCHANGED <<coordVars, briefs, neighbors, mi, consense, timers, calculated, mailbox, votes>>

(***************************************************************************)
(* Message i of p's mailbox is the next one of its type to be received;    *)
(* Taken is the mailboxes without it.                                      *)
(***************************************************************************)
Receives(p, i, type) ==
  /\ state[p] = "work"
  /\ mailbox[p][i].type = type
  /\ \/ i = 1
     \/ /\ ~ OneNode
        /\ \A j \in 1..i - 1 : mailbox[p][j].from # mailbox[p][i].from

Taken(p, i) == [mailbox EXCEPT ![p] = RemoveAt(@, i)]

ReceiveSetneighbors(p, i) ==
  /\ Receives(p, i, "setneighbors")
  /\ mailbox' = Taken(p, i)
  /\ neighbors' = [neighbors EXCEPT ![p] = mailbox[p][i].ring]
  /\ mi' = [mi EXCEPT ![p] = 0]
  /\ UNCHANGED <<coordVars, greetings, briefs, state, consense, timers, calculated, votes>>

(***************************************************************************)
(* A new value or a neighbor's value: Consense falls, and another timer    *)
(* runs.                                                                   *)
(***************************************************************************)
Restart(p) ==
  /\ consense' = [consense EXCEPT ![p] = FALSE]
  /\ timers' = [timers EXCEPT ![p] = @ + 1]

ReceiveSetpm(p, i) ==
  /\ Receives(p, i, "setpm")
  /\ mailbox' = Taken(p, i)
  /\ mi' = [mi EXCEPT ![p] = mailbox[p][i].nr]
  /\ calculated' = calculated \ {p}
  /\ Restart(p)
  /\ UNCHANGED <<coordVars, greetings, briefs, state, neighbors, votes>>

takeY(m, y) == y              \* mutant: the smaller value is taken over
remainder(m, y) == (m % y) + 1 \* mutant: 1 is not subtracted first

calc(m, y) == ((m - 1) % y) + 1

(***************************************************************************)
(* A smaller Y reduces Mi, and the neighbors and the coordinator are told. *)
(* A neighbor that is both the left and the right one is told twice.       *)
(***************************************************************************)
TellLeft(p, i) ==   \* mutant: only the left neighbor is told
  LET new == calc(mi[p], mailbox[p][i].nr)
  IN  /\ mailbox[p][i].nr < mi[p]
      /\ mi' = [mi EXCEPT ![p] = new]
      /\ calculated' = calculated \cup {p}
      /\ briefs' = briefs \cup {new}
      /\ Send(Taken(p, i), [q \in Process |->
           IF neighbors[p][1] = q THEN <<sendy(p, new)>> ELSE << >>])

Reduce(p, i) ==
  LET new == calc(mi[p], mailbox[p][i].nr)
  IN  /\ mailbox[p][i].nr < mi[p]
      /\ mi' = [mi EXCEPT ![p] = new]
      /\ calculated' = calculated \cup {p}
      /\ briefs' = briefs \cup {new}
      /\ Send(Taken(p, i), [q \in Process |->
           [k \in 1..Cardinality({s \in 1..2 : neighbors[p][s] = q}) |-> sendy(p, new)]])

OnlySmaller(p, i) ==   \* mutant: a Y that is not smaller stays in the mailbox
  /\ Receives(p, i, "sendy") /\ mi[p] # 0
  /\ Reduce(p, i)
  /\ Restart(p)
  /\ UNCHANGED <<coordVars, greetings, state, neighbors, votes>>

ReceiveSendy(p, i) ==
  /\ Receives(p, i, "sendy") /\ mi[p] # 0
  /\ \/ Reduce(p, i)
     \/ /\ mailbox[p][i].nr >= mi[p]
        /\ mailbox' = Taken(p, i)
        /\ UNCHANGED <<mi, calculated, briefs>>
  /\ Restart(p)
  /\ UNCHANGED <<coordVars, greetings, state, neighbors, votes>>

(***************************************************************************)
(* A process ends, killed, or by the exception that a Y raises as long as  *)
(* Mi is not a number.                                                     *)
(***************************************************************************)
End(p, how) ==
  /\ state' = [state EXCEPT ![p] = how]
  /\ mailbox' = [mailbox EXCEPT ![p] = << >>]
  /\ UNCHANGED <<coordVars, greetings, briefs, neighbors, mi, consense, timers, calculated, votes>>

SendyTooEarly(p, i) == Receives(p, i, "sendy") /\ mi[p] = 0 /\ End(p, "crashed")

ReceiveKill(p, i) == Receives(p, i, "kill") /\ End(p, "dead")

-----------------------------------------------------------------------------
(***************************************************************************)
(* Votes.  The first timeout after the last value sets Consense, the next  *)
(* one starts a vote.  Its handler counts down to 0 and then reports the   *)
(* Mi of the moment the vote began; as it does nothing else, its receipt   *)
(* of an answer is part of the step that gives the answer.                 *)
(***************************************************************************)
Waiting ==
  Cardinality({h \in DOMAIN votes : ~ votes[h].asked}) +
  Cardinality({pi \in UNION {{q} \X DOMAIN mailbox[q] : q \in Process} :
                 mailbox[pi[1]][pi[2]] = timeout})

TimerFires(p) ==
  /\ timers[p] > 0 /\ state[p] = "work"
  /\ Waiting < MaxTimeouts
  /\ timers' = [timers EXCEPT ![p] = @ - 1]
  /\ mailbox' = [mailbox EXCEPT ![p] = Append(@, timeout)]
  /\ UNCHANGED <<coordVars, greetings, briefs, state, neighbors, mi, consense, calculated, votes>>

TimeoutOnce(p, i) ==   \* mutant: no new timer
  /\ Receives(p, i, "timeout")
  /\ consense' = [consense EXCEPT ![p] = TRUE]
  /\ votes' = IF consense[p]
              THEN Append(votes, [mi |-> mi[p], needed |-> Quota, asked |-> FALSE])
              ELSE votes
  /\ mailbox' = Taken(p, i)
  /\ UNCHANGED <<coordVars, greetings, briefs, state, neighbors, mi, timers, calculated>>

ReceiveTimeout(p, i) ==
  /\ Receives(p, i, "timeout")
  /\ consense' = [consense EXCEPT ![p] = TRUE]
  /\ \/ /\ consense[p]
        /\ votes' = Append(votes, [mi |-> mi[p], needed |-> Quota, asked |-> FALSE])
        /\ UNCHANGED timers
     \/ /\ ~ consense[p]
        /\ timers' = [timers EXCEPT ![p] = @ + 1]
        /\ UNCHANGED votes
  /\ mailbox' = Taken(p, i)
  /\ UNCHANGED <<coordVars, greetings, briefs, state, neighbors, mi, calculated>>

(***************************************************************************)
(* The name service sends the vote to all processes.                       *)
(***************************************************************************)
Multicast(h) ==
  /\ ~ votes[h].asked
  /\ votes' = [votes EXCEPT ![h].asked = TRUE]
  /\ Send(mailbox, [q \in Process |-> <<vote(h)>>])
  /\ UNCHANGED <<coordVars, greetings, briefs, procVars>>

(***************************************************************************)
(* The handler counts the answers down; after 0 they do not matter.        *)
(***************************************************************************)
countUp(needed) == needed + 1   \* mutant: the missing answers are counted up

voteHandler(needed) == Max({0, needed - 1})

(***************************************************************************)
(* A process without Consense does not answer, but has it from then on.    *)
(***************************************************************************)
ReceiveVote(p, i) ==
  /\ Receives(p, i, "vote")
  /\ mailbox' = Taken(p, i)
  /\ consense' = [consense EXCEPT ![p] = TRUE]
  /\ votes' = IF ~ consense[p] THEN votes
              ELSE [votes EXCEPT ![mailbox[p][i].nr].needed = voteHandler(@)]
  /\ UNCHANGED <<coordVars, greetings, briefs, state, neighbors, mi, timers, calculated>>

-----------------------------------------------------------------------------
CoordinatorStep ==
  \/ SendNext \/ StartAgain
  \/ \E p \in Process : Hello(p)
  \/ \E v \in briefs : BriefMi(v)

OperatorCommand == Step \/ (\E w \in Wish : Calc(w)) \/ Toggle \/ Reset \/ Kill

ProcessStep(p) ==
  \E i \in DOMAIN mailbox[p] :
    \/ ReceiveSetneighbors(p, i) \/ ReceiveSetpm(p, i) \/ ReceiveSendy(p, i)
    \/ SendyTooEarly(p, i) \/ ReceiveKill(p, i)
    \/ ReceiveTimeout(p, i) \/ ReceiveVote(p, i)

Next ==
  \/ CoordinatorStep \/ OperatorCommand
  \/ \E h \in DOMAIN votes : Multicast(h)
  \/ \E p \in Process : StartProcess(p) \/ ProcessStep(p) \/ TimerFires(p)

Spec == Init /\ [][Next]_vars

(***************************************************************************)
(* Processes receive what is in their mailboxes, and a timer that has been *)
(* started fires; the operator need not do anything.                       *)
(***************************************************************************)
Fairness ==
  /\ WF_vars(CoordinatorStep) /\ WF_vars(\E h \in DOMAIN votes : Multicast(h))
  /\ \A p \in Process : WF_vars(ProcessStep(p)) /\ WF_vars(TimerFires(p))

FairSpec == Spec /\ Fairness

-----------------------------------------------------------------------------
(***************************************************************************)
(* Types of the coordinator's and the processes' states.                   *)
(***************************************************************************)
Messages ==
  [from : Process \cup {Coordinator, NameService, Timer},
   type : {"setneighbors", "setpm", "sendy", "kill", "vote", "timeout"},
   nr : Nat, ring : Seq(Process)]

GGTTypeOK ==
  /\ phase \in {"init", "calc", "resetting", "down", "crashed"}
  /\ clientList \in Seq(Process) /\ minMi \in Nat
  /\ outbox \in Seq([to : Process, message : Messages])
  /\ wish \in Wish \cup {0} /\ calcs \in 0..MaxCalcs
  /\ greetings \subseteq Process /\ briefs \subseteq Nat
  /\ state \in [Process -> {"new", "work", "dead", "crashed"}]
  /\ neighbors \in [Process -> Seq(Process)]
  /\ mi \in [Process -> Nat]
  /\ consense \in [Process -> BOOLEAN]
  /\ timers \in [Process -> Nat]
  /\ mailbox \in [Process -> Seq(Messages)]
  /\ votes \in Seq([mi : Nat, needed : 0..Quota, asked : BOOLEAN])
  /\ calculated \subseteq Process

(***************************************************************************)
(* The values in messages of some types that p is still going to receive.  *)
(***************************************************************************)
ComingValues(p, types) ==
  {mailbox[p][i].nr : i \in {j \in DOMAIN mailbox[p] : mailbox[p][j].type \in types}}
    \cup {outbox[k].message.nr : k \in {j \in DOMAIN outbox :
             outbox[j].to = p /\ outbox[j].message.type \in types}}

(***************************************************************************)
(* Every value that a process of the ring has or is going to receive is a  *)
(* multiple of the gcd wished for (koordinator.erl:38-39), so that the     *)
(* calculation cannot end below it.                                        *)
(***************************************************************************)
MultiplesOfWish ==
  wish # 0 => \A p \in Ring : \A v \in {mi[p]} \cup ComingValues(p, {"setpm", "sendy"}) :
                v % wish = 0

(***************************************************************************)
(* On one node every process has its neighbors and its Mi before the first *)
(* Y reaches it, even from a neighbor that was started earlier: none is    *)
(* ended by the exception in ggt_process.erl:106.                          *)
(***************************************************************************)
SetpmComesFirst == OneNode => \A p \in Process : state[p] # "crashed"

(***************************************************************************)
(* Nothing is lost when a process replaces its Mi: while a calculation     *)
(* runs the gcd of the values of the ring stays the same, although a Y may *)
(* be a value that its sender no longer has (ggt_process.erl:106).         *)
(***************************************************************************)
Value(p) ==
  LET new == ComingValues(p, {"setpm"})
  IN  IF new = {} THEN mi[p] ELSE CHOOSE v \in new : TRUE

GcdOf(set) == Max({d \in 1..Min(set) : \A v \in set : v % d = 0})

GcdOfRing == IF wish = 0 THEN 0 ELSE GcdOf({Value(p) : p \in Ring})

GcdKept ==
  [][calcs' = calcs /\ phase' = "calc" => GcdOfRing' = GcdOfRing]_vars

(***************************************************************************)
(* The values have all been received (ggt_process.erl:44-55).              *)
(***************************************************************************)
Quiet ==
  /\ phase = "calc" /\ wish # 0 /\ briefs = {}
  /\ \A p \in Ring : mi[p] # 0 /\ ComingValues(p, {"setpm", "sendy"}) = {}

(***************************************************************************)
(* When all values have been received, no neighbor of a process that has   *)
(* reduced its Mi has a greater one: whoever had was told                  *)
(* (ggt_process.erl:107-108).                                              *)
(***************************************************************************)
NoGreaterNeighbor ==
  Quiet => \A p \in Ring \cap calculated : \A s \in DOMAIN neighbors[p] :
             mi[neighbors[p][s]] <= mi[p]

(***************************************************************************)
(* koordinator.erl:184: the coordinator's MinMi is the best Mi so far; when *)
(* all values have been received it is the smallest Mi of the ring.        *)
(***************************************************************************)
MinMiIsMinimum == Quiet => minMi = Min({mi[p] : p \in Ring})

(***************************************************************************)
(* A calculation comes to an end: the processes stop sending each other    *)
(* values (ggt_process.erl:101-113), unless one has been ended by a Y that *)
(* came too early.                                                         *)
(***************************************************************************)
CalculationEnds ==
  wish # 0 ~> Quiet \/ phase # "calc" \/ \E p \in Ring : state[p] = "crashed"

(***************************************************************************)
(* The end of a calculation is reported (ggt_process.erl:125-128): once    *)
(* all timers have fired and all votes have been taken, some vote has had  *)
(* the answers it needed, although a process that was asked too early did  *)
(* not answer and nobody asks again, and the Mi it reports is one that the *)
(* calculation has ended with.                                             *)
(***************************************************************************)
VotesTaken ==
  /\ \A p \in Ring : timers[p] = 0 /\ mailbox[p] = << >>
  /\ \A h \in DOMAIN votes : votes[h].asked

EndIsReported ==
  Quiet /\ VotesTaken => \E h \in DOMAIN votes :
                           votes[h].needed = 0 /\ \E p \in Ring : votes[h].mi = mi[p]

(***************************************************************************)
(* koordinator.erl:38-39: every calculation that is started has the gcd    *)
(* wished for, so it does not end with values that are not its multiples.  *)
(***************************************************************************)
EndsAtMultiples == Quiet => \A p \in Ring : mi[p] % wish = 0

=============================================================================
