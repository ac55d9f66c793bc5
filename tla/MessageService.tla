--------------------------- MODULE MessageService ---------------------------
(***************************************************************************)
(* The message service of assignment 1: clients, the server process with   *)
(* its latency timer, the number service, the controller with the client   *)
(* memory CMEM, and the HBQ process (module HBQ).                          *)
(*                                                                         *)
(* Erlang delivers the messages between two processes in the order they    *)
(* were sent and promises nothing about two senders, so there is one queue *)
(* per pair of processes; a process takes the first message of one of its  *)
(* queues.  A client has one mailbox: every message it gets (an answer to  *)
(* its one open request, or the kill of its lifetime timer) is received by *)
(* whatever receive it is in, so the order of arrival is all that counts.  *)
(* Messages to a process that is gone disappear.                           *)
(*                                                                         *)
(* Time is abstracted: a running timer may fire at any moment, a client's  *)
(* entry in the CMEM may expire at any moment.                             *)
(***************************************************************************)
EXTENDS HBQ

CONSTANTS
  Client,          \* the client processes
  MessagesPerCycle,\* messages a client writes before it reads (5 in client.erl)
  MaxNr,           \* bound: numbers the number service hands out
  MaxForget,       \* bound: expiries of CMEM entries
  TimersFire       \* whether latency and lifetime timers may fire at all

ASSUME MessageServiceAssumption ==
  /\ MessagesPerCycle \in Nat \ {0}
  /\ MaxNr \in Nat /\ MaxForget \in Nat /\ TimersFire \in BOOLEAN
  /\ Nr = 1..MaxNr

VARIABLES
  serverState,     \* "init" until the HBQ has answered, "loop", "down"
  timer,           \* whether the latency timer runs
  kill,            \* the timer's kill in the server's mailbox: "none", "fresh",
                   \*   or "stale" if the timer was reset after it had fired
  toServer,        \* client -> requests of that client
  nextId,          \* number service: the next number; 0 when it is down
  toNumberService, \* clients (or Kill) in the order of the server's messages
  ctrl,            \* controller: "loop", "awaitReply", "awaitDown", "down"
  ctrlClient,      \* the client whose getmessages the controller handles
  toController,    \* clients (or Kill) in the order of the server's messages
  ctrlReply,       \* answers of the HBQ to the controller
  cmem,            \* client -> the number cmem:getClientNNr returns
  forgets,         \* expiries so far (bounds the model)
  fromServer,      \* what the server has sent to the HBQ
  fromController,  \* what the controller has sent to the HBQ
  hbqReady,        \* the HBQ's answer to initHBQ is on its way to the server
  pc,              \* client: "new", "awaitNid", "sleep", "awaitMsg", "dead", "crashed"
  counter,         \* client: MessageCounter
  nid,             \* client: the number it will send
  sleepTime,       \* client: whether SleepTime is an "integer" or a "float"
  box,             \* client: its mailbox
  lifetime,        \* client: whether the lifetime timer still runs
  got              \* history: numbers sent to a client since CMEM knows it

serverVars == <<serverState, timer, kill>>
nsVars == <<nextId, toNumberService>>
ctrlVars == <<ctrl, ctrlClient, toController, ctrlReply>>
cmemVars == <<cmem, forgets>>
clientVars == <<pc, counter, nid, sleepTime, lifetime>>
vars == <<hbqVars, serverVars, toServer, nsVars, ctrlVars, cmemVars,
          fromServer, fromController, hbqReady, clientVars, box, got>>

Kill == "kill"       \* the message {request,kill}
Start == [type |-> "initHBQ", nr |-> 0]
Push(n) == [type |-> "pushHBQ", nr |-> n]
Deliver(n, c) == [type |-> "deliverMSG", nr |-> n, client |-> c]
Dell == [type |-> "dellHBQ", nr |-> 0, client |-> Kill]

-----------------------------------------------------------------------------
Init ==
  /\ HBQInit
  /\ serverState = "init" /\ timer = FALSE /\ kill = "none"
  /\ toServer = [c \in Client |-> << >>]
  /\ nextId = 1 /\ toNumberService = << >>
  /\ ctrl = "loop" /\ ctrlClient = Kill /\ toController = << >> /\ ctrlReply = << >>
  /\ cmem = [c \in Client |-> 1] /\ forgets = 0
  /\ fromServer = <<Start>> /\ fromController = << >> /\ hbqReady = FALSE
  /\ pc = [c \in Client |-> "new"]
  /\ counter = [c \in Client |-> 0]
  /\ nid = [c \in Client |-> 0]
  /\ sleepTime = [c \in Client |-> "integer"]
  /\ box = [c \in Client |-> << >>]
  /\ lifetime = [c \in Client |-> FALSE]
  /\ got = [c \in Client |-> {}]

(***************************************************************************)
(* Sending requests to the server: the name is gone once it is down.       *)
(***************************************************************************)
RequestTwice(c, requests) ==   \* mutant: every request is sent twice
  toServer' = IF serverState = "down" THEN toServer
              ELSE [toServer EXCEPT ![c] = @ \o requests \o requests]

Request(c, requests) ==
  toServer' = IF serverState = "down" THEN toServer
              ELSE [toServer EXCEPT ![c] = @ \o requests]

GetMsgId == [type |-> "getmsgid", nr |-> 0]
DropMessage(n) == [type |-> "dropmessage", nr |-> n]
GetMessages == [type |-> "getmessages", nr |-> 0]

-----------------------------------------------------------------------------
(***************************************************************************)
(* Clients.                                                                *)
(***************************************************************************)
Goto(c, state) == pc' = [pc EXCEPT ![c] = state]
Receive(c) == box' = [box EXCEPT ![c] = Tail(@)]
OtherProcesses == UNCHANGED <<hbqVars, serverVars, nsVars, ctrlVars, cmemVars,
                              fromServer, fromController, hbqReady, got>>

StartClient(c) ==
  /\ pc[c] = "new"
  /\ Goto(c, "awaitNid")
  /\ lifetime' = [lifetime EXCEPT ![c] = TRUE]
  /\ Request(c, <<GetMsgId>>)
  /\ UNCHANGED <<counter, nid, sleepTime, box>> /\ OtherProcesses

(***************************************************************************)
(* A number is received: for a message, or, when the cycle's messages are  *)
(* written, to be thrown away before the reading starts.  newSleepTime     *)
(* halves (the result of / is a float unless it is replaced by 2000) or    *)
(* doubles.                                                                *)
(***************************************************************************)
newSleepTime(c) ==
  \E s \in {"integer", "float"} : sleepTime' = [sleepTime EXCEPT ![c] = s]

ReceiveNid(c) ==
  /\ pc[c] = "awaitNid" /\ box[c] # << >> /\ box[c][1].type = "nid"
  /\ Receive(c)
  /\ \/ /\ counter[c] < MessagesPerCycle
        /\ Goto(c, "sleep")
        /\ nid' = [nid EXCEPT ![c] = box[c][1].nr]
        /\ UNCHANGED <<toServer, sleepTime>>
     \/ /\ counter[c] >= MessagesPerCycle
        /\ Goto(c, "awaitMsg")
        /\ newSleepTime(c)
        /\ Request(c, <<GetMessages>>)
        /\ UNCHANGED nid
  /\ UNCHANGED <<counter, lifetime>> /\ OtherProcesses

(***************************************************************************)
(* After the sleep the message is sent and the next number is asked for.   *)
(* timer:sleep of a float raises timeout_value: the client crashes.        *)
(***************************************************************************)
WakeUp(c) ==
  /\ pc[c] = "sleep"
  /\ nid' = [nid EXCEPT ![c] = 0]
  /\ \/ /\ sleepTime[c] = "integer"
        /\ Goto(c, "awaitNid")
        /\ counter' = [counter EXCEPT ![c] = @ + 1]
        /\ Request(c, <<DropMessage(nid[c]), GetMsgId>>)
     \/ /\ sleepTime[c] = "float"
        /\ Goto(c, "crashed")
        /\ UNCHANGED <<counter, toServer>>
  /\ UNCHANGED <<sleepTime, lifetime, box>> /\ OtherProcesses

(***************************************************************************)
(* readCycle: reads on until the answer says that it was the newest.       *)
(***************************************************************************)
ReceiveMessage(c) ==
  /\ pc[c] = "awaitMsg" /\ box[c] # << >> /\ box[c][1].type = "reply"
  /\ Receive(c)
  /\ \/ /\ ~ box[c][1].terminiert
        /\ Request(c, <<GetMessages>>)
        /\ UNCHANGED <<pc, counter>>
     \/ /\ box[c][1].terminiert
        /\ Goto(c, "awaitNid")
        /\ counter' = [counter EXCEPT ![c] = 0]
        /\ Request(c, <<GetMsgId>>)
  /\ UNCHANGED <<nid, sleepTime, lifetime>> /\ OtherProcesses

KilledWhenReading(c) ==   \* mutant: writeCycle ignores the kill
  /\ pc[c] = "awaitMsg" /\ box[c] # << >> /\ box[c][1].type = "kill"
  /\ Receive(c)
  /\ Goto(c, "dead")
  /\ UNCHANGED <<counter, nid, sleepTime, lifetime, toServer>> /\ OtherProcesses

ReceiveKill(c) ==
  /\ pc[c] \in {"awaitNid", "awaitMsg"} /\ box[c] # << >> /\ box[c][1].type = "kill"
  /\ Receive(c)
  /\ Goto(c, "dead")
  /\ UNCHANGED <<counter, nid, sleepTime, lifetime, toServer>> /\ OtherProcesses

LifetimeOver(c) ==
  /\ lifetime[c] /\ TimersFire
  /\ lifetime' = [lifetime EXCEPT ![c] = FALSE]
  /\ box' = [box EXCEPT ![c] = Append(@, [type |-> "kill"])]
  /\ UNCHANGED <<pc, counter, nid, sleepTime, toServer>> /\ OtherProcesses

-----------------------------------------------------------------------------
(***************************************************************************)
(* The server process.  Every handled request resets the latency timer;    *)
(* a kill that the old timer has already sent stays in the mailbox.        *)
(***************************************************************************)
reset_timer ==
  /\ timer' = TRUE
  /\ kill' = IF kill = "none" THEN "none" ELSE "stale"

ServeAtOnce ==   \* mutant: does not wait for the HBQ
  /\ serverState = "init"
  /\ serverState' = "loop" /\ hbqReady' = FALSE
  /\ UNCHANGED <<hbqVars, timer, kill, toServer, nsVars, ctrlVars, cmemVars,
                 fromServer, fromController, clientVars, box, got>>

ServerInit ==
  /\ serverState = "init" /\ hbqReady
  /\ serverState' = "loop" /\ hbqReady' = FALSE
  /\ UNCHANGED <<hbqVars, timer, kill, toServer, nsVars, ctrlVars, cmemVars,
                 fromServer, fromController, clientVars, box, got>>

HandleRequest(c) ==
  /\ serverState = "loop" /\ toServer[c] # << >>
  /\ toServer' = [toServer EXCEPT ![c] = Tail(@)]
  /\ LET request == Head(toServer[c])
     IN  \/ /\ request.type = "getmsgid"
            /\ toNumberService' = Append(toNumberService, c)
            /\ UNCHANGED <<fromServer, toController>>
         \/ /\ request.type = "dropmessage"
            /\ fromServer' = Append(fromServer, Push(request.nr))
            /\ UNCHANGED <<toNumberService, toController>>
         \/ /\ request.type = "getmessages"
            /\ toController' = Append(toController, c)
            /\ UNCHANGED <<toNumberService, fromServer>>
  /\ reset_timer
  /\ UNCHANGED <<hbqVars, serverState, nextId, ctrl, ctrlClient, ctrlReply,
                 cmemVars, fromController, hbqReady, clientVars, box, got>>

TimerFires ==
  /\ serverState = "loop" /\ timer /\ TimersFire
  /\ timer' = FALSE
  /\ kill' = IF kill = "none" THEN "fresh" ELSE kill
  /\ UNCHANGED <<hbqVars, serverState, toServer, nsVars, ctrlVars, cmemVars,
                 fromServer, fromController, hbqReady, clientVars, box, got>>

ShutdownController ==   \* mutant: the number service is not told
  /\ serverState = "loop" /\ kill # "none"
  /\ serverState' = "down"
  /\ toServer' = [c \in Client |-> << >>]
  /\ toController' = Append(toController, Kill)
  /\ UNCHANGED toNumberService
  /\ UNCHANGED <<hbqVars, timer, kill, nextId, ctrl, ctrlClient, ctrlReply, cmemVars,
                 fromServer, fromController, hbqReady, clientVars, box, got>>

Shutdown ==
  /\ serverState = "loop" /\ kill # "none"
  /\ serverState' = "down"
  /\ toServer' = [c \in Client |-> << >>]
  /\ toController' = Append(toController, Kill)
  /\ toNumberService' = Append(toNumberService, Kill)
  /\ UNCHANGED <<hbqVars, timer, kill, nextId, ctrl, ctrlClient, ctrlReply, cmemVars,
                 fromServer, fromController, hbqReady, clientVars, box, got>>

-----------------------------------------------------------------------------
(***************************************************************************)
(* An answer to a client; one to a client that is gone disappears.         *)
(***************************************************************************)
Send(c, answer) ==
  box' = IF pc[c] \in {"dead", "crashed"} THEN box
         ELSE [box EXCEPT ![c] = Append(@, answer)]

(***************************************************************************)
(* The number service: numbers in the order of the requests (none any more *)
(* once MaxNr are handed out, to bound the model), or the end.             *)
(***************************************************************************)
NumberService ==
  /\ nextId > 0 /\ toNumberService # << >>
  /\ toNumberService' = Tail(toNumberService)
  /\ \/ /\ Head(toNumberService) = Kill
        /\ nextId' = 0
        /\ UNCHANGED box
     \/ /\ Head(toNumberService) \in Client /\ nextId <= MaxNr
        /\ nextId' = nextId + 1
        /\ Send(Head(toNumberService), [type |-> "nid", nr |-> nextId])
     \/ /\ Head(toNumberService) \in Client /\ nextId > MaxNr
        /\ UNCHANGED <<nextId, box>>
  /\ UNCHANGED <<hbqVars, serverVars, toServer, ctrlVars, cmemVars, fromServer,
                 fromController, hbqReady, clientVars, got>>

-----------------------------------------------------------------------------
(***************************************************************************)
(* The controller.  Its calls to the CMEM are answered at once by a        *)
(* process that serves nobody else, so each is part of the step that makes *)
(* it: getClientNNr before the request to the HBQ, updateClient after the  *)
(* HBQ's answer, delCMEM before dellHBQ.                                   *)
(***************************************************************************)
ControllerGetMessages ==
  /\ ctrl = "loop" /\ toController # << >> /\ Head(toController) \in Client
  /\ toController' = Tail(toController)
  /\ ctrlClient' = Head(toController)
  /\ ctrl' = "awaitReply"
  /\ fromController' = Append(fromController, Deliver(cmem[ctrlClient'], ctrlClient'))
  /\ UNCHANGED <<hbqVars, serverVars, toServer, nsVars, ctrlReply, cmemVars,
                 fromServer, hbqReady, clientVars, box, got>>

ControllerKill ==
  /\ ctrl = "loop" /\ toController # << >> /\ Head(toController) = Kill
  /\ toController' = Tail(toController)
  /\ ctrl' = "awaitDown"
  /\ fromController' = Append(fromController, Dell)
  /\ UNCHANGED <<hbqVars, serverVars, toServer, nsVars, ctrlClient, ctrlReply,
                 cmemVars, fromServer, hbqReady, clientVars, box, got>>

(***************************************************************************)
(* The CMEM keeps the number after the one the client got; a dummy is no   *)
(* reason to update.                                                       *)
(***************************************************************************)
rememberSame(c, nr) ==   \* mutant: the number sent, not the next one
  cmem' = IF nr = 0 THEN cmem ELSE [cmem EXCEPT ![c] = nr]

rememberTooMuch(c, nr) ==   \* mutant: counted twice
  cmem' = IF nr = 0 THEN cmem ELSE [cmem EXCEPT ![c] = nr + 2]

updateClient(c, nr) ==
  cmem' = IF nr = 0 THEN cmem ELSE [cmem EXCEPT ![c] = nr + 1]

(***************************************************************************)
(* The two inner receives: a number, or {reply,down} after the kill.       *)
(***************************************************************************)
Awaited(reply) ==
  \/ ctrl = "awaitReply" /\ reply.reply = "number"
  \/ ctrl = "awaitDown" /\ reply.reply = "down"

ControllerReceive ==
  /\ ctrlReply # << >> /\ Awaited(Head(ctrlReply))
  /\ ctrlReply' = Tail(ctrlReply)
  /\ ctrl' = IF ctrl = "awaitReply" THEN "loop" ELSE "down"
  /\ updateClient(ctrlClient, Head(ctrlReply).nr)
  /\ UNCHANGED <<hbqVars, serverVars, toServer, nsVars, ctrlClient, toController,
                 forgets, fromServer, fromController, hbqReady, clientVars, box, got>>

(***************************************************************************)
(* RemTime has passed since the client's entry was written: the client     *)
(* starts again with number 1.  (While the controller handles a request of *)
(* the client this changes nothing: the entry has been read already and    *)
(* will be written again.)                                                 *)
(***************************************************************************)
CMEMForgets(c) ==
  /\ cmem[c] # 1 /\ forgets < MaxForget
  /\ ~ (ctrl = "awaitReply" /\ ctrlClient = c)
  /\ cmem' = [cmem EXCEPT ![c] = 1]
  /\ forgets' = forgets + 1
  /\ got' = [got EXCEPT ![c] = {}]
  /\ UNCHANGED <<hbqVars, serverVars, toServer, nsVars, ctrlVars, fromServer,
                 fromController, hbqReady, clientVars, box>>

-----------------------------------------------------------------------------
(***************************************************************************)
(* The HBQ process.  The answers to pushHBQ go to the server's trash can.  *)
(***************************************************************************)
HBQFromServer ==
  /\ fromServer # << >>
  /\ fromServer' = Tail(fromServer)
  /\ \/ /\ Head(fromServer) = Start
        /\ initHBQ
        /\ hbqReady' = TRUE
     \/ /\ Head(fromServer).type = "pushHBQ"
        /\ pushHBQ(Head(fromServer).nr)
        /\ UNCHANGED hbqReady
  /\ UNCHANGED <<serverVars, toServer, nsVars, ctrlVars, cmemVars, fromController,
                 clientVars, box, got>>

HBQDeliver ==
  /\ hbqState = "loop"
  /\ fromController # << >> /\ Head(fromController).type = "deliverMSG"
  /\ fromController' = Tail(fromController)
  /\ LET c == Head(fromController).client
         answer == deliverMSG(Head(fromController).nr, dlq)
     IN  /\ Send(c, [type |-> "reply", nr |-> answer.nr, terminiert |-> answer.terminiert])
         /\ ctrlReply' = Append(ctrlReply, [reply |-> "number", nr |-> answer.nr])
         /\ got' = [got EXCEPT ![c] = IF answer.nr = 0 THEN @ ELSE @ \cup {answer.nr}]
  /\ UNCHANGED <<hbqVars, serverVars, toServer, nsVars, ctrl, ctrlClient, toController,
                 cmemVars, fromServer, hbqReady, clientVars>>

HBQDell ==
  /\ fromController # << >> /\ Head(fromController) = Dell
  /\ fromController' = Tail(fromController)
  /\ dellHBQ
  /\ ctrlReply' = Append(ctrlReply, [reply |-> "ok", nr |-> 0])
  /\ UNCHANGED <<serverVars, toServer, nsVars, ctrl, ctrlClient, toController, cmemVars,
                 fromServer, hbqReady, clientVars, box, got>>

-----------------------------------------------------------------------------
ClientStep(c) ==
  StartClient(c) \/ ReceiveNid(c) \/ WakeUp(c) \/ ReceiveMessage(c) \/ ReceiveKill(c)

ServerStep == ServerInit \/ Shutdown \/ \E c \in Client : HandleRequest(c)

ControllerStep == ControllerGetMessages \/ ControllerKill \/ ControllerReceive

HBQStep == HBQFromServer \/ HBQDeliver \/ HBQDell

Next ==
  \/ \E c \in Client : ClientStep(c) \/ LifetimeOver(c) \/ CMEMForgets(c)
  \/ ServerStep \/ TimerFires
  \/ NumberService \/ ControllerStep \/ HBQStep

Spec == Init /\ [][Next]_vars

(***************************************************************************)
(* A process that has a message it can receive receives one, and none of   *)
(* its senders is kept waiting for ever (an Erlang mailbox is a queue).    *)
(* Nothing forces a timer to fire or an entry to expire.                   *)
(***************************************************************************)
Fairness ==
  /\ \A c \in Client : WF_vars(ClientStep(c)) /\ WF_vars(HandleRequest(c))
  /\ WF_vars(ServerInit) /\ WF_vars(Shutdown)
  /\ WF_vars(NumberService) /\ WF_vars(ControllerStep)
  /\ WF_vars(HBQFromServer) /\ WF_vars(HBQDeliver \/ HBQDell)

FairSpec == Spec /\ Fairness

-----------------------------------------------------------------------------
(***************************************************************************)
(* Types of the processes' states and of the queues between them.          *)
(***************************************************************************)
ServiceTypeOK ==
  /\ HBQTypeOK
  /\ serverState \in {"init", "loop", "down"} /\ timer \in BOOLEAN
  /\ kill \in {"none", "fresh", "stale"}
  /\ toServer \in [Client -> Seq([type : {"getmsgid", "dropmessage", "getmessages"}, nr : Nat])]
  /\ nextId \in 0..MaxNr + 1 /\ toNumberService \in Seq(Client \cup {Kill})
  /\ ctrl \in {"loop", "awaitReply", "awaitDown", "down"}
  /\ ctrlClient \in Client \cup {Kill} /\ toController \in Seq(Client \cup {Kill})
  /\ ctrlReply \in Seq([reply : {"number", "ok", "down"}, nr : Nat])
  /\ cmem \in [Client -> Nat \ {0}] /\ forgets \in 0..MaxForget
  /\ fromServer \in Seq([type : {"initHBQ", "pushHBQ"}, nr : Nat])
  /\ fromController \in Seq([type : {"deliverMSG", "dellHBQ"}, nr : Nat, client : Client \cup {Kill}])
  /\ hbqReady \in BOOLEAN
  /\ pc \in [Client -> {"new", "awaitNid", "sleep", "awaitMsg", "dead", "crashed"}]
  /\ counter \in [Client -> 0..MessagesPerCycle] /\ nid \in [Client -> Nat]
  /\ sleepTime \in [Client -> {"integer", "float"}] /\ lifetime \in [Client -> BOOLEAN]
  /\ got \in [Client -> SUBSET Nat]

(***************************************************************************)
(* The service uses the HBQ as the module HBQ assumes: whatever the        *)
(* interleaving of clients, every number reaches it at most once, so each  *)
(* step of the service is a step of HBQSpec or leaves the HBQ alone.       *)
(***************************************************************************)
UsesHBQ == HBQSpec

(***************************************************************************)
(* The first message the HBQ sees is initHBQ: no push and no read can      *)
(* overtake it and run into the crash of startupOther.                     *)
(***************************************************************************)
InitBeforeRequests ==
  hbqState = "startup" =>
    /\ fromServer = <<Start>>
    /\ fromController = << >>

(***************************************************************************)
(* A client that the CMEM knows is never sent a message again, as long as  *)
(* no gap of several numbers has been closed (whose lower numbers are not  *)
(* in the DLQ, so a reader that asks for one is sent back to the oldest).  *)
(***************************************************************************)
WideGap == 1..expected - 1 # released \cup gaps

NoMessageTwice ==
  [][\A c \in Client :
       /\ Len(fromController') < Len(fromController)
       /\ Head(fromController) # Dell
       /\ Head(fromController).client = c
       /\ ~ WideGap
       => \/ Head(ctrlReply').nr \notin got[c]
          \/ Head(ctrlReply').nr = 0]_vars

(***************************************************************************)
(* A reader skips nothing that can still be read: whatever is in the DLQ   *)
(* and older than the newest message the client got, the client got.       *)
(***************************************************************************)
NothingSkipped ==
  \A c \in Client : \A n \in NumbersOf(dlq, FALSE) \cup NumbersOf(dlq, TRUE) :
    (\E m \in got[c] : n < m) => n \in got[c]

(***************************************************************************)
(* server.erl:95: the kill is for the case that no new request arrived     *)
(* during the latency, so a kill of a timer that has been reset by a later *)
(* request does not shut the server down.                                  *)
(***************************************************************************)
OnlyIdleServerStops == [][serverState' = "down" => kill # "stale"]_vars

(***************************************************************************)
(* hbq.erl:118-120 and server.erl:56: after a shutdown the controller ends *)
(* the HBQ and gets the answer it needs to end itself.                     *)
(***************************************************************************)
ControllerEnds == serverState = "down" ~> ctrl = "down"

(***************************************************************************)
(* A shutdown reaches the processes behind the server, although requests   *)
(* are still on their way: the number service and the HBQ end.             *)
(***************************************************************************)
ShutdownReachesAll == serverState = "down" ~> nextId = 0 /\ hbqState = "down"

(***************************************************************************)
(* The kill of the lifetime timer ends every client that has not crashed,  *)
(* even one that waits for the answer of a server that is down.            *)
(***************************************************************************)
KillObeyed ==
  \A c \in Client : (\E i \in DOMAIN box[c] : box[c][i].type = "kill")
                      ~> pc[c] \in {"dead", "crashed"}

(***************************************************************************)
(* A client that reads comes to the end of the messages and writes again,  *)
(* unless the server is shut down, the client killed, or a gap of several  *)
(* numbers was closed.                                                     *)
(***************************************************************************)
ReadingEnds ==
  \A c \in Client : pc[c] = "awaitMsg" ~> pc[c] # "awaitMsg" \/ WideGap \/ serverState = "down"
=============================================================================
