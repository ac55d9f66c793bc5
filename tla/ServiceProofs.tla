---------------------------- MODULE ServiceProofs ----------------------------
(***************************************************************************)
(* Proofs about the whole message service, for every set of clients, every *)
(* number of messages and every limit of the DLQ.                          *)
(***************************************************************************)
EXTENDS MessageService, HBQProofs

-----------------------------------------------------------------------------
(***************************************************************************)
(* Sequences of messages: the numbers of the messages of one kind, and     *)
(* that no two of them are equal.                                          *)
(***************************************************************************)
Tagged(s, t) == {i \in DOMAIN s : s[i].type = t}

NrsOf(s, t) == {s[i].nr : i \in Tagged(s, t)}

Once(s, t) == \A i, j \in Tagged(s, t) : s[i].nr = s[j].nr => i = j

(***************************************************************************)
(* Receiving the first message removes its number and no other.            *)
(***************************************************************************)
LEMMA TailOnce ==
  ASSUME NEW S, NEW s \in Seq(S), s # << >>, NEW t, Once(s, t)
  PROVE  /\ Tail(s) \in Seq(S)
         /\ Once(Tail(s), t)
         /\ NrsOf(Tail(s), t) \subseteq NrsOf(s, t)
         /\ Head(s).type = t =>
              Head(s).nr \in NrsOf(s, t) /\ Head(s).nr \notin NrsOf(Tail(s), t)
<1>1. /\ Tail(s) \in Seq(S) /\ Len(s) \in Nat /\ Len(s) >= 1
      /\ DOMAIN s = 1..Len(s) /\ DOMAIN Tail(s) = 1..Len(s) - 1
      /\ \A i \in 1..Len(s) - 1 : Tail(s)[i] = s[i + 1]
      /\ Head(s) = s[1]
  OBVIOUS
<1>2. \A i \in Tagged(Tail(s), t) : i \in Nat /\ i >= 1 /\ i + 1 \in Tagged(s, t) /\ Tail(s)[i].nr = s[i + 1].nr
  BY <1>1 DEF Tagged
<1>3. Once(Tail(s), t)
  <2> SUFFICES ASSUME NEW i \in Tagged(Tail(s), t), NEW j \in Tagged(Tail(s), t),
                      Tail(s)[i].nr = Tail(s)[j].nr
               PROVE  i = j
    BY DEF Once
  <2>1. s[i + 1].nr = s[j + 1].nr /\ i + 1 \in Tagged(s, t) /\ j + 1 \in Tagged(s, t)
    BY <1>2
  <2>2. i + 1 = j + 1
    BY <2>1 DEF Once
  <2>3. i \in Nat /\ j \in Nat
    BY <1>2
  <2> QED
    BY <2>2, <2>3
<1>4. NrsOf(Tail(s), t) \subseteq NrsOf(s, t)
  BY <1>2 DEF NrsOf
<1>5. ASSUME Head(s).type = t
      PROVE  Head(s).nr \in NrsOf(s, t) /\ Head(s).nr \notin NrsOf(Tail(s), t)
  <2>1. 1 \in Tagged(s, t)
    BY <1>1, <1>5 DEF Tagged
  <2>2. ASSUME NEW i \in Tagged(Tail(s), t), Tail(s)[i].nr = s[1].nr
        PROVE  FALSE
    <3>1. i \in Nat /\ i >= 1 /\ i + 1 \in Tagged(s, t) /\ s[i + 1].nr = s[1].nr
      BY <1>2, <2>2
    <3>2. i + 1 = 1
      BY <2>1, <3>1 DEF Once
    <3> QED
      BY <3>1, <3>2
  <2> QED
    BY <1>1, <2>1, <2>2 DEF NrsOf
<1> QED
  BY <1>1, <1>3, <1>4, <1>5

(***************************************************************************)
(* A message that is sent adds its number.                                 *)
(***************************************************************************)
LEMMA AppendOnce ==
  ASSUME NEW S, NEW s \in Seq(S), NEW x \in S, NEW t
  PROVE  /\ Append(s, x) \in Seq(S)
         /\ NrsOf(Append(s, x), t) = NrsOf(s, t) \cup (IF x.type = t THEN {x.nr} ELSE {})
         /\ Once(s, t) /\ (x.type = t => x.nr \notin NrsOf(s, t)) => Once(Append(s, x), t)
<1> DEFINE n == Len(s) + 1
           r == Append(s, x)
<1>1. /\ r \in Seq(S) /\ n \in Nat /\ DOMAIN r = 1..n /\ DOMAIN s = 1..n - 1
      /\ \A i \in 1..n - 1 : r[i] = s[i]
      /\ r[n] = x /\ n >= 1 /\ n \notin 1..n - 1 /\ 1..n = (1..n - 1) \cup {n}
  OBVIOUS
<1> HIDE DEF n, r
<1>2. Tagged(r, t) = Tagged(s, t) \cup (IF x.type = t THEN {n} ELSE {})
  BY <1>1 DEF Tagged
<1>3. \A i \in Tagged(s, t) : r[i] = s[i] /\ i # n
  BY <1>1 DEF Tagged
<1>4. NrsOf(r, t) = NrsOf(s, t) \cup (IF x.type = t THEN {x.nr} ELSE {})
  <2>1. ASSUME NEW v \in NrsOf(r, t) PROVE v \in NrsOf(s, t) \cup (IF x.type = t THEN {x.nr} ELSE {})
    BY <1>1, <1>2, <1>3 DEF NrsOf
  <2>2. ASSUME NEW v \in NrsOf(s, t) PROVE v \in NrsOf(r, t)
    BY <1>2, <1>3 DEF NrsOf
  <2>3. x.type = t => x.nr \in NrsOf(r, t)
    BY <1>1, <1>2 DEF NrsOf
  <2> QED
    BY <2>1, <2>2, <2>3
<1>5. ASSUME Once(s, t), x.type = t => x.nr \notin NrsOf(s, t)
      PROVE  Once(r, t)
  <2> SUFFICES ASSUME NEW i \in Tagged(r, t), NEW j \in Tagged(r, t), r[i].nr = r[j].nr
               PROVE  i = j
    BY DEF Once
  <2>1. CASE i \in Tagged(s, t) /\ j \in Tagged(s, t)
    BY <1>3, <1>5, <2>1 DEF Once
  <2>2. CASE x.type = t /\ i \in Tagged(s, t) /\ j = n
    BY <1>1, <1>3, <1>5, <2>2 DEF NrsOf
  <2>3. CASE x.type = t /\ j \in Tagged(s, t) /\ i = n
    BY <1>1, <1>3, <1>5, <2>3 DEF NrsOf
  <2> QED
    BY <1>2, <2>1, <2>2, <2>3
<1> QED
  BY <1>1, <1>4, <1>5 DEF r

LEMMA AppendOther ==
  ASSUME NEW S, NEW s \in Seq(S), NEW x \in S, NEW t, x.type # t
  PROVE  /\ Append(s, x) \in Seq(S)
         /\ NrsOf(Append(s, x), t) = NrsOf(s, t)
         /\ Once(s, t) => Once(Append(s, x), t)
<1>1. NrsOf(Append(s, x), t) = NrsOf(s, t) \cup (IF x.type = t THEN {x.nr} ELSE {})
  BY AppendOnce
<1>2. Once(s, t) /\ (x.type = t => x.nr \notin NrsOf(s, t)) => Once(Append(s, x), t)
  BY AppendOnce
<1>3. Append(s, x) \in Seq(S)
  OBVIOUS
<1> QED
  BY <1>1, <1>2, <1>3

-----------------------------------------------------------------------------
(***************************************************************************)
(* The messages in the queues.                                             *)
(***************************************************************************)
Req == [type : {"getmsgid", "getmessages"}, nr : {0}] \cup [type : {"dropmessage"}, nr : Nr]

Mail == [type : {"nid"}, nr : Nr] \cup [type : {"reply"}, nr : Nat, terminiert : BOOLEAN]
          \cup [type : {"kill"}]

HReq == {Start} \cup [type : {"pushHBQ"}, nr : Nr]

(***************************************************************************)
(* Types, beyond those of ServiceTypeOK: what a client is about to send    *)
(* and what is in the queues are numbers that exist.                       *)
(***************************************************************************)
ClientTypes ==
  /\ toServer \in [Client -> Seq(Req)]
  /\ pc \in [Client -> {"new", "awaitNid", "sleep", "awaitMsg", "dead", "crashed"}]
  /\ counter \in [Client -> 0..MessagesPerCycle] /\ nid \in [Client -> Nat]
  /\ sleepTime \in [Client -> {"integer", "float"}] /\ lifetime \in [Client -> BOOLEAN]
  /\ box \in [Client -> Seq(Mail)]
  /\ got \in [Client -> SUBSET Nat]
  /\ \A c \in Client : pc[c] = "sleep" => nid[c] \in Nr /\ counter[c] < MessagesPerCycle

OtherTypes ==
  /\ serverState \in {"init", "loop", "down"} /\ timer \in BOOLEAN
  /\ kill \in {"none", "fresh", "stale"}
  /\ nextId \in 0..MaxNr + 1 /\ toNumberService \in Seq(Client \cup {Kill})
  /\ ctrlClient \in Client \cup {Kill} /\ toController \in Seq(Client \cup {Kill})
  /\ cmem \in [Client -> Nat \ {0}] /\ forgets \in 0..MaxForget
  /\ fromServer \in Seq(HReq)
  /\ hbqReady \in BOOLEAN

(***************************************************************************)
(* While the HBQ starts, initHBQ is alone on its way, and the server lets  *)
(* nothing through before the HBQ has answered.                            *)
(***************************************************************************)
StartInv ==
  /\ hbqState = "startup" => fromServer = <<Start>> /\ ~ hbqReady /\ serverState = "init"
  /\ serverState = "init" => fromController = << >> /\ toController = << >> /\ ctrl = "loop"

(***************************************************************************)
(* A number handed out is in one place: in the mailbox of a client, with   *)
(* the client that sleeps, in a request to the server, in one to the HBQ,  *)
(* or it has arrived there (or it was thrown away).                        *)
(***************************************************************************)
Boxed(c) == NrsOf(box[c], "nid")

Sleeping(c) == IF pc[c] = "sleep" THEN {nid[c]} ELSE {}

Dropped(c) == NrsOf(toServer[c], "dropmessage")

OfClient(c) == Boxed(c) \cup Sleeping(c) \cup Dropped(c)

Pushed == NrsOf(fromServer, "pushHBQ")

Handed == IF nextId = 0 THEN Nr ELSE 1..nextId - 1

OnceAtClient(c) ==
  /\ Once(box[c], "nid") /\ Once(toServer[c], "dropmessage")
  /\ Boxed(c) \cap Sleeping(c) = {} /\ Boxed(c) \cap Dropped(c) = {}
  /\ Sleeping(c) \cap Dropped(c) = {}

EachOnce ==
  /\ \A c \in Client :
       /\ OnceAtClient(c)
       /\ OfClient(c) \subseteq Handed
       /\ OfClient(c) \cap (Pushed \cup arrived) = {}
  /\ \A c, d \in Client : c # d => OfClient(c) \cap OfClient(d) = {}
  /\ Once(fromServer, "pushHBQ")
  /\ Pushed \cap arrived = {} /\ Pushed \cup arrived \subseteq Handed

(***************************************************************************)
(* The controller asks the HBQ one thing at a time, and the number it asks *)
(* for is the one the CMEM still has.                                      *)
(***************************************************************************)
ControllerInv ==
  /\ ctrl \in {"loop", "awaitReply", "awaitDown"}
  /\ ctrl = "loop" => fromController = << >> /\ ctrlReply = << >>
  /\ ctrl = "awaitReply" =>
       /\ ctrlClient \in Client
       /\ \/ /\ fromController = <<Deliver(cmem[ctrlClient], ctrlClient)>>
             /\ ctrlReply = << >>
          \/ /\ fromController = << >>
             /\ \E a \in Nat : ctrlReply = <<[reply |-> "number", nr |-> a]>>
  /\ ctrl = "awaitDown" =>
       \/ fromController = <<Dell>> /\ ctrlReply = << >>
       \/ fromController = << >> /\ ctrlReply = <<[reply |-> "ok", nr |-> 0]>>

(***************************************************************************)
(* The number a client gets next, once the controller has told the CMEM:   *)
(* it is not beyond the expected one; what is older and in the DLQ, the    *)
(* client got; and it got nothing newer, unless a wide gap was closed.     *)
(***************************************************************************)
NextOf(c) ==
  IF ctrl = "awaitReply" /\ ctrlClient = c /\ ctrlReply # << >> /\ ctrlReply[1].nr # 0
  THEN ctrlReply[1].nr + 1
  ELSE cmem[c]

ReadUpTo(c) ==
  /\ NextOf(c) \in Nat \ {0} /\ NextOf(c) <= expected
  /\ \A m \in got[c] : m < expected
  /\ \A n \in AllNumbers(dlq) : n < NextOf(c) => n \in got[c]
  /\ \A n \in AllNumbers(dlq), m \in got[c] : n < m => n \in got[c]
  /\ ~ WideGap => \A m \in got[c] : m < NextOf(c)

ReaderInv == \A c \in Client : ReadUpTo(c)

ServiceInv ==
  /\ IInv /\ DLQWindow
  /\ ClientTypes /\ OtherTypes /\ StartInv /\ EachOnce /\ ControllerInv /\ ReaderInv

-----------------------------------------------------------------------------
(***************************************************************************)
(* What a request adds to the queue to the server: nothing if the server   *)
(* is down.                                                                *)
(***************************************************************************)
LEMMA RequestEffect ==
  ASSUME toServer \in [Client -> Seq(Req)], NEW c \in Client, NEW r \in Req,
         Request(c, <<r>>)
  PROVE  /\ toServer' \in [Client -> Seq(Req)]
         /\ toServer'[c] = toServer[c] \/ toServer'[c] = Append(toServer[c], r)
         /\ \A d \in Client : d # c => toServer'[d] = toServer[d]
<1>1. toServer[c] \in Seq(Req) /\ toServer[c] \o <<r>> = Append(toServer[c], r)
  OBVIOUS
<1>2. Append(toServer[c], r) \in Seq(Req)
  BY <1>1
<1>3. toServer' = toServer \/ toServer' = [toServer EXCEPT ![c] = Append(toServer[c], r)]
  BY <1>1 DEF Request
<1> QED
  BY <1>2, <1>3

LEMMA RequestsEffect ==
  ASSUME toServer \in [Client -> Seq(Req)], NEW c \in Client, NEW q \in Req, NEW r \in Req,
         Request(c, <<q, r>>)
  PROVE  /\ toServer' \in [Client -> Seq(Req)]
         /\ toServer'[c] = toServer[c] \/ toServer'[c] = Append(Append(toServer[c], q), r)
         /\ \A d \in Client : d # c => toServer'[d] = toServer[d]
<1>1. toServer[c] \in Seq(Req) /\ toServer[c] \o <<q, r>> = Append(Append(toServer[c], q), r)
  OBVIOUS
<1>2. Append(Append(toServer[c], q), r) \in Seq(Req)
  BY <1>1
<1>3. toServer' = toServer \/ toServer' = [toServer EXCEPT ![c] = Append(Append(toServer[c], q), r)]
  BY <1>1 DEF Request
<1> QED
  BY <1>2, <1>3

(***************************************************************************)
(* The numbers of the messages the clients send.                           *)
(***************************************************************************)
LEMMA RequestTypes ==
  /\ GetMsgId \in Req /\ GetMsgId.type # "dropmessage"
  /\ GetMessages \in Req /\ GetMessages.type # "dropmessage"
  /\ \A n \in Nr : /\ DropMessage(n) \in Req
                   /\ DropMessage(n).type = "dropmessage" /\ DropMessage(n).nr = n
BY DEF GetMsgId, GetMessages, DropMessage, Req

(***************************************************************************)
(* Asking for a number or a message sends no number.                       *)
(***************************************************************************)
LEMMA AskingSendsNone ==
  ASSUME ClientTypes, EachOnce, NEW c \in Client,
         Request(c, <<GetMsgId>>) \/ Request(c, <<GetMessages>>)
  PROVE  /\ toServer' \in [Client -> Seq(Req)]
         /\ \A d \in Client : d # c => toServer'[d] = toServer[d]
         /\ Dropped(c)' = Dropped(c) /\ Once(toServer'[c], "dropmessage")
<1>1. PICK r \in Req : r.type # "dropmessage" /\ Request(c, <<r>>)
  BY RequestTypes
<1>2. /\ toServer' \in [Client -> Seq(Req)]
      /\ toServer'[c] = toServer[c] \/ toServer'[c] = Append(toServer[c], r)
      /\ \A d \in Client : d # c => toServer'[d] = toServer[d]
  BY <1>1, RequestEffect DEF ClientTypes
<1>3. toServer[c] \in Seq(Req) /\ Once(toServer[c], "dropmessage")
  BY DEF ClientTypes, EachOnce, OnceAtClient
<1>4. /\ NrsOf(Append(toServer[c], r), "dropmessage") = NrsOf(toServer[c], "dropmessage")
      /\ Once(Append(toServer[c], r), "dropmessage")
  BY <1>1, <1>3, AppendOther
<1> QED
  BY <1>2, <1>3, <1>4 DEF Dropped

(***************************************************************************)
(* A client receives the first message of its mailbox.                     *)
(***************************************************************************)
LEMMA ReceiveEffect ==
  ASSUME ClientTypes, EachOnce, NEW c \in Client, box[c] # << >>, Receive(c)
  PROVE  /\ box' \in [Client -> Seq(Mail)]
         /\ \A d \in Client : d # c => box'[d] = box[d]
         /\ Boxed(c)' \subseteq Boxed(c) /\ Once(box'[c], "nid")
         /\ box[c][1].type = "nid" =>
              box[c][1].nr \in Nr /\ box[c][1].nr \in Boxed(c) /\ box[c][1].nr \notin Boxed(c)'
<1>1. box \in [Client -> Seq(Mail)] /\ box[c] \in Seq(Mail) /\ Once(box[c], "nid")
  BY DEF ClientTypes, EachOnce, OnceAtClient
<1>2. /\ Tail(box[c]) \in Seq(Mail) /\ Once(Tail(box[c]), "nid")
      /\ NrsOf(Tail(box[c]), "nid") \subseteq NrsOf(box[c], "nid")
      /\ Head(box[c]).type = "nid" =>
           Head(box[c]).nr \in NrsOf(box[c], "nid") /\ Head(box[c]).nr \notin NrsOf(Tail(box[c]), "nid")
  BY <1>1, TailOnce
<1>3. box' = [box EXCEPT ![c] = Tail(box[c])] /\ Head(box[c]) = box[c][1] /\ box[c][1] \in Mail
  BY <1>1 DEF Receive
<1>4. box[c][1].type = "nid" => box[c][1].nr \in Nr
  BY <1>3 DEF Mail
<1> QED
  BY <1>1, <1>2, <1>3, <1>4 DEF Boxed

(***************************************************************************)
(* A step that touches one client's places only and brings it no number    *)
(* it did not have keeps each number in one place.                         *)
(***************************************************************************)
OthersSame(c) ==
  \A d \in Client : d # c => /\ box'[d] = box[d] /\ pc'[d] = pc[d]
                             /\ nid'[d] = nid[d] /\ toServer'[d] = toServer[d]

LEMMA ClientMoves ==
  ASSUME EachOnce, NEW c \in Client,
         OnceAtClient(c)', OfClient(c)' \subseteq OfClient(c), OthersSame(c),
         UNCHANGED <<fromServer, arrived, nextId>>
  PROVE  EachOnce'
<1>1. \A d \in Client : d # c => /\ OfClient(d)' = OfClient(d)
                                 /\ OnceAtClient(d) => OnceAtClient(d)'
  BY DEF OthersSame, OfClient, OnceAtClient, Boxed, Sleeping, Dropped
<1>2. \A d \in Client : OfClient(d)' \subseteq OfClient(d) /\ OnceAtClient(d)'
  BY <1>1 DEF EachOnce
<1>3. Handed' = Handed /\ Pushed' = Pushed /\ arrived' = arrived /\ fromServer' = fromServer
  BY DEF Handed, Pushed
<1> QED
  BY <1>2, <1>3 DEF EachOnce

(***************************************************************************)
(* The client's steps.                                                     *)
(***************************************************************************)
LEMMA StartClientStep ==
  ASSUME ClientTypes, EachOnce, NEW c \in Client, StartClient(c)
  PROVE  ClientTypes' /\ EachOnce'
<1>1. /\ pc[c] = "new" /\ pc' = [pc EXCEPT ![c] = "awaitNid"]
      /\ lifetime' = [lifetime EXCEPT ![c] = TRUE]
      /\ Request(c, <<GetMsgId>>)
      /\ UNCHANGED <<counter, nid, sleepTime, box, got, fromServer, arrived, nextId>>
  BY DEF StartClient, Goto, OtherProcesses, hbqVars, nsVars
<1>2. /\ toServer' \in [Client -> Seq(Req)]
      /\ \A d \in Client : d # c => toServer'[d] = toServer[d]
      /\ Dropped(c)' = Dropped(c) /\ Once(toServer'[c], "dropmessage")
  BY <1>1, AskingSendsNone
<1>3. ClientTypes'
  BY <1>1, <1>2 DEF ClientTypes
<1>5. Boxed(c)' = Boxed(c) /\ Sleeping(c)' = {} /\ Once(box'[c], "nid")
  BY <1>1 DEF Boxed, Sleeping, ClientTypes, EachOnce, OnceAtClient
<1>6. OnceAtClient(c)' /\ OfClient(c)' \subseteq OfClient(c)
  BY <1>2, <1>5 DEF EachOnce, OnceAtClient, OfClient
<1>7. OthersSame(c)
  BY <1>1, <1>2 DEF OthersSame, ClientTypes
<1> QED
  BY <1>1, <1>3, <1>6, <1>7, ClientMoves

LEMMA ReceiveNidStep ==
  ASSUME ClientTypes, EachOnce, NEW c \in Client, ReceiveNid(c)
  PROVE  ClientTypes' /\ EachOnce'
<1>1. /\ pc[c] = "awaitNid" /\ box[c] # << >> /\ box[c][1].type = "nid" /\ Receive(c)
      /\ UNCHANGED <<counter, lifetime, got, fromServer, arrived, nextId>>
  BY DEF ReceiveNid, OtherProcesses, hbqVars, nsVars
<1>2. /\ box' \in [Client -> Seq(Mail)]
      /\ \A d \in Client : d # c => box'[d] = box[d]
      /\ Boxed(c)' \subseteq Boxed(c) /\ Once(box'[c], "nid")
      /\ box[c][1].nr \in Nr /\ box[c][1].nr \in Boxed(c) /\ box[c][1].nr \notin Boxed(c)'
  BY <1>1, ReceiveEffect
<1>3. OnceAtClient(c) /\ Sleeping(c) = {}
  BY <1>1 DEF EachOnce, Sleeping
<1>4. CASE /\ counter[c] < MessagesPerCycle
           /\ Goto(c, "sleep")
           /\ nid' = [nid EXCEPT ![c] = box[c][1].nr]
           /\ UNCHANGED <<toServer, sleepTime>>
  <2>1. box[c][1].nr \in Nat
    BY <1>2, NrAssumption
  <2>2. ClientTypes'
    BY <1>1, <1>2, <1>4, <2>1 DEF ClientTypes, Goto
  <2>3. /\ Sleeping(c)' = {box[c][1].nr}
        /\ Dropped(c)' = Dropped(c) /\ Once(toServer'[c], "dropmessage")
    BY <1>3, <1>4 DEF Sleeping, Dropped, ClientTypes, Goto, OnceAtClient
  <2>4. OnceAtClient(c)' /\ OfClient(c)' \subseteq OfClient(c)
    BY <1>2, <1>3, <2>3 DEF OnceAtClient, OfClient
  <2>5. OthersSame(c)
    BY <1>2, <1>4 DEF OthersSame, ClientTypes, Goto
  <2> QED
    BY <1>1, <2>2, <2>4, <2>5, ClientMoves
<1>5. CASE /\ Goto(c, "awaitMsg")
           /\ newSleepTime(c)
           /\ Request(c, <<GetMessages>>)
           /\ UNCHANGED nid
  <2>1. /\ toServer' \in [Client -> Seq(Req)]
        /\ \A d \in Client : d # c => toServer'[d] = toServer[d]
        /\ Dropped(c)' = Dropped(c) /\ Once(toServer'[c], "dropmessage")
    BY <1>5, AskingSendsNone
  <2>2. ClientTypes'
    BY <1>1, <1>2, <1>5, <2>1 DEF ClientTypes, Goto, newSleepTime
  <2>3. Sleeping(c)' = {}
    BY <1>5 DEF Sleeping, ClientTypes, Goto
  <2>4. OnceAtClient(c)' /\ OfClient(c)' \subseteq OfClient(c)
    BY <1>2, <1>3, <2>1, <2>3 DEF OnceAtClient, OfClient
  <2>5. OthersSame(c)
    BY <1>2, <1>5, <2>1 DEF OthersSame, ClientTypes, Goto
  <2> QED
    BY <1>1, <2>2, <2>4, <2>5, ClientMoves
<1> QED
  BY <1>4, <1>5 DEF ReceiveNid

LEMMA WakeUpStep ==
  ASSUME ClientTypes, EachOnce, NEW c \in Client, WakeUp(c)
  PROVE  ClientTypes' /\ EachOnce'
<1>1. /\ pc[c] = "sleep" /\ nid' = [nid EXCEPT ![c] = 0]
      /\ UNCHANGED <<sleepTime, lifetime, box, got, fromServer, arrived, nextId>>
  BY DEF WakeUp, OtherProcesses, hbqVars, nsVars
<1>2. /\ nid[c] \in Nr /\ counter[c] < MessagesPerCycle /\ OnceAtClient(c)
      /\ Sleeping(c) = {nid[c]} /\ toServer[c] \in Seq(Req)
      /\ toServer \in [Client -> Seq(Req)]
  BY <1>1 DEF ClientTypes, EachOnce, Sleeping
<1>3. CASE /\ Goto(c, "awaitNid")
           /\ counter' = [counter EXCEPT ![c] = @ + 1]
           /\ Request(c, <<DropMessage(nid[c]), GetMsgId>>)
  <2> DEFINE q == DropMessage(nid[c])
             one == Append(toServer[c], q)
             two == Append(one, GetMsgId)
  <2>1. q \in Req /\ q.type = "dropmessage" /\ q.nr = nid[c]
    BY <1>2, RequestTypes
  <2> HIDE DEF q
  <2>2. /\ toServer' \in [Client -> Seq(Req)]
        /\ toServer'[c] = toServer[c] \/ toServer'[c] = two
        /\ \A d \in Client : d # c => toServer'[d] = toServer[d]
    <3>1. Request(c, <<q, GetMsgId>>)
      BY <1>3 DEF q
    <3> QED
      BY <1>2, <2>1, <3>1, RequestsEffect, RequestTypes
  <2>3. nid[c] \notin NrsOf(toServer[c], "dropmessage") /\ Once(toServer[c], "dropmessage")
    BY <1>2 DEF OnceAtClient, Dropped
  <2>4. /\ one \in Seq(Req)
        /\ NrsOf(one, "dropmessage") = NrsOf(toServer[c], "dropmessage") \cup {nid[c]}
        /\ Once(one, "dropmessage")
    <3>1. /\ one \in Seq(Req)
          /\ NrsOf(one, "dropmessage") = NrsOf(toServer[c], "dropmessage")
                                           \cup (IF q.type = "dropmessage" THEN {q.nr} ELSE {})
      BY <1>2, <2>1, AppendOnce
    <3>2. Once(one, "dropmessage")
      BY <1>2, <2>1, <2>3, AppendOnce
    <3> QED
      BY <2>1, <3>1, <3>2
  <2> HIDE DEF one
  <2>5. NrsOf(two, "dropmessage") = NrsOf(one, "dropmessage") /\ Once(two, "dropmessage")
    BY <2>4, AppendOther, RequestTypes
  <2> HIDE DEF two
  <2>6. Dropped(c)' \subseteq Dropped(c) \cup {nid[c]} /\ Once(toServer'[c], "dropmessage")
    BY <2>2, <2>3, <2>4, <2>5 DEF Dropped
  <2>7. Sleeping(c)' = {} /\ Boxed(c)' = Boxed(c) /\ Once(box'[c], "nid")
    BY <1>1, <1>2, <1>3 DEF Sleeping, Boxed, ClientTypes, Goto, OnceAtClient
  <2>8. OnceAtClient(c)' /\ OfClient(c)' \subseteq OfClient(c)
    BY <1>2, <2>6, <2>7 DEF OnceAtClient, OfClient
  <2>9. OthersSame(c)
    BY <1>1, <1>3, <2>2 DEF OthersSame, ClientTypes, Goto
  <2>10. ClientTypes'
    <3>1. counter' \in [Client -> 0..MessagesPerCycle] /\ pc'[c] = "awaitNid"
      BY <1>2, <1>3, MessageServiceAssumption DEF ClientTypes, Goto
    <3> QED
      BY <1>1, <1>3, <2>2, <3>1 DEF ClientTypes, Goto
  <2> QED
    BY <1>1, <2>8, <2>9, <2>10, ClientMoves
<1>4. CASE Goto(c, "crashed") /\ UNCHANGED <<counter, toServer>>
  <2>1. ClientTypes'
    BY <1>1, <1>4 DEF ClientTypes, Goto
  <2>2. Sleeping(c)' = {} /\ Boxed(c)' = Boxed(c) /\ Dropped(c)' = Dropped(c)
    BY <1>1, <1>4 DEF Sleeping, Boxed, Dropped, ClientTypes, Goto
  <2>3. OnceAtClient(c)' /\ OfClient(c)' \subseteq OfClient(c)
    BY <1>1, <1>2, <1>4, <2>2 DEF OnceAtClient, OfClient
  <2>4. OthersSame(c)
    BY <1>1, <1>4 DEF OthersSame, ClientTypes, Goto
  <2> QED
    BY <1>1, <2>1, <2>3, <2>4, ClientMoves
<1> QED
  BY <1>3, <1>4 DEF WakeUp

LEMMA ReceiveMessageStep ==
  ASSUME ClientTypes, EachOnce, NEW c \in Client, ReceiveMessage(c)
  PROVE  ClientTypes' /\ EachOnce'
<1>1. /\ pc[c] = "awaitMsg" /\ box[c] # << >> /\ Receive(c)
      /\ UNCHANGED <<nid, sleepTime, lifetime, got, fromServer, arrived, nextId>>
      /\ Request(c, <<GetMsgId>>) \/ Request(c, <<GetMessages>>)
      /\ \/ UNCHANGED <<pc, counter>>
         \/ pc' = [pc EXCEPT ![c] = "awaitNid"] /\ counter' = [counter EXCEPT ![c] = 0]
  BY DEF ReceiveMessage, OtherProcesses, hbqVars, nsVars, Goto
<1>2. /\ box' \in [Client -> Seq(Mail)]
      /\ \A d \in Client : d # c => box'[d] = box[d]
      /\ Boxed(c)' \subseteq Boxed(c) /\ Once(box'[c], "nid")
  BY <1>1, ReceiveEffect
<1>3. /\ toServer' \in [Client -> Seq(Req)]
      /\ \A d \in Client : d # c => toServer'[d] = toServer[d]
      /\ Dropped(c)' = Dropped(c) /\ Once(toServer'[c], "dropmessage")
  BY <1>1, AskingSendsNone
<1>4. ClientTypes'
  <2>1. /\ pc' \in [Client -> {"new", "awaitNid", "sleep", "awaitMsg", "dead", "crashed"}]
        /\ counter' \in [Client -> 0..MessagesPerCycle]
    <3>1. 0 \in 0..MessagesPerCycle
      BY MessageServiceAssumption
    <3>2. /\ pc \in [Client -> {"new", "awaitNid", "sleep", "awaitMsg", "dead", "crashed"}]
          /\ counter \in [Client -> 0..MessagesPerCycle]
      BY DEF ClientTypes
    <3>3. CASE UNCHANGED <<pc, counter>>
      BY <3>2, <3>3
    <3>4. CASE pc' = [pc EXCEPT ![c] = "awaitNid"] /\ counter' = [counter EXCEPT ![c] = 0]
      BY <3>1, <3>2, <3>4, Zenon
    <3> QED
      BY <1>1, <3>3, <3>4
  <2>2. \A d \in Client : pc'[d] = "sleep" => nid'[d] \in Nr /\ counter'[d] < MessagesPerCycle
    BY <1>1 DEF ClientTypes
  <2> QED
    BY <1>1, <1>2, <1>3, <2>1, <2>2 DEF ClientTypes
<1>5. OnceAtClient(c) /\ Sleeping(c)' = {}
  BY <1>1 DEF EachOnce, Sleeping, ClientTypes
<1>6. OnceAtClient(c)' /\ OfClient(c)' \subseteq OfClient(c)
  BY <1>2, <1>3, <1>5 DEF OnceAtClient, OfClient
<1>7. OthersSame(c)
  BY <1>1, <1>2, <1>3 DEF OthersSame, ClientTypes
<1> QED
  BY <1>1, <1>4, <1>6, <1>7, ClientMoves

LEMMA ReceiveKillStep ==
  ASSUME ClientTypes, EachOnce, NEW c \in Client, ReceiveKill(c)
  PROVE  ClientTypes' /\ EachOnce'
<1>1. /\ box[c] # << >> /\ Receive(c) /\ pc' = [pc EXCEPT ![c] = "dead"]
      /\ UNCHANGED <<counter, nid, sleepTime, lifetime, toServer, got, fromServer, arrived, nextId>>
  BY DEF ReceiveKill, OtherProcesses, hbqVars, nsVars, Goto
<1>2. /\ box' \in [Client -> Seq(Mail)]
      /\ \A d \in Client : d # c => box'[d] = box[d]
      /\ Boxed(c)' \subseteq Boxed(c) /\ Once(box'[c], "nid")
  BY <1>1, ReceiveEffect
<1>3. ClientTypes'
  BY <1>1, <1>2 DEF ClientTypes
<1>4. OnceAtClient(c) /\ Sleeping(c)' = {} /\ Dropped(c)' = Dropped(c)
  BY <1>1 DEF EachOnce, Sleeping, Dropped, ClientTypes
<1>5. OnceAtClient(c)' /\ OfClient(c)' \subseteq OfClient(c)
  BY <1>1, <1>2, <1>4 DEF OnceAtClient, OfClient
<1>6. OthersSame(c)
  BY <1>1, <1>2 DEF OthersSame, ClientTypes
<1> QED
  BY <1>1, <1>3, <1>5, <1>6, ClientMoves

LEMMA LifetimeOverStep ==
  ASSUME ClientTypes, EachOnce, NEW c \in Client, LifetimeOver(c)
  PROVE  ClientTypes' /\ EachOnce'
<1> DEFINE m == [type |-> "kill"]
<1>1. /\ lifetime' = [lifetime EXCEPT ![c] = FALSE]
      /\ box' = [box EXCEPT ![c] = Append(box[c], m)]
      /\ UNCHANGED <<pc, counter, nid, sleepTime, toServer, got, fromServer, arrived, nextId>>
  BY DEF LifetimeOver, OtherProcesses, hbqVars, nsVars
<1>2. m \in Mail /\ m.type # "nid"
  BY DEF Mail
<1> HIDE DEF m
<1>3. box \in [Client -> Seq(Mail)] /\ box[c] \in Seq(Mail) /\ OnceAtClient(c) /\ Once(box[c], "nid")
  BY DEF ClientTypes, EachOnce, OnceAtClient
<1>4. /\ Append(box[c], m) \in Seq(Mail)
      /\ NrsOf(Append(box[c], m), "nid") = NrsOf(box[c], "nid")
      /\ Once(Append(box[c], m), "nid")
  BY <1>2, <1>3, AppendOther
<1>5. box'[c] = Append(box[c], m)
  BY <1>1, <1>3
<1>6. ClientTypes'
  BY <1>1, <1>3, <1>4 DEF ClientTypes
<1>7. Boxed(c)' = Boxed(c) /\ Dropped(c)' = Dropped(c) /\ Sleeping(c)' = Sleeping(c) /\ Once(box'[c], "nid")
  BY <1>1, <1>4, <1>5 DEF Boxed, Dropped, Sleeping
<1>8. OnceAtClient(c)' /\ OfClient(c)' \subseteq OfClient(c)
  BY <1>1, <1>3, <1>7 DEF OnceAtClient, OfClient
<1>9. OthersSame(c)
  BY <1>1, <1>3 DEF OthersSame
<1> QED
  BY <1>1, <1>6, <1>8, <1>9, ClientMoves

-----------------------------------------------------------------------------
(***************************************************************************)
(* What a step leaves alone.                                               *)
(***************************************************************************)
LEMMA ReadersSame ==
  ASSUME ReaderInv, UNCHANGED <<ctrl, ctrlClient, ctrlReply, cmem, got, hbqVars>>
  PROVE  ReaderInv'
BY DEF ReaderInv, ReadUpTo, NextOf, WideGap, hbqVars, queueVars

LEMMA HBQSame ==
  ASSUME IInv, DLQWindow, UNCHANGED hbqVars
  PROVE  IInv' /\ DLQWindow'
<1>1. IInv'
  BY IInvNext
<1>2. DLQWindow'
  BY DEF DLQWindow, hbqVars, queueVars
<1> QED
  BY <1>1, <1>2

LEMMA OtherProcessesSame ==
  ASSUME ServiceInv, OtherProcesses
  PROVE  IInv' /\ DLQWindow' /\ OtherTypes' /\ StartInv' /\ ControllerInv' /\ ReaderInv'
<1> USE DEF ServiceInv, OtherProcesses
<1>1. IInv' /\ DLQWindow'
  BY HBQSame
<1>2. ReaderInv'
  BY ReadersSame DEF ctrlVars, cmemVars
<1>3. OtherTypes'
  BY DEF OtherTypes, serverVars, nsVars, ctrlVars, cmemVars
<1>4. StartInv'
  BY DEF StartInv, serverVars, ctrlVars, hbqVars
<1>5. ControllerInv'
  BY DEF ControllerInv, ctrlVars, cmemVars
<1> QED
  BY <1>1, <1>2, <1>3, <1>4, <1>5

LEMMA ClientStepKeeps ==
  ASSUME ServiceInv, NEW c \in Client, ClientStep(c) \/ LifetimeOver(c)
  PROVE  ServiceInv'
<1>1. ClientTypes /\ EachOnce
  BY DEF ServiceInv
<1>2. ClientTypes' /\ EachOnce'
  BY <1>1, StartClientStep, ReceiveNidStep, WakeUpStep, ReceiveMessageStep, ReceiveKillStep,
     LifetimeOverStep DEF ClientStep
<1>3. OtherProcesses
  BY DEF ClientStep, StartClient, ReceiveNid, WakeUp, ReceiveMessage, ReceiveKill, LifetimeOver
<1> QED
  BY <1>2, <1>3, OtherProcessesSame DEF ServiceInv

-----------------------------------------------------------------------------
(***************************************************************************)
(* The server hands a number on to the HBQ, or forgets it with a shutdown. *)
(***************************************************************************)
LEMMA NumberHandedOn ==
  ASSUME EachOnce, NEW c \in Client, NEW n \in OfClient(c),
         OnceAtClient(c)', OfClient(c)' \subseteq OfClient(c) \ {n}, OthersSame(c),
         Pushed' = Pushed \cup {n}, Once(fromServer', "pushHBQ"),
         UNCHANGED <<arrived, nextId>>
  PROVE  EachOnce'
<1>1. \A d \in Client : d # c => /\ OfClient(d)' = OfClient(d)
                                 /\ OnceAtClient(d) => OnceAtClient(d)'
  BY DEF OthersSame, OfClient, OnceAtClient, Boxed, Sleeping, Dropped
<1>2. \A d \in Client : OfClient(d)' \subseteq OfClient(d) \ {n} /\ OnceAtClient(d)'
  BY <1>1 DEF EachOnce
<1>3. Handed' = Handed /\ arrived' = arrived /\ n \in Handed /\ n \notin arrived
  BY DEF Handed, EachOnce
<1>4. \A d \in Client : OfClient(d)' \cap (Pushed' \cup arrived') = {}
  BY <1>2, <1>3 DEF EachOnce
<1>5. \A d, e \in Client : d # e => OfClient(d)' \cap OfClient(e)' = {}
  BY <1>2 DEF EachOnce
<1>6. Pushed' \cap arrived' = {} /\ Pushed' \cup arrived' \subseteq Handed'
  BY <1>3 DEF EachOnce
<1> QED
  BY <1>2, <1>3, <1>4, <1>5, <1>6 DEF EachOnce

LEMMA NumbersVanish ==
  ASSUME EachOnce, \A c \in Client : OnceAtClient(c)' /\ OfClient(c)' \subseteq OfClient(c),
         UNCHANGED <<fromServer, arrived, nextId>>
  PROVE  EachOnce'
<1>1. Handed' = Handed /\ Pushed' = Pushed /\ arrived' = arrived /\ fromServer' = fromServer
  BY DEF Handed, Pushed
<1> QED
  BY <1>1 DEF EachOnce

(***************************************************************************)
(* The server's steps.                                                     *)
(***************************************************************************)
LEMMA HandleRequestKeeps ==
  ASSUME ServiceInv, NEW c \in Client, HandleRequest(c)
  PROVE  ServiceInv'
<1> DEFINE request == Head(toServer[c])
<1>1. /\ serverState = "loop" /\ toServer[c] # << >>
      /\ toServer' = [toServer EXCEPT ![c] = Tail(toServer[c])]
      /\ \/ /\ request.type = "getmsgid"
            /\ toNumberService' = Append(toNumberService, c)
            /\ UNCHANGED <<fromServer, toController>>
         \/ /\ request.type = "dropmessage"
            /\ fromServer' = Append(fromServer, Push(request.nr))
            /\ UNCHANGED <<toNumberService, toController>>
         \/ /\ request.type = "getmessages"
            /\ toController' = Append(toController, c)
            /\ UNCHANGED <<toNumberService, fromServer>>
      /\ timer' = TRUE /\ kill' \in {"none", "stale"}
      /\ UNCHANGED <<hbqVars, serverState, nextId, ctrl, ctrlClient, ctrlReply,
                     cmem, forgets, fromController, hbqReady, pc, counter, nid, sleepTime,
                     lifetime, box, got>>
  BY DEF HandleRequest, reset_timer, cmemVars, clientVars
<1>2. /\ ClientTypes /\ OtherTypes /\ StartInv /\ EachOnce /\ ControllerInv /\ ReaderInv
      /\ IInv /\ DLQWindow
  BY DEF ServiceInv
<1>3. IInv' /\ DLQWindow' /\ ReaderInv'
  BY <1>1, <1>2, HBQSame, ReadersSame
<1>4. ControllerInv'
  BY <1>1, <1>2 DEF ControllerInv
<1>5. StartInv'
  BY <1>1, <1>2 DEF StartInv, hbqVars
<1>6. toServer[c] \in Seq(Req) /\ Once(toServer[c], "dropmessage") /\ OnceAtClient(c)
  BY <1>2 DEF ClientTypes, EachOnce, OnceAtClient
<1>7. /\ Tail(toServer[c]) \in Seq(Req)
      /\ Once(Tail(toServer[c]), "dropmessage")
      /\ NrsOf(Tail(toServer[c]), "dropmessage") \subseteq NrsOf(toServer[c], "dropmessage")
      /\ request.type = "dropmessage" =>
           request.nr \in NrsOf(toServer[c], "dropmessage")
             /\ request.nr \notin NrsOf(Tail(toServer[c]), "dropmessage")
  BY <1>1, <1>6, TailOnce
<1>8. request \in Req
  BY <1>1, <1>6
<1>9. toServer'[c] = Tail(toServer[c])
  BY <1>1, <1>2 DEF ClientTypes
<1>10. ClientTypes'
  BY <1>1, <1>2, <1>7 DEF ClientTypes
<1> HIDE DEF request
<1>11. request.type = "dropmessage" => request.nr \in Nr /\ Push(request.nr) \in HReq
  BY <1>8 DEF Req, HReq, Push
<1>12. OtherTypes'
  <2>1. /\ Append(toNumberService, c) \in Seq(Client \cup {Kill})
        /\ Append(toController, c) \in Seq(Client \cup {Kill})
    BY <1>2 DEF OtherTypes
  <2>2. request.type = "dropmessage" => Append(fromServer, Push(request.nr)) \in Seq(HReq)
    BY <1>2, <1>11 DEF OtherTypes
  <2>3. /\ toNumberService' \in Seq(Client \cup {Kill}) /\ toController' \in Seq(Client \cup {Kill})
        /\ fromServer' \in Seq(HReq)
    BY <1>1, <1>2, <2>1, <2>2 DEF OtherTypes
  <2> QED
    BY <1>1, <1>2, <2>3 DEF OtherTypes
<1>13. /\ Boxed(c)' = Boxed(c) /\ Sleeping(c)' = Sleeping(c)
       /\ Dropped(c)' \subseteq Dropped(c) /\ Once(toServer'[c], "dropmessage")
       /\ request.type = "dropmessage" => request.nr \in Dropped(c) /\ request.nr \notin Dropped(c)'
  BY <1>1, <1>7, <1>9 DEF Boxed, Sleeping, Dropped
<1>14. OnceAtClient(c)' /\ OfClient(c)' \subseteq OfClient(c)
  BY <1>1, <1>6, <1>13 DEF OnceAtClient, OfClient
<1>15. OthersSame(c)
  BY <1>1, <1>2 DEF OthersSame, ClientTypes
<1>16. arrived' = arrived
  BY <1>1 DEF hbqVars
<1>17. EachOnce'
  <2>1. CASE request.type = "dropmessage"
    <3> DEFINE n == request.nr
    <3>1. n \in OfClient(c) /\ n \notin OfClient(c)'
      BY <1>6, <1>13, <2>1 DEF OfClient, OnceAtClient
    <3>2. n \notin Pushed /\ Once(fromServer, "pushHBQ") /\ fromServer \in Seq(HReq)
      BY <1>2, <3>1 DEF EachOnce, OtherTypes
    <3>3. Push(n) \in HReq /\ Push(n).type = "pushHBQ" /\ Push(n).nr = n
      BY <1>11, <2>1 DEF Push
    <3>4. fromServer' = Append(fromServer, Push(n))
      BY <1>1, <2>1
    <3> HIDE DEF n
    <3>5. NrsOf(Append(fromServer, Push(n)), "pushHBQ") = NrsOf(fromServer, "pushHBQ")
            \cup (IF Push(n).type = "pushHBQ" THEN {Push(n).nr} ELSE {})
      BY <3>2, <3>3, AppendOnce
    <3>6. Once(Append(fromServer, Push(n)), "pushHBQ")
      BY <3>2, <3>3, AppendOnce DEF Pushed
    <3>7. Pushed' = Pushed \cup {n}
      BY <3>3, <3>4, <3>5 DEF Pushed
    <3>8. OfClient(c)' \subseteq OfClient(c) \ {n}
      BY <1>14, <3>1
    <3>9. Once(fromServer', "pushHBQ")
      BY <3>4, <3>6
    <3> QED
      BY <1>1, <1>2, <1>14, <1>15, <1>16, <3>1, <3>7, <3>8, <3>9, NumberHandedOn
  <2>2. CASE request.type # "dropmessage"
    BY <1>1, <1>2, <1>14, <1>15, <1>16, <2>2, ClientMoves
  <2> QED
    BY <2>1, <2>2
<1> QED
  BY <1>3, <1>4, <1>5, <1>10, <1>12, <1>17 DEF ServiceInv

LEMMA ServerStepKeeps ==
  ASSUME ServiceInv, ServerInit \/ Shutdown \/ TimerFires
  PROVE  ServiceInv'
<1>1. /\ ClientTypes /\ OtherTypes /\ StartInv /\ EachOnce /\ ControllerInv /\ ReaderInv
      /\ IInv /\ DLQWindow
  BY DEF ServiceInv
<1>2. /\ UNCHANGED <<hbqVars, nextId, ctrl, ctrlClient, ctrlReply, cmem, forgets, fromServer,
                     fromController, pc, counter, nid, sleepTime, lifetime, box, got>>
      /\ serverState' \in {"loop", "down"}
      /\ timer' \in BOOLEAN /\ kill' \in {"none", "fresh", "stale"} /\ hbqReady' \in BOOLEAN
      /\ hbqState # "startup"
      /\ toServer' = toServer \/ toServer' = [c \in Client |-> << >>]
      /\ toController' = toController \/ toController' = Append(toController, Kill)
      /\ toNumberService' = toNumberService \/ toNumberService' = Append(toNumberService, Kill)
  <2>1. CASE ServerInit
    BY <1>1, <2>1 DEF ServerInit, OtherTypes, StartInv, nsVars, ctrlVars, cmemVars, clientVars
  <2>2. CASE Shutdown
    BY <1>1, <2>2 DEF Shutdown, OtherTypes, StartInv, nsVars, ctrlVars, cmemVars, clientVars
  <2>3. CASE TimerFires
    BY <1>1, <2>3 DEF TimerFires, OtherTypes, StartInv, nsVars, ctrlVars, cmemVars, clientVars
  <2> QED
    BY <2>1, <2>2, <2>3
<1>3. IInv' /\ DLQWindow' /\ ReaderInv'
  BY <1>1, <1>2, HBQSame, ReadersSame
<1>4. ControllerInv'
  BY <1>1, <1>2 DEF ControllerInv
<1>5. StartInv'
  BY <1>1, <1>2 DEF StartInv, hbqVars
<1>6. /\ toServer' \in [Client -> Seq(Req)]
      /\ \A c \in Client : toServer'[c] = toServer[c] \/ toServer'[c] = << >>
  <2>1. toServer \in [Client -> Seq(Req)]
    BY <1>1 DEF ClientTypes
  <2>2. << >> \in Seq(Req)
    OBVIOUS
  <2>3. CASE toServer' = toServer
    BY <2>1, <2>3
  <2>4. CASE toServer' = [c \in Client |-> << >>]
    <3> DEFINE e == << >>
    <3>1. e \in Seq(Req) /\ toServer' = [c \in Client |-> e]
      BY <2>2, <2>4
    <3> HIDE DEF e
    <3>2. toServer' \in [Client -> Seq(Req)] /\ \A c \in Client : toServer'[c] = e
      BY <3>1
    <3> QED
      BY <3>2 DEF e
  <2> QED
    BY <1>2, <2>3, <2>4
<1>7. ClientTypes'
  BY <1>1, <1>2, <1>6 DEF ClientTypes
<1>8. OtherTypes'
  <2>1. Kill \in Client \cup {Kill}
    OBVIOUS
  <2>2. /\ Append(toController, Kill) \in Seq(Client \cup {Kill})
        /\ Append(toNumberService, Kill) \in Seq(Client \cup {Kill})
    BY <1>1, <2>1 DEF OtherTypes
  <2> QED
    BY <1>1, <1>2, <2>2 DEF OtherTypes
<1>9. ASSUME NEW c \in Client
      PROVE  OnceAtClient(c)' /\ OfClient(c)' \subseteq OfClient(c)
  <2>1. Boxed(c)' = Boxed(c) /\ Sleeping(c)' = Sleeping(c)
    BY <1>2 DEF Boxed, Sleeping
  <2>2. OnceAtClient(c)
    BY <1>1 DEF EachOnce
  <2>3. Dropped(c)' \subseteq Dropped(c) /\ Once(toServer'[c], "dropmessage")
    <3>1. CASE toServer'[c] = toServer[c]
      BY <2>2, <3>1 DEF Dropped, OnceAtClient
    <3>2. CASE toServer'[c] = << >>
      BY <3>2 DEF Dropped, NrsOf, Once, Tagged
    <3> QED
      BY <1>6, <3>1, <3>2
  <2> QED
    BY <1>2, <2>1, <2>2, <2>3 DEF OnceAtClient, OfClient
<1>10. EachOnce'
  BY <1>1, <1>2, <1>9, NumbersVanish DEF hbqVars
<1> QED
  BY <1>3, <1>4, <1>5, <1>7, <1>8, <1>10 DEF ServiceInv

-----------------------------------------------------------------------------
(***************************************************************************)
(* An answer to a client.                                                  *)
(***************************************************************************)
LEMMA SendEffect ==
  ASSUME ClientTypes, NEW c \in Client, NEW m \in Mail, Send(c, m)
  PROVE  /\ box' \in [Client -> Seq(Mail)]
         /\ box'[c] = box[c] \/ box'[c] = Append(box[c], m)
         /\ \A d \in Client : d # c => box'[d] = box[d]
<1>1. box \in [Client -> Seq(Mail)] /\ box[c] \in Seq(Mail) /\ Append(box[c], m) \in Seq(Mail)
  BY DEF ClientTypes
<1>2. box' = box \/ box' = [box EXCEPT ![c] = Append(box[c], m)]
  BY DEF Send
<1> QED
  BY <1>1, <1>2

(***************************************************************************)
(* A new number is in no place yet.                                        *)
(***************************************************************************)
LEMMA NumberGiven ==
  ASSUME EachOnce, NEW c \in Client, NEW n, n \notin Handed, Handed' = Handed \cup {n},
         Boxed(c)' \subseteq Boxed(c) \cup {n}, Once(box'[c], "nid"), OthersSame(c),
         UNCHANGED <<toServer, pc, nid, fromServer, arrived>>
  PROVE  EachOnce'
<1>1. \A d \in Client : d # c => /\ OfClient(d)' = OfClient(d)
                                 /\ OnceAtClient(d) => OnceAtClient(d)'
  BY DEF OthersSame, OfClient, OnceAtClient, Boxed, Sleeping, Dropped
<1>2. OnceAtClient(c) /\ OfClient(c) \subseteq Handed
  BY DEF EachOnce
<1>3. Sleeping(c)' = Sleeping(c) /\ Dropped(c)' = Dropped(c) /\ Pushed' = Pushed
  BY DEF Sleeping, Dropped, Pushed
<1>4. OnceAtClient(c)' /\ OfClient(c)' \subseteq OfClient(c) \cup {n}
  BY <1>2, <1>3 DEF OnceAtClient, OfClient
<1>5. \A d \in Client : OnceAtClient(d)' /\ (d # c => OfClient(d)' = OfClient(d) /\ n \notin OfClient(d))
  BY <1>1, <1>4 DEF EachOnce
<1>6. n \notin Pushed \cup arrived
  BY DEF EachOnce
<1>7. \A d \in Client : OfClient(d)' \subseteq Handed' /\ OfClient(d)' \cap (Pushed \cup arrived) = {}
  BY <1>4, <1>5, <1>6 DEF EachOnce
<1>8. \A d, e \in Client : d # e => OfClient(d)' \cap OfClient(e)' = {}
  BY <1>4, <1>5 DEF EachOnce
<1> QED
  BY <1>3, <1>5, <1>7, <1>8 DEF EachOnce

LEMMA HandedGrows ==
  ASSUME EachOnce, Handed \subseteq Handed',
         UNCHANGED <<toServer, pc, nid, box, fromServer, arrived>>
  PROVE  EachOnce'
<1>1. \A c \in Client : OfClient(c)' = OfClient(c) /\ OnceAtClient(c)' = OnceAtClient(c)
  BY DEF OfClient, OnceAtClient, Boxed, Sleeping, Dropped
<1>2. Pushed' = Pushed
  BY DEF Pushed
<1> QED
  BY <1>1, <1>2 DEF EachOnce

LEMMA NumberServiceKeeps ==
  ASSUME ServiceInv, NumberService
  PROVE  ServiceInv'
<1>1. /\ ClientTypes /\ OtherTypes /\ StartInv /\ EachOnce /\ ControllerInv /\ ReaderInv
      /\ IInv /\ DLQWindow
  BY DEF ServiceInv
<1>2. /\ nextId > 0 /\ toNumberService # << >> /\ toNumberService' = Tail(toNumberService)
      /\ UNCHANGED <<hbqVars, serverState, timer, kill, toServer, ctrl, ctrlClient, toController,
                     ctrlReply, cmem, forgets, fromServer, fromController, hbqReady,
                     pc, counter, nid, sleepTime, lifetime, got>>
  BY DEF NumberService, serverVars, ctrlVars, cmemVars, clientVars
<1>3. IInv' /\ DLQWindow' /\ ReaderInv'
  BY <1>1, <1>2, HBQSame, ReadersSame
<1>4. ControllerInv' /\ StartInv'
  BY <1>1, <1>2 DEF ControllerInv, StartInv, hbqVars
<1>5. nextId \in 1..MaxNr + 1 /\ MaxNr \in Nat /\ Nr = 1..MaxNr
  BY <1>1, <1>2, MessageServiceAssumption DEF OtherTypes
<1>6. Tail(toNumberService) \in Seq(Client \cup {Kill})
  BY <1>1, <1>2 DEF OtherTypes
<1>7. arrived' = arrived
  BY <1>2 DEF hbqVars
<1>8. ASSUME nextId' \in 0..MaxNr + 1
      PROVE  OtherTypes'
  BY <1>1, <1>2, <1>6, <1>8 DEF OtherTypes
<1>9. CASE nextId' = 0 /\ UNCHANGED box
  <2>1. Handed \subseteq Handed'
    BY <1>5, <1>9 DEF Handed
  <2>2. EachOnce'
    BY <1>1, <1>2, <1>7, <1>9, <2>1, HandedGrows
  <2>3. ClientTypes'
    BY <1>1, <1>2, <1>9 DEF ClientTypes
  <2>4. OtherTypes'
    BY <1>5, <1>8, <1>9
  <2> QED
    BY <1>3, <1>4, <2>2, <2>3, <2>4 DEF ServiceInv
<1>10. CASE /\ Head(toNumberService) \in Client /\ nextId <= MaxNr
            /\ nextId' = nextId + 1
            /\ Send(Head(toNumberService), [type |-> "nid", nr |-> nextId])
  <2>1. PICK m \in Mail : /\ m = [type |-> "nid", nr |-> nextId]
                          /\ m.type = "nid" /\ m.nr = nextId
    BY <1>5, <1>10 DEF Mail
  <2>2. PICK c \in Client : Send(c, m)
    BY <1>10, <2>1
  <2>3. /\ box' \in [Client -> Seq(Mail)]
        /\ box'[c] = box[c] \/ box'[c] = Append(box[c], m)
        /\ \A d \in Client : d # c => box'[d] = box[d]
    BY <1>1, <2>1, <2>2, SendEffect
  <2>4. nextId \notin Handed /\ Handed' = Handed \cup {nextId} /\ nextId' \in 0..MaxNr + 1
    BY <1>5, <1>10 DEF Handed
  <2>5. box[c] \in Seq(Mail) /\ Once(box[c], "nid") /\ nextId \notin NrsOf(box[c], "nid")
    BY <1>1, <2>2, <2>4 DEF ClientTypes, EachOnce, OnceAtClient, OfClient, Boxed
  <2>6. NrsOf(Append(box[c], m), "nid")
          = NrsOf(box[c], "nid") \cup (IF m.type = "nid" THEN {m.nr} ELSE {})
    BY <2>1, <2>5, AppendOnce
  <2>7. Once(Append(box[c], m), "nid")
    BY <2>1, <2>5, AppendOnce
  <2>8. Boxed(c)' \subseteq Boxed(c) \cup {nextId} /\ Once(box'[c], "nid")
    BY <2>1, <2>3, <2>5, <2>6, <2>7 DEF Boxed
  <2>9. OthersSame(c)
    BY <1>2, <2>3 DEF OthersSame
  <2>10. EachOnce'
    BY <1>1, <1>2, <1>7, <2>2, <2>4, <2>8, <2>9, NumberGiven
  <2>11. ClientTypes'
    BY <1>1, <1>2, <2>3 DEF ClientTypes
  <2> QED
    BY <1>3, <1>4, <1>8, <2>4, <2>10, <2>11 DEF ServiceInv
<1>11. CASE UNCHANGED <<nextId, box>>
  <2>1. EachOnce'
    BY <1>1, <1>2, <1>7, <1>11, HandedGrows DEF Handed
  <2>2. ClientTypes'
    BY <1>1, <1>2, <1>11 DEF ClientTypes
  <2>3. OtherTypes'
    BY <1>1, <1>8, <1>11 DEF OtherTypes
  <2> QED
    BY <1>3, <1>4, <2>1, <2>2, <2>3 DEF ServiceInv
<1> QED
  BY <1>9, <1>10, <1>11 DEF NumberService

-----------------------------------------------------------------------------
(***************************************************************************)
(* The controller and the CMEM.                                            *)
(***************************************************************************)
LEMMA PlacesSame ==
  ASSUME EachOnce, UNCHANGED <<toServer, pc, nid, box, fromServer, arrived, nextId>>
  PROVE  EachOnce'
BY HandedGrows DEF Handed

LEMMA ControllerKeeps ==
  ASSUME ServiceInv,
         ControllerGetMessages \/ ControllerKill \/ ControllerReceive
           \/ \E c \in Client : CMEMForgets(c),
         OtherTypes', StartInv', ControllerInv', ReaderInv',
         got' \in [Client -> SUBSET Nat]
  PROVE  ServiceInv'
<1>1. /\ ClientTypes /\ EachOnce /\ IInv /\ DLQWindow
  BY DEF ServiceInv
<1>2. UNCHANGED <<hbqVars, nextId, fromServer, toServer, pc, counter, nid, sleepTime, lifetime, box>>
  BY DEF ControllerGetMessages, ControllerKill, ControllerReceive, CMEMForgets, nsVars, clientVars
<1>3. IInv' /\ DLQWindow'
  BY <1>1, <1>2, HBQSame
<1>4. EachOnce'
  BY <1>1, <1>2, PlacesSame DEF hbqVars
<1>5. ClientTypes'
  BY <1>1, <1>2 DEF ClientTypes
<1> QED
  BY <1>3, <1>4, <1>5 DEF ServiceInv

LEMMA ControllerGetMessagesKeeps ==
  ASSUME ServiceInv, ControllerGetMessages
  PROVE  ServiceInv'
<1>1. ClientTypes /\ OtherTypes /\ StartInv /\ ControllerInv /\ ReaderInv
  BY DEF ServiceInv
<1>2. /\ ctrl = "loop" /\ toController # << >> /\ Head(toController) \in Client
      /\ toController' = Tail(toController) /\ ctrlClient' = Head(toController)
      /\ ctrl' = "awaitReply"
      /\ fromController' = Append(fromController, Deliver(cmem[ctrlClient'], ctrlClient'))
      /\ UNCHANGED <<hbqVars, serverState, timer, kill, nextId, toNumberService, ctrlReply, cmem,
                     forgets, fromServer, hbqReady, got>>
  BY DEF ControllerGetMessages, serverVars, nsVars, cmemVars
<1>3. fromController = << >> /\ ctrlReply = << >> /\ serverState # "init"
  BY <1>1, <1>2 DEF ControllerInv, StartInv
<1>4. fromController' = <<Deliver(cmem[ctrlClient'], ctrlClient')>>
  BY <1>2, <1>3
<1>5. Tail(toController) \in Seq(Client \cup {Kill})
  BY <1>1, <1>2 DEF OtherTypes
<1>6. OtherTypes'
  BY <1>1, <1>2, <1>5 DEF OtherTypes
<1>7. StartInv'
  BY <1>1, <1>2, <1>3 DEF StartInv, hbqVars
<1>8. ControllerInv'
  BY <1>2, <1>3, <1>4 DEF ControllerInv
<1>9. \A c \in Client : NextOf(c)' = NextOf(c)
  BY <1>2, <1>3 DEF NextOf
<1>10. ReaderInv'
  BY <1>1, <1>2, <1>9 DEF ReaderInv, ReadUpTo, WideGap, hbqVars, queueVars
<1> QED
  BY <1>1, <1>2, <1>6, <1>7, <1>8, <1>10, ControllerKeeps DEF ClientTypes

LEMMA ControllerKillKeeps ==
  ASSUME ServiceInv, ControllerKill
  PROVE  ServiceInv'
<1>1. ClientTypes /\ OtherTypes /\ StartInv /\ ControllerInv /\ ReaderInv
  BY DEF ServiceInv
<1>2. /\ ctrl = "loop" /\ toController # << >>
      /\ toController' = Tail(toController) /\ ctrl' = "awaitDown"
      /\ fromController' = Append(fromController, Dell)
      /\ UNCHANGED <<hbqVars, serverState, timer, kill, nextId, toNumberService, ctrlClient,
                     ctrlReply, cmem, forgets, fromServer, hbqReady, got>>
  BY DEF ControllerKill, serverVars, nsVars, cmemVars
<1>3. fromController = << >> /\ ctrlReply = << >> /\ serverState # "init"
  BY <1>1, <1>2 DEF ControllerInv, StartInv
<1>4. fromController' = <<Dell>>
  BY <1>2, <1>3
<1>5. Tail(toController) \in Seq(Client \cup {Kill})
  BY <1>1, <1>2 DEF OtherTypes
<1>6. OtherTypes'
  BY <1>1, <1>2, <1>5 DEF OtherTypes
<1>7. StartInv'
  BY <1>1, <1>2, <1>3 DEF StartInv, hbqVars
<1>8. ControllerInv'
  BY <1>2, <1>3, <1>4 DEF ControllerInv
<1>9. \A c \in Client : NextOf(c)' = NextOf(c)
  BY <1>2, <1>3 DEF NextOf
<1>10. ReaderInv'
  BY <1>1, <1>2, <1>9 DEF ReaderInv, ReadUpTo, WideGap, hbqVars, queueVars
<1> QED
  BY <1>1, <1>2, <1>6, <1>7, <1>8, <1>10, ControllerKeeps DEF ClientTypes

LEMMA ControllerReceiveKeeps ==
  ASSUME ServiceInv, ControllerReceive
  PROVE  ServiceInv'
<1>1. ClientTypes /\ OtherTypes /\ StartInv /\ ControllerInv /\ ReaderInv
  BY DEF ServiceInv
<1>2. /\ ctrlReply # << >> /\ Awaited(Head(ctrlReply))
      /\ ctrlReply' = Tail(ctrlReply)
      /\ ctrl' = IF ctrl = "awaitReply" THEN "loop" ELSE "down"
      /\ cmem' = IF Head(ctrlReply).nr = 0 THEN cmem
                 ELSE [cmem EXCEPT ![ctrlClient] = Head(ctrlReply).nr + 1]
      /\ UNCHANGED <<hbqVars, serverState, timer, kill, nextId, toNumberService, ctrlClient,
                     toController, forgets, fromServer, fromController, hbqReady, got>>
  BY DEF ControllerReceive, updateClient, serverVars, nsVars
<1>3. ctrl = "awaitReply"
  <2>1. CASE ctrl = "awaitDown"
    <3>1. ctrlReply = <<[reply |-> "ok", nr |-> 0]>>
      BY <1>1, <1>2, <2>1 DEF ControllerInv
    <3>2. Head(ctrlReply).reply = "ok"
      BY <3>1
    <3> QED
      BY <1>2, <2>1, <3>2 DEF Awaited
  <2> QED
    BY <1>2, <2>1 DEF Awaited
<1>4. PICK a \in Nat : ctrlReply = <<[reply |-> "number", nr |-> a]>>
  BY <1>1, <1>2, <1>3 DEF ControllerInv
<1>5. fromController = << >> /\ ctrlClient \in Client
  BY <1>1, <1>2, <1>3 DEF ControllerInv
<1>6. Head(ctrlReply).nr = a /\ ctrlReply[1].nr = a /\ Tail(ctrlReply) = << >>
  BY <1>4
<1>7. cmem' = IF a = 0 THEN cmem ELSE [cmem EXCEPT ![ctrlClient] = a + 1]
  BY <1>2, <1>6
<1>8. cmem \in [Client -> Nat \ {0}] /\ cmem' \in [Client -> Nat \ {0}]
  BY <1>1, <1>5, <1>7 DEF OtherTypes
<1>9. OtherTypes'
  BY <1>1, <1>2, <1>8 DEF OtherTypes
<1>10. StartInv'
  BY <1>1, <1>2, <1>3 DEF StartInv, hbqVars
<1>11. ControllerInv'
  BY <1>2, <1>3, <1>5, <1>6 DEF ControllerInv
<1>12. \A c \in Client : NextOf(c)' = NextOf(c)
  BY <1>2, <1>3, <1>5, <1>6, <1>7, <1>8 DEF NextOf
<1>13. ReaderInv'
  BY <1>1, <1>2, <1>12 DEF ReaderInv, ReadUpTo, WideGap, hbqVars, queueVars
<1> QED
  BY <1>1, <1>2, <1>9, <1>10, <1>11, <1>13, ControllerKeeps DEF ClientTypes

LEMMA CMEMForgetsKeeps ==
  ASSUME ServiceInv, NEW c \in Client, CMEMForgets(c)
  PROVE  ServiceInv'
<1>1. ClientTypes /\ OtherTypes /\ StartInv /\ ControllerInv /\ ReaderInv /\ IInv
  BY DEF ServiceInv
<1>2. /\ forgets < MaxForget /\ ~ (ctrl = "awaitReply" /\ ctrlClient = c)
      /\ cmem' = [cmem EXCEPT ![c] = 1] /\ forgets' = forgets + 1
      /\ got' = [got EXCEPT ![c] = {}]
      /\ UNCHANGED <<hbqVars, serverState, timer, kill, nextId, toNumberService, ctrl, ctrlClient,
                     toController, ctrlReply, fromServer, fromController, hbqReady>>
  BY DEF CMEMForgets, serverVars, nsVars, ctrlVars
<1>3. /\ cmem \in [Client -> Nat \ {0}] /\ got \in [Client -> SUBSET Nat]
      /\ expected \in Nat \ {0} /\ dlq \in Seq(Entry)
  BY <1>1 DEF OtherTypes, ClientTypes, IInv, HBQTypeOK
<1>4. /\ cmem'[c] = 1 /\ got'[c] = {} /\ cmem' \in [Client -> Nat \ {0}]
      /\ got' \in [Client -> SUBSET Nat]
      /\ \A d \in Client : d # c => cmem'[d] = cmem[d] /\ got'[d] = got[d]
  BY <1>2, <1>3
<1>5. forgets' \in 0..MaxForget
  BY <1>1, <1>2, MessageServiceAssumption DEF OtherTypes
<1>6. OtherTypes'
  BY <1>1, <1>2, <1>4, <1>5 DEF OtherTypes
<1>7. StartInv'
  BY <1>1, <1>2 DEF StartInv, hbqVars
<1>8. ControllerInv'
  BY <1>1, <1>2, <1>4 DEF ControllerInv
<1>9. \A n \in AllNumbers(dlq) : n \in Nat /\ n >= 1
  <2>1. AllNumbers(dlq) = {dlq[i].nr : i \in DOMAIN dlq}
    BY <1>3, AllNumbersAre
  <2>2. \A i \in DOMAIN dlq : dlq[i] \in Entry
    BY <1>3
  <2>3. \A e \in Entry : e.nr \in Nat \ {0}
    BY DEF Entry
  <2>4. \A i \in DOMAIN dlq : dlq[i].nr \in Nat \ {0}
    BY <2>2, <2>3
  <2> QED
    BY <2>1, <2>4
<1>10. ReadUpTo(c)'
  <2>1. NextOf(c)' = 1
    BY <1>2, <1>4 DEF NextOf
  <2> QED
    BY <1>2, <1>3, <1>4, <1>9, <2>1 DEF ReadUpTo, hbqVars, queueVars
<1>11. ASSUME NEW d \in Client, d # c
       PROVE  ReadUpTo(d)'
  <2>1. NextOf(d)' = NextOf(d) /\ got'[d] = got[d]
    BY <1>2, <1>4, <1>11 DEF NextOf
  <2>2. ReadUpTo(d)
    BY <1>1 DEF ReaderInv
  <2> QED
    BY <1>2, <2>1, <2>2 DEF ReadUpTo, WideGap, hbqVars, queueVars
<1>12. ReaderInv'
  BY <1>10, <1>11 DEF ReaderInv
<1> QED
  BY <1>4, <1>6, <1>7, <1>8, <1>12, ControllerKeeps

-----------------------------------------------------------------------------
(***************************************************************************)
(* What a push brings to the DLQ is not older than the number that was     *)
(* expected.                                                               *)
(***************************************************************************)
LEMMA PushAddsOnly ==
  ASSUME NEW new \in Seq(Entry), NEW queue \in Seq(Entry)
  PROVE  AllNumbers(push2DLQ(new, queue)) \subseteq AllNumbers(new) \cup AllNumbers(queue)
<1> DEFINE all == new \o queue
           m == IF Len(all) <= DLQSize THEN Len(all) ELSE DLQSize
           r == SubSeq(all, 1, m)
<1>1. /\ all \in Seq(Entry) /\ Len(all) = Len(new) + Len(queue)
      /\ DOMAIN new = 1..Len(new) /\ DOMAIN queue = 1..Len(queue)
      /\ Len(new) \in Nat /\ Len(queue) \in Nat
      /\ \A i \in 1..Len(all) : all[i] = IF i <= Len(new) THEN new[i] ELSE queue[i - Len(new)]
  OBVIOUS
<1>2. push2DLQ(new, queue) = r
  BY DEF push2DLQ, cutToSize
<1> HIDE DEF all
<1>3. m \in Nat /\ m <= Len(all) /\ Len(all) \in Nat
  BY <1>1, DLQSizeAssumption
<1> HIDE DEF m
<1>4. r \in Seq(Entry) /\ DOMAIN r = 1..m /\ \A i \in 1..m : r[i] = all[i]
  BY <1>1, <1>3
<1> HIDE DEF r
<1>5. /\ AllNumbers(r) = {r[i].nr : i \in DOMAIN r}
      /\ AllNumbers(new) = {new[i].nr : i \in DOMAIN new}
      /\ AllNumbers(queue) = {queue[i].nr : i \in DOMAIN queue}
  BY <1>4, AllNumbersAre
<1>6. ASSUME NEW i \in 1..m
      PROVE  r[i].nr \in AllNumbers(new) \cup AllNumbers(queue)
  <2>1. i \in 1..Len(all) /\ r[i] = all[i] /\ i \in Nat /\ i >= 1
    BY <1>3, <1>4
  <2>2. CASE i <= Len(new)
    <3>1. i \in DOMAIN new /\ r[i] = new[i]
      BY <1>1, <2>1, <2>2
    <3> QED
      BY <1>5, <3>1
  <2>3. CASE ~ (i <= Len(new))
    <3>1. i - Len(new) \in DOMAIN queue /\ r[i] = queue[i - Len(new)]
      BY <1>1, <2>1, <2>3
    <3> QED
      BY <1>5, <3>1
  <2> QED
    BY <2>2, <2>3
<1> QED
  BY <1>2, <1>4, <1>5, <1>6

LEMMA AppendGrows ==
  ASSUME dlq \in Seq(Entry), expected \in Nat,
         NEW list \in Seq(Nat), NEW e \in Nat \ {0},
         NEW entry \in Entry, entry.nr = e - 1, e - 1 >= expected,
         NEW size, tryToAppend(e, entry, size, list)
  PROVE  /\ expected' \in Nat /\ expected' >= expected
         /\ \A n \in AllNumbers(dlq') : n \in AllNumbers(dlq) \/ n >= expected
         /\ \A n \in released' \cup gaps' : n \in released \cup gaps \/ n >= expected
         /\ released \subseteq released' /\ gaps \subseteq gaps'
<1> DEFINE new == Run(e, list) \o <<entry>>
           k == RunLength(e, list)
<1>1. /\ dlq' = push2DLQ(new, dlq)
      /\ released' = released \cup NumbersOf(new, FALSE)
      /\ gaps' = gaps \cup NumbersOf(new, TRUE)
      /\ expected' = e + k
  BY DEF tryToAppend, Store
<1>2. k \in Nat
  BY RunLengthProperties
<1>3. /\ new \in Seq(Entry)
      /\ NumbersOf(new, FALSE) = e..e + k - 1 \cup (IF entry.gap THEN {} ELSE {e - 1})
      /\ NumbersOf(new, TRUE) = IF entry.gap THEN {e - 1} ELSE {}
  BY StoredEntries
<1> HIDE DEF new, k
<1>4. \A n \in NumbersOf(new, FALSE) \cup NumbersOf(new, TRUE) : n >= expected
  <2>1. ASSUME NEW n \in e..e + k - 1
        PROVE  n >= expected
    <3>1. n \in Int /\ n >= e /\ e \in Int /\ expected \in Int
      BY <1>2
    <3>2. e - 1 >= expected
      OBVIOUS
    <3> QED
      BY <3>1, <3>2
  <2>2. \A n \in NumbersOf(new, FALSE) \cup NumbersOf(new, TRUE) : n \in e..e + k - 1 \/ n = e - 1
    <3> DEFINE F == NumbersOf(new, FALSE)
               G == NumbersOf(new, TRUE)
               R == e..e + k - 1
    <3>1. F \subseteq R \cup {e - 1} /\ G \subseteq {e - 1}
      <4>1. /\ F = R \cup (IF entry.gap THEN {} ELSE {e - 1})
            /\ G = IF entry.gap THEN {e - 1} ELSE {}
        BY <1>3
      <4> HIDE DEF F, G, R
      <4> QED
        BY <4>1
    <3> HIDE DEF F, G, R
    <3>2. \A n \in F \cup G : n \in R \/ n = e - 1
      BY <3>1
    <3> QED
      BY <3>2 DEF F, G, R
  <2> QED
    BY <2>1, <2>2
<1>5. AllNumbers(dlq') \subseteq AllNumbers(new) \cup AllNumbers(dlq)
  BY <1>1, <1>3, PushAddsOnly
<1>6. expected' \in Nat /\ expected' >= expected
  BY <1>1, <1>2
<1> QED
  BY <1>1, <1>4, <1>5, <1>6 DEF AllNumbers

LEMMA PushGrows ==
  ASSUME IInv, NEW n \in Nr \ arrived, pushHBQ(n)
  PROVE  /\ expected' \in Nat /\ expected' >= expected
         /\ \A m \in AllNumbers(dlq') : m \in AllNumbers(dlq) \/ m >= expected
         /\ \A m \in released' \cup gaps' : m \in released \cup gaps \/ m >= expected
         /\ released \subseteq released' /\ gaps \subseteq gaps'
<1>1. /\ dlq \in Seq(Entry) /\ expected \in Nat /\ hbqList \in Seq(Nat) /\ hbqSize = Len(hbqList)
      /\ n \in Nat \ {0}
  BY NrAssumption DEF IInv, HBQTypeOK, HoldBackBounded
<1>2. CASE UNCHANGED queueVars
  BY <1>1, <1>2 DEF queueVars
<1>3. CASE n = expected /\ tryToAppend(n + 1, Message(n), hbqSize, hbqList)
  <2>1. Message(n) \in Entry /\ Message(n).nr = (n + 1) - 1 /\ n + 1 \in Nat \ {0}
    BY <1>1 DEF Message, Entry
  <2>2. (n + 1) - 1 >= expected
    BY <1>1, <1>3
  <2> QED
    BY <1>1, <1>3, <2>1, <2>2, AppendGrows
<1>4. CASE n > expected /\ tryToCloseGap(hbqSize + 1, pushToHBQ(hbqList, n))
  <2> DEFINE list == pushToHBQ(hbqList, n)
             e == list[1]
  <2>1. CASE ThirdReached(hbqSize + 1)
    <3>1. list \in Seq(Nat)
      BY <1>4, Inserted
    <3>2. e \in Held \cup {n} /\ e - 1 \in Nat /\ e - 1 >= expected
      BY <1>4, <2>1, PushClosesGapEffect
    <3>3. tryToAppend(e, LueckeGeschlossen(e - 1), hbqSize + 1, list)
      BY <1>4, <2>1 DEF tryToCloseGap
    <3>4. e \in Nat
      BY <1>1, <3>2 DEF Held
    <3> HIDE DEF e, list
    <3>5. e - 1 > 0
      BY <1>1, <3>2, <3>4 DEF IInv, HBQTypeOK
    <3>6. LueckeGeschlossen(e - 1) \in Entry /\ LueckeGeschlossen(e - 1).nr = e - 1 /\ e \in Nat \ {0}
      BY <3>4, <3>5 DEF LueckeGeschlossen, Entry
    <3> QED
      BY <1>1, <3>1, <3>2, <3>3, <3>6, AppendGrows
  <2>2. CASE ~ ThirdReached(hbqSize + 1)
    BY <1>1, <1>4, <2>2 DEF tryToCloseGap
  <2> QED
    BY <2>1, <2>2
<1> QED
  BY <1>2, <1>3, <1>4 DEF pushHBQ

LEMMA IntervalGrows ==
  ASSUME NEW a \in Nat, NEW b \in Nat, b >= a
  PROVE  \A m \in 1..a - 1 : m \in 1..b - 1 /\ ~ (m >= a)
OBVIOUS

(***************************************************************************)
(* ... so what the readers have got stays what they can have got.          *)
(***************************************************************************)
LEMMA PushKeepsReaders ==
  ASSUME ServiceInv, NEW n \in Nr \ arrived, pushHBQ(n),
         UNCHANGED <<ctrl, ctrlClient, ctrlReply, cmem, got>>
  PROVE  ReaderInv'
<1>1. /\ IInv /\ ReaderInv /\ ClientTypes
  BY DEF ServiceInv
<1>2. /\ expected' \in Nat /\ expected' >= expected /\ expected \in Nat
      /\ \A m \in AllNumbers(dlq') : m \in AllNumbers(dlq) \/ m >= expected
      /\ \A m \in released' \cup gaps' : m \in released \cup gaps \/ m >= expected
      /\ released \subseteq released' /\ gaps \subseteq gaps'
      /\ \A m \in released \cup gaps : m \in Nat /\ m < expected
  BY <1>1, PushGrows DEF IInv, HBQTypeOK, Decided
<1>3. /\ dlq \in Seq(Entry) /\ dlq' \in Seq(Entry)
  <2>1. IInv'
    BY <1>1, IInvNext DEF HBQNext
  <2> QED
    BY <1>1, <2>1 DEF IInv, HBQTypeOK
<1>4. \A m \in AllNumbers(dlq') : m \in Nat
  <2>1. /\ AllNumbers(dlq') = {dlq'[i].nr : i \in DOMAIN dlq'}
        /\ \A i \in DOMAIN dlq' : dlq'[i].nr \in Nat
    BY <1>3, AllNumbersAre
  <2> QED
    BY <2>1
<1>5. \A m \in 1..expected - 1 : m \in 1..expected' - 1 /\ ~ (m >= expected)
  <2>1. expected \in Nat /\ expected' \in Nat /\ expected' >= expected
    BY <1>2
  <2> QED
    BY <2>1, IntervalGrows, Zenon
<1>6. ~ WideGap' => ~ WideGap
  <2> SUFFICES ASSUME 1..expected' - 1 = released' \cup gaps'
               PROVE  1..expected - 1 = released \cup gaps
    BY DEF WideGap
  <2>1. ASSUME NEW m \in 1..expected - 1
        PROVE  m \in released \cup gaps
    BY <1>2, <1>5
  <2>2. ASSUME NEW m \in released \cup gaps
        PROVE  m \in 1..expected - 1
    <3>1. m \in 1..expected' - 1
      BY <1>2
    <3> QED
      BY <1>2, <3>1
  <2> QED
    BY <2>1, <2>2
<1>7. ASSUME NEW c \in Client
      PROVE  ReadUpTo(c)'
  <2>1. NextOf(c)' = NextOf(c) /\ got' = got
    BY DEF NextOf
  <2>2. /\ NextOf(c) \in Nat \ {0} /\ NextOf(c) <= expected
        /\ \A m \in got[c] : m < expected /\ m \in Nat
        /\ \A m \in AllNumbers(dlq) : m < NextOf(c) => m \in got[c]
        /\ \A m \in AllNumbers(dlq), k \in got[c] : m < k => m \in got[c]
        /\ ~ WideGap => \A m \in got[c] : m < NextOf(c)
    BY <1>1 DEF ReaderInv, ReadUpTo, ClientTypes
  <2> DEFINE next == NextOf(c)
  <2> HIDE DEF next
  <2>3. next \in Nat \ {0} /\ next <= expected'
    BY <1>2, <2>2 DEF next
  <2>4. \A m \in got[c] : m < expected'
    BY <1>2, <2>2
  <2>5. \A m \in AllNumbers(dlq') : m < next => m \in got[c]
    BY <1>2, <1>4, <2>2 DEF next
  <2>6. \A m \in AllNumbers(dlq'), k \in got[c] : m < k => m \in got[c]
    BY <1>2, <1>4, <2>2
  <2>7. ~ WideGap' => \A m \in got[c] : m < next
    BY <1>6, <2>2 DEF next
  <2> QED
    BY <2>1, <2>3, <2>4, <2>5, <2>6, <2>7 DEF ReadUpTo, next
<1> QED
  BY <1>7 DEF ReaderInv

(***************************************************************************)
(* A push that the server has sent has a number that has not arrived.      *)
(***************************************************************************)
LEMMA PushedIsNew ==
  ASSUME OtherTypes, EachOnce, fromServer # << >>, Head(fromServer).type = "pushHBQ"
  PROVE  Head(fromServer).nr \in Nr \ arrived
<1>1. fromServer \in Seq(HReq) /\ Once(fromServer, "pushHBQ") /\ Pushed \cap arrived = {}
  BY DEF OtherTypes, EachOnce
<1>2. Head(fromServer) \in HReq
  BY <1>1
<1>3. Head(fromServer).nr \in NrsOf(fromServer, "pushHBQ")
  BY <1>1, TailOnce
<1>4. Head(fromServer).nr \in Nr
  BY <1>2 DEF HReq, Start
<1> QED
  BY <1>1, <1>3, <1>4 DEF Pushed

LEMMA HBQFromServerKeeps ==
  ASSUME ServiceInv, HBQFromServer
  PROVE  ServiceInv' /\ HBQNext
<1>1. /\ ClientTypes /\ OtherTypes /\ StartInv /\ EachOnce /\ ControllerInv /\ ReaderInv
      /\ IInv /\ DLQWindow
  BY DEF ServiceInv
<1>2. /\ fromServer # << >> /\ fromServer' = Tail(fromServer)
      /\ \/ Head(fromServer) = Start /\ initHBQ /\ hbqReady' = TRUE
         \/ /\ Head(fromServer).type = "pushHBQ"
            /\ pushHBQ(Head(fromServer).nr) /\ UNCHANGED hbqReady
      /\ UNCHANGED <<serverState, timer, kill, toServer, nextId, toNumberService, ctrl, ctrlClient,
                     toController, ctrlReply, cmem, forgets, fromController,
                     pc, counter, nid, sleepTime, lifetime, box, got>>
  BY DEF HBQFromServer, serverVars, nsVars, ctrlVars, cmemVars, clientVars
<1>3. fromServer \in Seq(HReq) /\ Once(fromServer, "pushHBQ")
  BY <1>1 DEF OtherTypes, EachOnce
<1>4. /\ Tail(fromServer) \in Seq(HReq) /\ Once(Tail(fromServer), "pushHBQ")
      /\ NrsOf(Tail(fromServer), "pushHBQ") \subseteq NrsOf(fromServer, "pushHBQ")
      /\ Head(fromServer).type = "pushHBQ" =>
           Head(fromServer).nr \in NrsOf(fromServer, "pushHBQ")
             /\ Head(fromServer).nr \notin NrsOf(Tail(fromServer), "pushHBQ")
  BY <1>2, <1>3, TailOnce
<1>5. ClientTypes'
  BY <1>1, <1>2 DEF ClientTypes
<1>6. OtherTypes'
  BY <1>1, <1>2, <1>4 DEF OtherTypes
<1>7. ControllerInv'
  BY <1>1, <1>2 DEF ControllerInv
<1>8. hbqState' = "loop"
  BY <1>2 DEF initHBQ, pushHBQ
<1>9. StartInv'
  BY <1>1, <1>2, <1>8 DEF StartInv
<1>10. \A c \in Client : OfClient(c)' = OfClient(c) /\ OnceAtClient(c)' = OnceAtClient(c)
  BY <1>2 DEF OfClient, OnceAtClient, Boxed, Sleeping, Dropped
<1>11. Handed' = Handed /\ Pushed' \subseteq Pushed /\ Once(fromServer', "pushHBQ")
  BY <1>2, <1>4 DEF Handed, Pushed
<1>12. CASE Head(fromServer) = Start /\ initHBQ
  <2>1. HBQNext
    BY <1>12 DEF HBQNext
  <2>2. IInv' /\ DLQWindow'
    BY <1>1, <2>1, IInvNext, WindowNext
  <2>3. /\ arrived' = arrived /\ dlq' = << >> /\ expected' = 1 /\ expected = 1 /\ dlq = << >>
        /\ released' = released /\ gaps' = gaps
    BY <1>1, <1>12 DEF initHBQ, expectedNr, IInv, StartupEmpty
  <2>4. EachOnce'
    BY <1>1, <1>10, <1>11, <2>3 DEF EachOnce
  <2>5. ReaderInv'
    BY <1>1, <1>2, <2>3 DEF ReaderInv, ReadUpTo, NextOf, WideGap
  <2> QED
    BY <1>5, <1>6, <1>7, <1>9, <2>1, <2>2, <2>4, <2>5 DEF ServiceInv
<1>13. CASE Head(fromServer).type = "pushHBQ" /\ pushHBQ(Head(fromServer).nr)
  <2>1. PICK n \in Nr \ arrived : n = Head(fromServer).nr
    BY <1>1, <1>2, <1>13, PushedIsNew
  <2>2. pushHBQ(n)
    BY <1>13, <2>1
  <2>3. HBQNext
    BY <2>2 DEF HBQNext
  <2>4. IInv' /\ DLQWindow'
    BY <1>1, <2>3, IInvNext, WindowNext
  <2>5. arrived' = arrived \cup {n} /\ n \in Pushed /\ n \notin Pushed'
    BY <1>2, <1>4, <1>13, <2>1, <2>2 DEF pushHBQ, Pushed
  <2>6. EachOnce'
    <3>1. Pushed' \cup arrived' \subseteq Pushed \cup arrived /\ Pushed' \cap arrived' = {}
      BY <1>1, <1>11, <2>5 DEF EachOnce
    <3> QED
      BY <1>1, <1>10, <1>11, <3>1 DEF EachOnce
  <2>7. ReaderInv'
    BY <1>2, <2>2, PushKeepsReaders
  <2> QED
    BY <1>5, <1>6, <1>7, <1>9, <2>3, <2>4, <2>6, <2>7 DEF ServiceInv
<1> QED
  BY <1>2, <1>12, <1>13

-----------------------------------------------------------------------------
(***************************************************************************)
(* The answer to a reader: nothing, the entry it asked for, or the oldest. *)
(***************************************************************************)
LEMMA AnswerIs ==
  ASSUME NEW queue \in Seq(Entry), Descending(queue), NEW n \in Nat
  PROVE  LET answer == deliverMSG(n, queue)
         IN  /\ answer.nr \in Nat /\ answer.terminiert \in BOOLEAN
             /\ answer.nr # 0 =>
                  /\ answer.nr \in AllNumbers(queue)
                  /\ answer.nr = n \/ \A m \in AllNumbers(queue) : answer.nr <= m
<1> DEFINE answer == deliverMSG(n, queue)
           stored == AllNumbers(queue)
<1>1. /\ stored = {queue[i].nr : i \in DOMAIN queue}
      /\ \A i \in DOMAIN queue : queue[i].nr \in Nat
  BY AllNumbersAre
<1> HIDE DEF stored
<1>2. DOMAIN queue = 1..Len(queue) /\ Len(queue) \in Nat
  OBVIOUS
<1>3. CASE answer = Dummy
  <2>1. Dummy.nr = 0 /\ Dummy.terminiert \in BOOLEAN
    BY DEF Dummy
  <2> HIDE DEF answer
  <2>2. answer.nr = 0 /\ answer.terminiert \in BOOLEAN
    BY <1>3, <2>1, Zenon
  <2> QED
    BY <2>2 DEF answer
<1>4. CASE queue # << >> /\ ~ (n >= expectedNr(queue))
  <2> DEFINE last == Len(queue)
             S == {j \in DOMAIN queue : queue[j].nr = n} \cup {last}
             i == Min(S)
  <2>1. answer = [nr |-> queue[i].nr, terminiert |-> i = 1]
    BY <1>4 DEF deliverMSG
  <2>2. last \in 1..last /\ last \in Nat
    BY <1>2, <1>4
  <2>3. S \in SUBSET Nat /\ S # {} /\ S \subseteq 1..last
    BY <1>2, <2>2
  <2>4. i \in S
    <3> HIDE DEF S
    <3> QED
      BY <2>3, MinLeast
  <2>5. i \in 1..last /\ (queue[i].nr = n \/ i = last)
    BY <2>3, <2>4
  <2> HIDE DEF i, S
  <2>6. answer.nr = queue[i].nr /\ answer.terminiert = (i = 1)
    BY <2>1
  <2> HIDE DEF answer
  <2>7. queue[i].nr \in Nat /\ queue[i].nr \in stored
    BY <1>1, <1>2, <2>5
  <2>8. i = last => \A m \in stored : queue[i].nr <= m
    <3> SUFFICES ASSUME i = last, NEW k \in 1..last
                 PROVE  queue[last].nr <= queue[k].nr
      BY <1>1, <1>2
    <3>1. k = last \/ queue[k].nr > queue[last].nr
      BY <1>2, <2>2 DEF Descending
    <3> QED
      BY <1>1, <1>2, <2>2, <3>1
  <2> QED
    BY <2>5, <2>6, <2>7, <2>8 DEF answer, stored
<1>5. (n >= expectedNr(queue) \/ queue = << >>) => answer = Dummy
  BY DEF deliverMSG
<1> QED
  BY <1>3, <1>4, <1>5

(***************************************************************************)
(* A reader that asks for a number that the DLQ decided on gets that one   *)
(* or a newer one, unless a gap of several numbers was closed.             *)
(***************************************************************************)
LEMMA AnswerNotOlder ==
  ASSUME IInv, DLQWindow, ~ WideGap, NEW n \in Nat \ {0}, deliverMSG(n, dlq).nr # 0
  PROVE  deliverMSG(n, dlq).nr >= n
<1> DEFINE answer == deliverMSG(n, dlq)
<1>1. /\ dlq \in Seq(Entry) /\ Descending(dlq) /\ expected = expectedNr(dlq) /\ expected \in Nat
  BY DEF IInv, HBQTypeOK, ExpectedFromDLQ, DLQWindow, Descending
<1>2. answer.nr \in Nat /\ answer.nr \in AllNumbers(dlq)
  BY <1>1, AnswerIs
<1>3. n \in AllNumbers(dlq) => answer.nr = n
  BY <1>1, AnswerOf
<1>4. n < expected
  <2>1. n >= expected => answer = Dummy
    BY <1>1, AnswerOf
  <2>2. Dummy.nr = 0
    BY DEF Dummy
  <2> QED
    BY <1>1, <2>1, <2>2
<1>5. n \in released \cup gaps
  <2>1. n \in 1..expected - 1
    BY <1>1, <1>4
  <2> QED
    BY <2>1 DEF WideGap
<1>6. CASE n \notin AllNumbers(dlq)
  <2>1. n < dlq[Len(dlq)].nr
    BY <1>5, <1>6 DEF DLQWindow, AllNumbers
  <2>2. /\ AllNumbers(dlq) = {dlq[i].nr : i \in DOMAIN dlq}
        /\ \A i \in DOMAIN dlq : dlq[i].nr \in Nat
    BY <1>1, AllNumbersAre
  <2>3. PICK i \in DOMAIN dlq : answer.nr = dlq[i].nr
    BY <1>2, <2>2
  <2>4. i \in 1..Len(dlq) /\ Len(dlq) \in DOMAIN dlq /\ Len(dlq) \in Nat
    BY <1>1, <2>3
  <2>5. i = Len(dlq) \/ dlq[i].nr > dlq[Len(dlq)].nr
    BY <2>4, <2>3, <1>1 DEF Descending
  <2>6. dlq[i].nr >= n
    BY <2>1, <2>2, <2>3, <2>4, <2>5
  <2> QED
    BY <2>3, <2>6
<1> QED
  BY <1>3, <1>6

(***************************************************************************)
(* The HBQ answers a reader.                                               *)
(***************************************************************************)
LEMMA DeliverEffect ==
  ASSUME ServiceInv, HBQDeliver
  PROVE  /\ ctrl = "awaitReply" /\ ctrlReply = << >> /\ ctrlClient \in Client
         /\ cmem[ctrlClient] \in Nat \ {0}
         /\ fromController = <<Deliver(cmem[ctrlClient], ctrlClient)>> /\ fromController' = << >>
         /\ LET answer == deliverMSG(cmem[ctrlClient], dlq)
            IN  /\ answer.nr \in Nat /\ answer.terminiert \in BOOLEAN
                /\ Send(ctrlClient, [type |-> "reply", nr |-> answer.nr,
                                     terminiert |-> answer.terminiert])
                /\ ctrlReply' = <<[reply |-> "number", nr |-> answer.nr]>>
                /\ got' = [got EXCEPT ![ctrlClient] =
                            IF answer.nr = 0 THEN got[ctrlClient]
                            ELSE got[ctrlClient] \cup {answer.nr}]
         /\ UNCHANGED <<hbqVars, serverState, timer, kill, toServer, nextId, toNumberService, ctrl,
                        ctrlClient, toController, cmem, forgets, fromServer, hbqReady,
                        pc, counter, nid, sleepTime, lifetime>>
<1>1. ControllerInv /\ OtherTypes /\ IInv /\ DLQWindow
  BY DEF ServiceInv
<1>2. fromController # << >> /\ Head(fromController).type = "deliverMSG"
      /\ fromController' = Tail(fromController)
  BY DEF HBQDeliver
<1>3. ctrl # "awaitDown"
  <2> SUFFICES ASSUME fromController = <<Dell>>
               PROVE  FALSE
    BY <1>1, <1>2 DEF ControllerInv
  <2>1. Head(fromController) = Dell
    OBVIOUS
  <2> QED
    BY <1>2, <2>1 DEF Dell
<1>4. /\ ctrl = "awaitReply" /\ ctrlReply = << >> /\ ctrlClient \in Client
      /\ fromController = <<Deliver(cmem[ctrlClient], ctrlClient)>>
  BY <1>1, <1>2, <1>3 DEF ControllerInv
<1>5. cmem[ctrlClient] \in Nat \ {0}
  BY <1>1, <1>4 DEF OtherTypes
<1>6. /\ Head(fromController) = Deliver(cmem[ctrlClient], ctrlClient) /\ fromController' = << >>
      /\ Head(fromController).nr = cmem[ctrlClient] /\ Head(fromController).client = ctrlClient
  BY <1>2, <1>4 DEF Deliver
<1>7. deliverMSG(cmem[ctrlClient], dlq).nr \in Nat
      /\ deliverMSG(cmem[ctrlClient], dlq).terminiert \in BOOLEAN
  BY <1>1, <1>5, AnswerIs DEF IInv, HBQTypeOK, DLQWindow, Descending
<1>8. /\ LET c == Head(fromController).client
             answer == deliverMSG(Head(fromController).nr, dlq)
         IN  /\ Send(c, [type |-> "reply", nr |-> answer.nr, terminiert |-> answer.terminiert])
             /\ ctrlReply' = Append(ctrlReply, [reply |-> "number", nr |-> answer.nr])
             /\ got' = [got EXCEPT ![c] = IF answer.nr = 0 THEN got[c] ELSE got[c] \cup {answer.nr}]
      /\ UNCHANGED <<hbqVars, serverState, timer, kill, toServer, nextId, toNumberService, ctrl,
                     ctrlClient, toController, cmem, forgets, fromServer, hbqReady,
                     pc, counter, nid, sleepTime, lifetime>>
  BY DEF HBQDeliver, serverVars, nsVars, cmemVars, clientVars
<1>9. \A x : Append(ctrlReply, x) = <<x>>
  BY <1>4
<1> QED
  BY <1>4, <1>5, <1>6, <1>7, <1>8, <1>9, Zenon

(***************************************************************************)
(* What the client that asked has got then.                                *)
(***************************************************************************)
LEMMA AnswerKeepsReader ==
  ASSUME IInv, DLQWindow, NEW c \in Client, ReadUpTo(c), got[c] \subseteq Nat,
         NextOf(c) = cmem[c], cmem[c] \in Nat \ {0},
         NEW a \in Nat, a = deliverMSG(cmem[c], dlq).nr,
         NextOf(c)' = IF a = 0 THEN cmem[c] ELSE a + 1,
         got'[c] = IF a = 0 THEN got[c] ELSE got[c] \cup {a},
         UNCHANGED hbqVars
  PROVE  ReadUpTo(c)'
<1>1. UNCHANGED <<expected, dlq, released, gaps>> /\ WideGap' = WideGap
  BY DEF hbqVars, queueVars, WideGap
<1>2. CASE a = 0
  <2>1. NextOf(c)' = NextOf(c) /\ got'[c] = got[c]
    BY <1>2
  <2> QED
    BY <1>1, <2>1 DEF ReadUpTo
<1>3. CASE a # 0
  <2> DEFINE k == cmem[c]
             stored == AllNumbers(dlq)
  <2>1. NextOf(c)' = a + 1 /\ got'[c] = got[c] \cup {a} /\ k \in Nat
    BY <1>3
  <2>2. /\ dlq \in Seq(Entry) /\ Descending(dlq) /\ expected \in Nat
        /\ \A n \in released \cup gaps : n < expected
        /\ stored \subseteq released \cup gaps
    BY DEF IInv, HBQTypeOK, Decided, DLQWindow, Descending, AllNumbers
  <2>3. a \in stored /\ (a = k \/ \A m \in stored : a <= m)
    BY <1>3, <2>1, <2>2, AnswerIs
  <2>4. \A m \in stored : m \in Nat
    <3>1. /\ stored = {dlq[i].nr : i \in DOMAIN dlq}
          /\ \A i \in DOMAIN dlq : dlq[i].nr \in Nat
      BY <2>2, AllNumbersAre
    <3> QED
      BY <3>1
  <2>5. ~ WideGap => a >= k
    BY <1>3, AnswerNotOlder
  <2>6. /\ \A m \in got[c] : m < expected /\ m \in Nat
        /\ \A n \in stored : n < k => n \in got[c]
        /\ \A n \in stored, m \in got[c] : n < m => n \in got[c]
        /\ ~ WideGap => \A m \in got[c] : m < k
    BY DEF ReadUpTo
  <2> HIDE DEF k, stored
  <2>7. \A n \in stored : n < a => n \in got[c]
    BY <2>1, <2>3, <2>4, <2>6
  <2>8. a < expected
    BY <2>2, <2>3
  <2>9. a + 1 \in Nat \ {0} /\ a + 1 <= expected
    BY <2>2, <2>8
  <2>10. \A m \in got[c] \cup {a} : m < expected
    BY <2>6, <2>8
  <2>11. \A n \in stored : n < a + 1 => n \in got[c] \cup {a}
    BY <2>4, <2>7
  <2>12. \A n \in stored, m \in got[c] \cup {a} : n < m => n \in got[c] \cup {a}
    BY <2>6, <2>7
  <2>13. ~ WideGap => \A m \in got[c] \cup {a} : m < a + 1
    BY <2>1, <2>5, <2>6
  <2> QED
    BY <1>1, <2>1, <2>9, <2>10, <2>11, <2>12, <2>13 DEF ReadUpTo, stored
<1> QED
  BY <1>2, <1>3

LEMMA HBQDeliverKeeps ==
  ASSUME ServiceInv, HBQDeliver
  PROVE  ServiceInv'
<1>1. /\ ClientTypes /\ OtherTypes /\ StartInv /\ EachOnce /\ ControllerInv /\ ReaderInv
      /\ IInv /\ DLQWindow
  BY DEF ServiceInv
<1>2. PICK c \in Client : c = ctrlClient
  BY DeliverEffect
<1>3. cmem[c] \in Nat \ {0}
  BY <1>1 DEF OtherTypes
<1>4. PICK answer \in [nr : Nat, terminiert : BOOLEAN] :
        /\ answer.nr = deliverMSG(cmem[c], dlq).nr
        /\ Send(c, [type |-> "reply", nr |-> answer.nr, terminiert |-> answer.terminiert])
        /\ ctrlReply' = <<[reply |-> "number", nr |-> answer.nr]>>
        /\ got' = [got EXCEPT ![c] = IF answer.nr = 0 THEN got[c] ELSE got[c] \cup {answer.nr}]
  <2> DEFINE d == deliverMSG(cmem[c], dlq)
             x == [nr |-> d.nr, terminiert |-> d.terminiert]
  <2>1. /\ d.nr \in Nat /\ d.terminiert \in BOOLEAN
        /\ Send(c, [type |-> "reply", nr |-> d.nr, terminiert |-> d.terminiert])
        /\ ctrlReply' = <<[reply |-> "number", nr |-> d.nr]>>
        /\ got' = [got EXCEPT ![c] = IF d.nr = 0 THEN got[c] ELSE got[c] \cup {d.nr}]
    BY <1>2, DeliverEffect
  <2> HIDE DEF d
  <2>2. x \in [nr : Nat, terminiert : BOOLEAN] /\ x.nr = d.nr /\ x.terminiert = d.terminiert
    BY <2>1
  <2> HIDE DEF x
  <2>3. /\ Send(c, [type |-> "reply", nr |-> x.nr, terminiert |-> x.terminiert])
        /\ ctrlReply' = <<[reply |-> "number", nr |-> x.nr]>>
        /\ got' = [got EXCEPT ![c] = IF x.nr = 0 THEN got[c] ELSE got[c] \cup {x.nr}]
    BY <2>1, <2>2
  <2> QED
    BY <2>2, <2>3 DEF d
<1>5. PICK a \in Nat : a = answer.nr
  OBVIOUS
<1>6. PICK m \in Mail : m.type = "reply" /\ Send(c, m)
  <2> DEFINE x == [type |-> "reply", nr |-> answer.nr, terminiert |-> answer.terminiert]
  <2>1. x \in Mail /\ x.type = "reply"
    BY DEF Mail
  <2> QED
    BY <1>4, <2>1
<1>7. /\ ctrl = "awaitReply" /\ ctrlReply = << >> /\ fromController' = << >>
      /\ UNCHANGED <<hbqVars, serverState, timer, kill, toServer, nextId, toNumberService, ctrl,
                     ctrlClient, toController, cmem, forgets, fromServer, hbqReady,
                     pc, counter, nid, sleepTime, lifetime>>
  BY DeliverEffect
<1>8. IInv' /\ DLQWindow'
  BY <1>1, <1>7, HBQSame
<1>9. /\ box' \in [Client -> Seq(Mail)]
      /\ box'[c] = box[c] \/ box'[c] = Append(box[c], m)
      /\ \A d \in Client : d # c => box'[d] = box[d]
  BY <1>1, <1>6, SendEffect
<1>10. /\ got' \in [Client -> SUBSET Nat] /\ got \in [Client -> SUBSET Nat]
       /\ got'[c] = IF a = 0 THEN got[c] ELSE got[c] \cup {a}
       /\ \A d \in Client : d # c => got'[d] = got[d]
  <2>1. got \in [Client -> SUBSET Nat] /\ got[c] \cup {a} \in SUBSET Nat
    BY <1>1 DEF ClientTypes
  <2> QED
    BY <1>4, <1>5, <2>1
<1>11. ClientTypes'
  BY <1>1, <1>7, <1>9, <1>10 DEF ClientTypes
<1>12. OtherTypes'
  BY <1>1, <1>7 DEF OtherTypes
<1>13. StartInv'
  BY <1>1, <1>7 DEF StartInv, hbqVars
<1>14. ControllerInv'
  BY <1>2, <1>4, <1>5, <1>7 DEF ControllerInv
<1>15. EachOnce'
  <2>1. box[c] \in Seq(Mail) /\ Once(box[c], "nid") /\ OnceAtClient(c)
    BY <1>1 DEF ClientTypes, EachOnce, OnceAtClient
  <2>2. /\ NrsOf(Append(box[c], m), "nid") = NrsOf(box[c], "nid")
        /\ Once(Append(box[c], m), "nid")
    BY <1>6, <2>1, AppendOther
  <2>3. Boxed(c)' = Boxed(c) /\ Once(box'[c], "nid")
    BY <1>9, <2>1, <2>2 DEF Boxed
  <2>4. Sleeping(c)' = Sleeping(c) /\ Dropped(c)' = Dropped(c)
    BY <1>7 DEF Sleeping, Dropped
  <2>5. OnceAtClient(c)' /\ OfClient(c)' \subseteq OfClient(c)
    BY <1>7, <2>1, <2>3, <2>4 DEF OnceAtClient, OfClient
  <2>6. OthersSame(c)
    BY <1>7, <1>9 DEF OthersSame
  <2> QED
    BY <1>1, <1>7, <2>5, <2>6, ClientMoves DEF hbqVars
<1>16. ReadUpTo(c)'
  <2>1. NextOf(c) = cmem[c]
    BY <1>7 DEF NextOf
  <2>2. ctrlReply' # << >> /\ ctrlReply'[1].nr = a
    BY <1>4, <1>5
  <2>3. NextOf(c)' = IF a = 0 THEN cmem[c] ELSE a + 1
    BY <1>2, <1>7, <2>2 DEF NextOf
  <2>4. ReadUpTo(c) /\ got[c] \subseteq Nat
    BY <1>1, <1>10 DEF ReaderInv
  <2> QED
    BY <1>1, <1>3, <1>4, <1>5, <1>7, <1>10, <2>1, <2>3, <2>4, AnswerKeepsReader
<1>17. ASSUME NEW d \in Client, d # c
       PROVE  ReadUpTo(d)'
  <2>1. NextOf(d)' = NextOf(d) /\ got'[d] = got[d]
    BY <1>2, <1>7, <1>10, <1>17 DEF NextOf
  <2>2. ReadUpTo(d)
    BY <1>1 DEF ReaderInv
  <2> QED
    BY <1>7, <2>1, <2>2 DEF ReadUpTo, WideGap, hbqVars, queueVars
<1>18. ReaderInv'
  BY <1>16, <1>17 DEF ReaderInv
<1> QED
  BY <1>8, <1>11, <1>12, <1>13, <1>14, <1>15, <1>18 DEF ServiceInv

(***************************************************************************)
(* The HBQ is ended.                                                       *)
(***************************************************************************)
LEMMA HBQDellKeeps ==
  ASSUME ServiceInv, HBQDell
  PROVE  ServiceInv' /\ HBQNext
<1>1. /\ ClientTypes /\ OtherTypes /\ StartInv /\ EachOnce /\ ControllerInv /\ ReaderInv
      /\ IInv /\ DLQWindow
  BY DEF ServiceInv
<1>2. /\ fromController # << >> /\ Head(fromController) = Dell /\ dellHBQ
      /\ fromController' = Tail(fromController)
      /\ ctrlReply' = Append(ctrlReply, [reply |-> "ok", nr |-> 0])
      /\ UNCHANGED <<serverState, timer, kill, toServer, nextId, toNumberService, ctrl, ctrlClient,
                     toController, cmem, forgets, fromServer, hbqReady,
                     pc, counter, nid, sleepTime, lifetime, box, got>>
  BY DEF HBQDell, serverVars, nsVars, cmemVars, clientVars
<1>3. HBQNext
  BY <1>2 DEF HBQNext
<1>4. IInv' /\ DLQWindow'
  BY <1>1, <1>3, IInvNext, WindowNext
<1>5. /\ hbqState' = "down"
      /\ UNCHANGED <<expected, dlq, released, gaps, arrived>>
  BY <1>2 DEF dellHBQ, queueVars
<1>6. ctrl = "awaitDown" /\ fromController = <<Dell>> /\ ctrlReply = << >>
  <2>1. ctrl # "awaitReply"
    <3> SUFFICES ASSUME fromController = <<Deliver(cmem[ctrlClient], ctrlClient)>>
                 PROVE  FALSE
      BY <1>1, <1>2 DEF ControllerInv
    <3>1. Head(fromController) = Deliver(cmem[ctrlClient], ctrlClient)
      OBVIOUS
    <3>2. Dell.type = "dellHBQ" /\ Deliver(cmem[ctrlClient], ctrlClient).type = "deliverMSG"
      BY DEF Dell, Deliver
    <3> QED
      BY <1>2, <3>1, <3>2
  <2> QED
    BY <1>1, <1>2, <2>1 DEF ControllerInv
<1>7. fromController' = << >> /\ ctrlReply' = <<[reply |-> "ok", nr |-> 0]>>
  BY <1>2, <1>6
<1>8. ClientTypes' /\ OtherTypes'
  BY <1>1, <1>2 DEF ClientTypes, OtherTypes
<1>9. StartInv' /\ ControllerInv'
  BY <1>1, <1>2, <1>5, <1>6, <1>7 DEF StartInv, ControllerInv
<1>10. EachOnce'
  <2>1. UNCHANGED <<toServer, pc, nid, box, fromServer, arrived, nextId>>
    BY <1>2, <1>5
  <2> QED
    BY <1>1, <2>1, PlacesSame
<1>11. ReaderInv'
  <2>1. \A c \in Client : NextOf(c)' = NextOf(c)
    BY <1>2, <1>6 DEF NextOf
  <2> QED
    BY <1>1, <1>2, <1>5, <2>1 DEF ReaderInv, ReadUpTo, WideGap
<1> QED
  BY <1>3, <1>4, <1>8, <1>9, <1>10, <1>11 DEF ServiceInv

-----------------------------------------------------------------------------
(***************************************************************************)
(* The invariant holds when the service starts, every step keeps it, and   *)
(* is a step of the HBQ's specification or leaves the HBQ alone.           *)
(***************************************************************************)
LEMMA ServiceInvInit == Init => ServiceInv
<1> SUFFICES ASSUME Init
             PROVE  ServiceInv
  OBVIOUS
<1> USE DEF Init
<1>1. HBQInit
  OBVIOUS
<1>2. IInv
  BY <1>1, IInvInit
<1>3. DLQWindow
  BY <1>1, DLQSizeAssumption DEF HBQInit, DLQWindow, NumbersOf
<1>4. ClientTypes
  BY MessageServiceAssumption DEF ClientTypes
<1>5. OtherTypes
  <2>1. Start \in HReq
    BY DEF HReq
  <2>2. <<Start>> \in Seq(HReq)
    BY <2>1
  <2>3. 1 \in 0..MaxNr + 1 /\ 0 \in 0..MaxForget
    BY MessageServiceAssumption
  <2>4. fromServer \in Seq(HReq)
    BY <2>2
  <2>5. nextId \in 0..MaxNr + 1 /\ forgets \in 0..MaxForget /\ cmem \in [Client -> Nat \ {0}]
    BY <2>3
  <2>6. toNumberService \in Seq(Client \cup {Kill}) /\ toController \in Seq(Client \cup {Kill})
    OBVIOUS
  <2> QED
    BY <2>4, <2>5, <2>6 DEF OtherTypes
<1>6. StartInv /\ ControllerInv
  BY DEF StartInv, ControllerInv, HBQInit
<1>7. EachOnce
  <2>1. \A c \in Client : /\ Boxed(c) = {} /\ Sleeping(c) = {} /\ Dropped(c) = {}
                          /\ Once(box[c], "nid") /\ Once(toServer[c], "dropmessage")
    BY DEF Boxed, Sleeping, Dropped, NrsOf, Tagged, Once
  <2>2. Pushed = {} /\ Once(fromServer, "pushHBQ") /\ arrived = {}
    <3>1. DOMAIN fromServer = {1} /\ fromServer[1].type = "initHBQ"
      BY DEF Start
    <3>2. Tagged(fromServer, "pushHBQ") = {}
      BY <3>1 DEF Tagged
    <3> QED
      BY <1>1, <3>2 DEF Pushed, NrsOf, Once, HBQInit
  <2> QED
    BY <2>1, <2>2 DEF EachOnce, OnceAtClient, OfClient
<1>8. ReaderInv
  <2>1. \A c \in Client : NextOf(c) = 1 /\ got[c] = {}
    BY DEF NextOf
  <2>2. AllNumbers(dlq) = {} /\ expected = 1
    BY <1>1 DEF HBQInit, AllNumbers, NumbersOf
  <2> QED
    BY <2>1, <2>2 DEF ReaderInv, ReadUpTo
<1> QED
  BY <1>2, <1>3, <1>4, <1>5, <1>6, <1>7, <1>8 DEF ServiceInv

LEMMA ServiceInvNext ==
  ServiceInv /\ [Next]_vars => ServiceInv' /\ [HBQNext]_hbqVars
<1> SUFFICES ASSUME ServiceInv, [Next]_vars
             PROVE  ServiceInv' /\ (HBQNext \/ UNCHANGED hbqVars)
  OBVIOUS
<1>1. ASSUME NEW c \in Client, ClientStep(c) \/ LifetimeOver(c)
      PROVE  ServiceInv' /\ UNCHANGED hbqVars
  <2>1. ServiceInv'
    BY <1>1, ClientStepKeeps
  <2> QED
    BY <1>1, <2>1 DEF ClientStep, StartClient, ReceiveNid, WakeUp, ReceiveMessage, ReceiveKill,
                      LifetimeOver, OtherProcesses
<1>2. ASSUME NEW c \in Client, CMEMForgets(c)
      PROVE  ServiceInv' /\ UNCHANGED hbqVars
  BY <1>2, CMEMForgetsKeeps DEF CMEMForgets
<1>3. ASSUME NEW c \in Client, HandleRequest(c)
      PROVE  ServiceInv' /\ UNCHANGED hbqVars
  BY <1>3, HandleRequestKeeps DEF HandleRequest
<1>4. CASE ServerInit \/ Shutdown \/ TimerFires
  BY <1>4, ServerStepKeeps DEF ServerInit, Shutdown, TimerFires
<1>5. CASE NumberService
  BY <1>5, NumberServiceKeeps DEF NumberService
<1>6. CASE ControllerStep
  BY <1>6, ControllerGetMessagesKeeps, ControllerKillKeeps, ControllerReceiveKeeps
     DEF ControllerStep, ControllerGetMessages, ControllerKill, ControllerReceive
<1>7. CASE HBQFromServer \/ HBQDell
  BY <1>7, HBQFromServerKeeps, HBQDellKeeps
<1>8. CASE HBQDeliver
  BY <1>8, HBQDeliverKeeps DEF HBQDeliver
<1>9. CASE UNCHANGED vars
  <2>1. UNCHANGED <<hbqVars, serverState, timer, kill, toServer, nextId, toNumberService, ctrl,
                    ctrlClient, toController, ctrlReply, cmem, forgets, fromServer, fromController,
                    hbqReady, pc, counter, nid, sleepTime, lifetime, box, got>>
    BY <1>9 DEF vars, serverVars, nsVars, ctrlVars, cmemVars, clientVars
  <2>2. /\ ClientTypes /\ OtherTypes /\ StartInv /\ EachOnce /\ ControllerInv /\ ReaderInv
        /\ IInv /\ DLQWindow
    BY DEF ServiceInv
  <2>3. IInv' /\ DLQWindow' /\ ReaderInv'
    BY <2>1, <2>2, HBQSame, ReadersSame
  <2>4. ClientTypes' /\ OtherTypes'
    BY <2>1, <2>2 DEF ClientTypes, OtherTypes
  <2>5. StartInv' /\ ControllerInv'
    BY <2>1, <2>2 DEF StartInv, ControllerInv, hbqVars
  <2>6. EachOnce'
    BY <2>1, <2>2, PlacesSame DEF hbqVars
  <2> QED
    BY <2>1, <2>3, <2>4, <2>5, <2>6 DEF ServiceInv
<1> QED
  BY <1>1, <1>2, <1>3, <1>4, <1>5, <1>6, <1>7, <1>8, <1>9 DEF Next, ServerStep, HBQStep

LEMMA ServiceInvHolds == Spec => []ServiceInv
BY ServiceInvInit, ServiceInvNext, PTL DEF Spec

(***************************************************************************)
(* Whatever clients, timers and messages between the processes do, the     *)
(* service uses the HBQ as the module HBQ assumes: no number is pushed     *)
(* twice.                                                                  *)
(***************************************************************************)
THEOREM ServiceUsesHBQ == Spec => UsesHBQ
<1>1. Init => HBQInit
  BY DEF Init
<1> QED
  BY <1>1, ServiceInvHolds, ServiceInvNext, PTL DEF Spec, UsesHBQ, HBQSpec

(***************************************************************************)
(* So what is proved of the HBQ holds in the service: it delivers in the   *)
(* order of the numbers ...                                                *)
(***************************************************************************)
THEOREM ServiceDeliversInOrder == Spec => DeliversInOrder
BY ServiceUsesHBQ, ImplementsOrderedDelivery DEF UsesHBQ

(***************************************************************************)
(* The state of every process and every queue has its type.                *)
(***************************************************************************)
THEOREM ServiceTypeCorrect == Spec => []ServiceTypeOK
<1>1. ServiceInv => ServiceTypeOK
  <2> SUFFICES ASSUME ServiceInv
               PROVE  ServiceTypeOK
    OBVIOUS
  <2>1. IInv /\ ClientTypes /\ OtherTypes /\ ControllerInv
    BY DEF ServiceInv
  <2>2. toServer \in [Client -> Seq([type : {"getmsgid", "dropmessage", "getmessages"}, nr : Nat])]
    <3> DEFINE R == [type : {"getmsgid", "dropmessage", "getmessages"}, nr : Nat]
    <3>1. Req \subseteq R
      <4>1. \A x \in [type : {"getmsgid", "getmessages"}, nr : {0}] : x \in R
        OBVIOUS
      <4>2. \A x \in [type : {"dropmessage"}, nr : Nr] : x \in R
        BY NrAssumption
      <4> HIDE DEF R
      <4> QED
        BY <4>1, <4>2 DEF Req
    <3> HIDE DEF R
    <3>2. \A s \in Seq(Req) : s \in Seq(R)
      BY <3>1
    <3> QED
      BY <2>1, <3>2 DEF ClientTypes, R
  <2>3. fromServer \in Seq([type : {"initHBQ", "pushHBQ"}, nr : Nat])
    <3> DEFINE R == [type : {"initHBQ", "pushHBQ"}, nr : Nat]
    <3>1. HReq \subseteq R
      <4>1. Start \in R
        BY DEF Start
      <4>2. \A x \in [type : {"pushHBQ"}, nr : Nr] : x \in R
        BY NrAssumption
      <4> HIDE DEF R
      <4> QED
        BY <4>1, <4>2 DEF HReq
    <3> HIDE DEF R
    <3>2. \A s \in Seq(HReq) : s \in Seq(R)
      BY <3>1
    <3> QED
      BY <2>1, <3>2 DEF OtherTypes, R
  <2>4. ctrlReply \in Seq([reply : {"number", "ok", "down"}, nr : Nat])
    <3> DEFINE R == [reply : {"number", "ok", "down"}, nr : Nat]
    <3>1. [reply |-> "ok", nr |-> 0] \in R /\ \A a \in Nat : [reply |-> "number", nr |-> a] \in R
      OBVIOUS
    <3>2. ctrlReply = << >> \/ \E x \in R : ctrlReply = <<x>>
      BY <2>1, <3>1 DEF ControllerInv
    <3> HIDE DEF R
    <3>3. ctrlReply \in Seq(R)
      <4>1. << >> \in Seq(R) /\ \A x \in R : <<x>> \in Seq(R)
        OBVIOUS
      <4> QED
        BY <3>2, <4>1, Zenon
    <3> QED
      BY <3>3 DEF R
  <2>5. fromController \in Seq([type : {"deliverMSG", "dellHBQ"}, nr : Nat, client : Client \cup {Kill}])
    <3> DEFINE R == [type : {"deliverMSG", "dellHBQ"}, nr : Nat, client : Client \cup {Kill}]
    <3>1. Dell \in R /\ \A n \in Nat, c \in Client : Deliver(n, c) \in R
      BY DEF Dell, Deliver
    <3>2. ctrlClient \in Client => cmem[ctrlClient] \in Nat
      BY <2>1 DEF OtherTypes
    <3>3. fromController = << >> \/ \E x \in R : fromController = <<x>>
      BY <2>1, <3>1, <3>2 DEF ControllerInv
    <3> HIDE DEF R
    <3>4. fromController \in Seq(R)
      <4>1. << >> \in Seq(R) /\ \A x \in R : <<x>> \in Seq(R)
        OBVIOUS
      <4> QED
        BY <3>3, <4>1, Zenon
    <3> QED
      BY <3>4 DEF R
  <2>6. HBQTypeOK /\ ctrl \in {"loop", "awaitReply", "awaitDown", "down"}
    BY <2>1 DEF IInv, ControllerInv
  <2> QED
    BY <2>1, <2>2, <2>3, <2>4, <2>5, <2>6 DEF ServiceTypeOK, ClientTypes, OtherTypes
<1> QED
  BY <1>1, ServiceInvHolds, PTL

(***************************************************************************)
(* initHBQ is the first message the HBQ gets: no client can make the       *)
(* starting HBQ crash.                                                     *)
(***************************************************************************)
THEOREM InitComesFirst == Spec => []InitBeforeRequests
<1>1. ServiceInv => InitBeforeRequests
  BY DEF ServiceInv, StartInv, InitBeforeRequests
<1> QED
  BY <1>1, ServiceInvHolds, PTL

(***************************************************************************)
(* A reader skips nothing that can still be read, however reads, writes,   *)
(* closed gaps and the expiry of its entry in the CMEM interleave.         *)
(***************************************************************************)
THEOREM ReadersSkipNothing == Spec => []NothingSkipped
<1>1. ServiceInv => NothingSkipped
  BY DEF ServiceInv, ReaderInv, ReadUpTo, NothingSkipped, AllNumbers
<1> QED
  BY <1>1, ServiceInvHolds, PTL

(***************************************************************************)
(* No reader is sent a message twice while the CMEM knows it, as long as   *)
(* no gap of several numbers has been closed.                              *)
(***************************************************************************)
THEOREM ReadersRepeatNothing == Spec => NoMessageTwice
<1> DEFINE Twice ==
      \A c \in Client :
        /\ Len(fromController') < Len(fromController)
        /\ Head(fromController) # Dell
        /\ Head(fromController).client = c
        /\ ~ WideGap
        => \/ Head(ctrlReply').nr \notin got[c]
           \/ Head(ctrlReply').nr = 0
<1>1. ASSUME ServiceInv, HBQDeliver
      PROVE  Twice
  <2> SUFFICES ASSUME NEW c \in Client, Head(fromController).client = c, ~ WideGap
               PROVE  Head(ctrlReply').nr \notin got[c] \/ Head(ctrlReply').nr = 0
    OBVIOUS
  <2>1. /\ ctrl = "awaitReply" /\ ctrlReply = << >> /\ cmem[ctrlClient] \in Nat \ {0}
        /\ fromController = <<Deliver(cmem[ctrlClient], ctrlClient)>>
        /\ deliverMSG(cmem[ctrlClient], dlq).nr \in Nat
        /\ ctrlReply' = <<[reply |-> "number", nr |-> deliverMSG(cmem[ctrlClient], dlq).nr]>>
    BY <1>1, DeliverEffect
  <2>2. ctrlClient = c
    BY <2>1 DEF Deliver
  <2> DEFINE a == deliverMSG(cmem[c], dlq).nr
  <2>3. Head(ctrlReply').nr = a /\ a \in Nat /\ cmem[c] \in Nat \ {0}
    BY <2>1, <2>2
  <2>4. NextOf(c) = cmem[c]
    BY <2>1 DEF NextOf
  <2>5. \A m \in got[c] : m < cmem[c] /\ m \in Nat
    BY <1>1, <2>4 DEF ServiceInv, ReaderInv, ReadUpTo, ClientTypes
  <2>6. a # 0 => a >= cmem[c]
    BY <1>1, <2>3, AnswerNotOlder DEF ServiceInv
  <2> HIDE DEF a
  <2> QED
    BY <2>3, <2>5, <2>6
<1>2. ASSUME ServiceInv, [Next]_vars, ~ HBQDeliver
      PROVE  Twice
  <2> SUFFICES ASSUME Len(fromController') < Len(fromController), Head(fromController) # Dell
               PROVE  FALSE
    OBVIOUS
  <2>1. fromController = << >> \/ \E x : fromController = <<x>>
    BY <1>2 DEF ServiceInv, ControllerInv
  <2>2. Len(fromController) \in Nat
    BY <2>1
  <2>3. fromController' # fromController
    BY <2>2
  <2>4. ~ ControllerGetMessages /\ ~ ControllerKill
    BY <1>2, <2>1, <2>2 DEF ControllerGetMessages, ControllerKill
  <2> QED
    BY <1>2, <2>3, <2>4
       DEF Next, ClientStep, StartClient, ReceiveNid, WakeUp, ReceiveMessage, ReceiveKill,
           OtherProcesses, LifetimeOver, CMEMForgets, ServerStep, ServerInit, Shutdown, HandleRequest,
           TimerFires, NumberService, ControllerStep, ControllerReceive, HBQStep, HBQFromServer,
           HBQDell, vars
<1>3. ServiceInv /\ [Next]_vars => [Twice]_vars
  BY <1>1, <1>2
<1> QED
  BY <1>3, ServiceInvHolds, PTL DEF Spec, NoMessageTwice

=============================================================================
