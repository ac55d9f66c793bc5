---------------------------- MODULE BrokerProofs ----------------------------
(***************************************************************************)
(* Proofs about the object broker, for any number of client threads, calls *)
(* and restarts of the name service.                                       *)
(***************************************************************************)
EXTENDS Broker, SequenceTheorems, FiniteSetTheorems, WellFoundedInduction, TLAPS

Answers == {"none", "value", "exception", "mute", "foreign", "address"}

RequestMessage ==
  [type : {"request"}, requestID : Nat, call : Calls, obj : {"ns", "calc"},
   methode : {"add", "rebind", "getService"}]
ResponseMessage ==
  [type : {"response"}, requestID : Nat, call : Calls, value : Answers]
Message == RequestMessage \cup ResponseMessage

Unit == [m : Message, unit : {1, 2}]
Task == [route : Route, request : RequestMessage, answer : Answers]

(* The messages of which there are units among some bytes.                 *)
On(bytes) == {bytes[i].m : i \in DOMAIN bytes}

-----------------------------------------------------------------------------
(***************************************************************************)
(* The operators on bytes and messages.                                    *)
(***************************************************************************)
LEMMA OnConcatenation ==
  ASSUME NEW s \in Seq(Unit), NEW t \in Seq(Unit)
  PROVE  s \o t \in Seq(Unit) /\ On(s \o t) \subseteq On(s) \cup On(t)
<1>1. s \o t \in Seq(Unit)
  OBVIOUS
<1>2. On(s \o t) \subseteq On(s) \cup On(t)
  BY DEF On
<1> QED
  BY <1>1, <1>2

LEMMA OnSubSeq ==
  ASSUME NEW s \in Seq(Unit), NEW m \in Nat \ {0}, NEW n \in 0 .. Len(s)
  PROVE  SubSeq(s, m, n) \in Seq(Unit) /\ On(SubSeq(s, m, n)) \subseteq On(s)
<1>1. SubSeq(s, m, n) \in Seq(Unit)
  OBVIOUS
<1>2. \A i \in 1 .. Len(SubSeq(s, m, n)) :
        i + m - 1 \in 1 .. Len(s) /\ SubSeq(s, m, n)[i] = s[i + m - 1]
  OBVIOUS
<1> QED
  BY <1>1, <1>2 DEF On

LEMMA DecodeProperties ==
  ASSUME NEW bytes \in Seq(Unit)
  PROVE  /\ decode(bytes).messages \in Seq(Message)
         /\ ToSet(decode(bytes).messages) \subseteq On(bytes)
         /\ decode(bytes).rest \in Seq(Unit)
         /\ On(decode(bytes).rest) \subseteq On(bytes)
<1> DEFINE complete == Len(bytes) \div 2
           messages == [i \in 1 .. complete |-> bytes[2 * i].m]
<1>1. complete \in Nat /\ 2 * complete <= Len(bytes)
  OBVIOUS
<1>2. decode(bytes) = [messages |-> messages, rest |-> SubSeq(bytes, 2 * complete + 1, Len(bytes))]
  BY DEF decode
<1> HIDE DEF complete
<1>3. \A i \in 1 .. complete : 2 * i \in 1 .. Len(bytes) /\ messages[i] \in Message
  <2> TAKE i \in 1 .. complete
  <2>1. 2 * i \in 1 .. Len(bytes)
    BY <1>1
  <2>2. bytes[2 * i] \in Unit
    BY <2>1
  <2> QED
    BY <2>1, <2>2 DEF Unit
<1>4. messages \in Seq(Message) /\ DOMAIN messages = 1 .. complete
  BY <1>1, <1>3
<1>5. ToSet(messages) \subseteq On(bytes)
  BY <1>3, <1>4 DEF ToSet, On
<1>6. 2 * complete + 1 \in Nat \ {0} /\ Len(bytes) \in 0 .. Len(bytes)
  BY <1>1
<1> QED
  BY <1>2, <1>4, <1>5, <1>6, OnSubSeq

(***************************************************************************)
(* A non-empty set of natural numbers has a least element, and Min is it.  *)
(***************************************************************************)
LEMMA MinLeast ==
  ASSUME NEW S \in SUBSET Nat, S # {}
  PROVE  Min(S) \in S /\ \A x \in S : Min(S) <= x
<1> DEFINE R == OpToRel(<, Nat)
<1>0. \A x, y \in Nat : <<x, y>> \in R <=> x < y
  BY DEF OpToRel
<1>1. PICK x \in S : \A y \in S : ~ (<<y, x>> \in R)
  <2>1. IsWellFoundedOn(R, Nat)
    BY NatLessThanWellFounded
  <2> HIDE DEF R
  <2> QED
    BY <2>1, WFMin
<1>2. ASSUME NEW y \in S
      PROVE  x <= y
  <2> HIDE DEF R
  <2>1. x \in Nat /\ y \in Nat
    OBVIOUS
  <2>2. <<y, x>> \in R <=> y < x
    BY <1>0, <2>1
  <2>3. ~ (y < x)
    BY <1>1, <2>2
  <2> QED
    BY <2>1, <2>3
<1> QED
  BY <1>2 DEF Min

LEMMA HandledProperties ==
  ASSUME NEW messages \in Seq(Message)
  PROVE  Handled(messages) \in Seq(Message) /\ ToSet(Handled(messages)) \subseteq ToSet(messages)
<1> DEFINE bad == {i \in DOMAIN messages :
                     messages[i].type = "response" /\ messages[i].value = "foreign"}
<1>1. CASE bad = {}
  BY <1>1 DEF Handled
<1>2. CASE bad # {}
  <2> DEFINE part == SubSeq(messages, 1, Min(bad) - 1)
  <2>1. bad \in SUBSET Nat
    OBVIOUS
  <2>2. Min(bad) \in bad
    BY <1>2, <2>1, MinLeast
  <2>3. Min(bad) \in 1 .. Len(messages)
    BY <2>2
  <2>4. Handled(messages) = part
    BY <1>2 DEF Handled
  <2>5. part \in Seq(Message) /\ \A i \in DOMAIN part : i \in DOMAIN messages /\ part[i] = messages[i]
    <3> HIDE DEF bad
    <3> QED
      BY <2>3
  <2> QED
    BY <2>4, <2>5 DEF ToSet
<1> QED
  BY <1>1, <1>2

LEMMA PutResponsesProperties ==
  ASSUME NEW map, NEW messages
  PROVE  PutResponses(map, messages) \subseteq
           map \cup {m \in ToSet(messages) : m.type = "response"}
BY DEF PutResponses, ToSet

(***************************************************************************)
(* Types, and what the maps of connections know of each other.             *)
(***************************************************************************)
ThreadsOK ==
  /\ requestID \in [Brokers -> Nat]
  /\ key \in [Threads -> Nat] /\ monitor \in [Threads -> Nat]
  /\ ref \in [Threads -> BOOLEAN]
  /\ made \in [Threads -> 0 .. MaxCalls]
  /\ pc \in [Threads -> {"start", "rebind", "idle", "entering", "inside", "calling", "waiting",
                         "end"}]
  /\ pc[Main] # "idle"
  /\ pc[Main] \in {"start", "rebind"} => made[Main] = 0
  /\ \A t \in ClientThreads : pc[t] \notin {"start", "rebind"}
  /\ \A t \in Threads :
       pc[t] \in {"entering", "inside", "calling", "waiting"} => made[t] > 0
  /\ result \in [Calls -> [end : {"none", "answer", "NoResponse"}, call : Calls]]

NetOK ==
  /\ sockets \in [Brokers -> SUBSET Route]
  /\ backlog \in [Brokers -> SUBSET Route]
  /\ todo \in [Brokers -> SUBSET Route]
  /\ modified \in [Brokers -> BOOLEAN]
  /\ listener \in [Brokers -> {"polling", "iterating", "dead"}]
  /\ \A b \in Brokers : todo[b] \subseteq sockets[b]
  /\ \A b \in Brokers : \A r \in sockets[b] :
       b \in {r[1], r[2]} /\ r[1] # NameServer /\ r[1] # r[2] /\ r \in sockets[r[1]]
  /\ \A b \in Brokers : \A r \in backlog[b] :
       b = r[2] /\ r[1] # NameServer /\ r[1] # r[2] /\ r \in sockets[r[1]] /\ r \notin sockets[b]

MessagesOK ==
  /\ wire \in [Route -> [Brokers -> Seq(Unit)]]
  /\ baos \in [Route -> [Brokers -> Seq(Unit)]]
  /\ tasks \in [Brokers -> SUBSET Task]
  /\ \A b \in Brokers : \A task \in tasks[b] : b \in {task.route[1], task.route[2]}
  /\ responses \in [Brokers -> SUBSET ResponseMessage]

ServicesOK ==
  /\ registered \in [Brokers -> SUBSET {"ns", "calc"}]
  /\ services \in SUBSET {"calc"}
  /\ restarts \in 0 .. MaxRestarts

TypeInv == ThreadsOK /\ NetOK /\ MessagesOK /\ ServicesOK

LEMMA BrokerAndThread ==
  /\ NameServer \in Brokers /\ CalcServer \in Brokers /\ Client \in Brokers
  /\ Main \in Threads
  /\ \A t \in Threads : Home(t) \in {CalcServer, Client} /\ Home(t) \in Brokers
  /\ \A t \in Threads : Callee(t) \in {NameServer, CalcServer} /\ Callee(t) \in Brokers
  /\ \A t \in Threads : Home(t) # Callee(t) /\ Home(t) # NameServer
  /\ \A r \in Route : r[1] \in Brokers /\ r[2] \in Brokers /\ r = <<r[1], r[2]>>
  /\ \A t \in Threads : t # Main => t \in ClientThreads
BY BrokerAssumption DEF Brokers, Threads, Home, Callee, Route

LEMMA TypeInvInit == BrokerInit => TypeInv
<1> SUFFICES ASSUME BrokerInit
             PROVE  TypeInv
  OBVIOUS
<1>1. ThreadsOK
  BY BrokerAssumption, BrokerAndThread DEF BrokerInit, ThreadsOK, Threads, Calls
<1>2. NetOK
  BY DEF BrokerInit, NetOK
<1>3. MessagesOK
  BY DEF BrokerInit, MessagesOK
<1>4. ServicesOK
  BY BrokerAssumption DEF BrokerInit, ServicesOK
<1> QED
  BY <1>1, <1>2, <1>3, <1>4 DEF TypeInv
-----------------------------------------------------------------------------
(***************************************************************************)
(* What a step leaves alone keeps its types.                               *)
(***************************************************************************)
LEMMA ThreadsStay ==
  ASSUME ThreadsOK, UNCHANGED <<requestID, callerVars>>
  PROVE  ThreadsOK'
BY DEF ThreadsOK, callerVars

LEMMA NetStays ==
  ASSUME NetOK, UNCHANGED <<sockets, backlog, todo, modified, listener>>
  PROVE  NetOK'
BY DEF NetOK

LEMMA MessagesStay ==
  ASSUME MessagesOK, UNCHANGED <<wire, baos, tasks, responses>>
  PROVE  MessagesOK'
BY DEF MessagesOK

LEMMA ServicesStay ==
  ASSUME ServicesOK, UNCHANGED <<registered, services, restarts>>
  PROVE  ServicesOK'
BY DEF ServicesOK

(***************************************************************************)
(* The steps of a calling thread.                                          *)
(***************************************************************************)
LEMMA CallOfType ==
  ASSUME ThreadsOK, NEW t \in Threads, pc[t] \in {"entering", "inside", "calling", "waiting"}
  PROVE  CallOf(t) \in Calls
BY DEF ThreadsOK, CallOf, Calls

LEMMA ReadMonitorType ==
  ASSUME TypeInv, NEW t \in Threads, ReadMonitor(t)
  PROVE  TypeInv'
<1>1. NetOK'
  BY NetStays DEF TypeInv, ReadMonitor, netVars
<1>2. MessagesOK'
  BY MessagesStay DEF TypeInv, ReadMonitor, netVars
<1>3. ServicesOK'
  BY ServicesStay DEF TypeInv, ReadMonitor
<1>4. made[t] + 1 \in 0 .. MaxCalls /\ made[t] + 1 > 0
  <2>1. made[t] \in 0 .. MaxCalls /\ made[t] < MaxCalls
    BY BrokerAssumption, BrokerAndThread DEF TypeInv, ThreadsOK, ReadMonitor
  <2> QED
    BY <2>1, BrokerAssumption
<1>5. requestID[Home(t)] \in Nat
  BY BrokerAndThread DEF TypeInv, ThreadsOK
<1>6. ThreadsOK'
  BY <1>4, <1>5, BrokerAndThread DEF TypeInv, ThreadsOK, ReadMonitor
<1> QED
  BY <1>1, <1>2, <1>3, <1>6 DEF TypeInv

LEMMA EnterMonitorType ==
  ASSUME TypeInv, NEW t \in Threads, EnterMonitor(t)
  PROVE  TypeInv'
<1>1. NetOK'
  BY NetStays DEF TypeInv, EnterMonitor, netVars
<1>2. MessagesOK'
  BY MessagesStay DEF TypeInv, EnterMonitor, netVars
<1>3. ServicesOK'
  BY ServicesStay DEF TypeInv, EnterMonitor
<1>4. requestID[Home(t)] \in Nat
  BY BrokerAndThread DEF TypeInv, ThreadsOK
<1>5. ThreadsOK'
  BY <1>4, BrokerAndThread DEF TypeInv, ThreadsOK, EnterMonitor
<1> QED
  BY <1>1, <1>2, <1>3, <1>5 DEF TypeInv

LEMMA IncrementRequestIDType ==
  ASSUME TypeInv, NEW t \in Threads, IncrementRequestID(t)
  PROVE  TypeInv'
<1>1. NetOK'
  BY NetStays DEF TypeInv, IncrementRequestID, netVars
<1>2. MessagesOK'
  BY MessagesStay DEF TypeInv, IncrementRequestID, netVars
<1>3. ServicesOK'
  BY ServicesStay DEF TypeInv, IncrementRequestID
<1>4. key[t] + 1 \in Nat
  BY DEF TypeInv, ThreadsOK
<1>5. ThreadsOK'
  BY <1>4, BrokerAndThread DEF TypeInv, ThreadsOK, IncrementRequestID
<1> QED
  BY <1>1, <1>2, <1>3, <1>5 DEF TypeInv

LEMMA RequestType ==
  ASSUME TypeInv, NEW t \in Threads, pc[t] = "calling"
  PROVE  /\ RequestOf(t) \in RequestMessage
         /\ request2Bytes(RequestOf(t)) \in Seq(Unit)
         /\ On(request2Bytes(RequestOf(t))) = {RequestOf(t)}
<1>1. CallOf(t) \in Calls /\ key[t] \in Nat
  BY CallOfType DEF TypeInv, ThreadsOK
<1>2. RequestOf(t) \in RequestMessage
  BY <1>1 DEF RequestOf, Request, RequestMessage
<1> QED
  BY <1>2 DEF request2Bytes, Unit, Message, On

LEMMA BytesUpdate ==
  ASSUME NEW w \in [Route -> [Brokers -> Seq(Unit)]], NEW r \in Route, NEW b \in Brokers,
         NEW bytes \in Seq(Unit)
  PROVE  [w EXCEPT ![r][b] = bytes] \in [Route -> [Brokers -> Seq(Unit)]]
<1>1. [w[r] EXCEPT ![b] = bytes] \in [Brokers -> Seq(Unit)]
  OBVIOUS
<1> QED
  BY <1>1

LEMMA CallType ==
  ASSUME TypeInv, NEW t \in Threads, call(t)
  PROVE  TypeInv'
<1> DEFINE here == Home(t)
           callee == Callee(t)
           r == <<here, callee>>
           bytes == request2Bytes(RequestOf(t))
<1>1. /\ here \in Brokers /\ callee \in Brokers /\ here # callee /\ here # NameServer
      /\ r \in Route /\ r[1] = here /\ r[2] = callee
  BY BrokerAndThread DEF Route
<1>2. ThreadsOK'
  BY BrokerAndThread DEF TypeInv, ThreadsOK, call
<1>3. ServicesOK'
  BY ServicesStay DEF TypeInv, call
<1>4. MessagesOK'
  <2>1. bytes \in Seq(Unit)
    BY RequestType DEF call
  <2>2. wire' = wire \/ wire' = [wire EXCEPT ![r][callee] = @ \o bytes]
    BY DEF call
  <2> HIDE DEF bytes, here, callee
  <2>3. wire[r][callee] \o bytes \in Seq(Unit)
    BY <1>1, <2>1 DEF TypeInv, MessagesOK
  <2>4. wire \in [Route -> [Brokers -> Seq(Unit)]]
    BY DEF TypeInv, MessagesOK
  <2>5. [wire EXCEPT ![r][callee] = wire[r][callee] \o bytes] \in [Route -> [Brokers -> Seq(Unit)]]
    BY <1>1, <2>3, <2>4, BytesUpdate
  <2>6. wire' \in [Route -> [Brokers -> Seq(Unit)]]
    BY <2>2, <2>4, <2>5
  <2> QED
    BY <2>6 DEF TypeInv, MessagesOK, call
<1>5. NetOK'
  <2>1. /\ sockets' = [sockets EXCEPT ![here] = @ \cup {r}]
        /\ modified' = [modified EXCEPT ![here] = @ \/ r \notin sockets[here]]
        /\ backlog' = IF r \notin sockets[here]
                      THEN [backlog EXCEPT ![callee] = @ \cup {r}] ELSE backlog
        /\ UNCHANGED <<todo, listener>>
    BY DEF call
  <2> HIDE DEF r, here, callee
  <2>2. /\ sockets' \in [Brokers -> SUBSET Route]
        /\ backlog' \in [Brokers -> SUBSET Route]
        /\ modified' \in [Brokers -> BOOLEAN]
    BY <1>1, <2>1 DEF TypeInv, NetOK
  <2>3. \A b \in Brokers : sockets'[b] = IF b = here THEN sockets[b] \cup {r} ELSE sockets[b]
    BY <1>1, <2>1 DEF TypeInv, NetOK
  <2>4. \A b \in Brokers : \A q \in sockets'[b] :
          b \in {q[1], q[2]} /\ q[1] # NameServer /\ q[1] # q[2] /\ q \in sockets'[q[1]]
    <3> TAKE b \in Brokers
    <3> TAKE q \in sockets'[b]
    <3>1. CASE q = r /\ b = here
      BY <1>1, <2>3, <3>1
    <3>2. CASE q \in sockets[b]
      <4>1. b \in {q[1], q[2]} /\ q[1] # NameServer /\ q[1] # q[2] /\ q \in sockets[q[1]]
        BY <3>2 DEF TypeInv, NetOK
      <4>2. q[1] \in Brokers
        BY <2>2, BrokerAndThread
      <4> QED
        BY <2>3, <4>1, <4>2
    <3> QED
      BY <2>3, <3>1, <3>2
  <2>5. \A b \in Brokers : backlog'[b] = backlog[b] \/
          (b = callee /\ r \notin sockets[here] /\ backlog'[b] = backlog[b] \cup {r})
    BY <1>1, <2>1 DEF TypeInv, NetOK
  <2>6. \A b \in Brokers : \A q \in backlog'[b] :
          b = q[2] /\ q[1] # NameServer /\ q[1] # q[2] /\ q \in sockets'[q[1]] /\ q \notin sockets'[b]
    <3> TAKE b \in Brokers
    <3> TAKE q \in backlog'[b]
    <3>1. CASE q \in backlog[b]
      <4>1. b = q[2] /\ q[1] # NameServer /\ q[1] # q[2] /\ q \in sockets[q[1]] /\ q \notin sockets[b]
        BY <3>1 DEF TypeInv, NetOK
      <4>2. q \in Route /\ q[1] \in Brokers
        BY <2>2, BrokerAndThread
      <4>3. b = here => q # r
        BY <1>1, <4>1
      <4> QED
        BY <2>3, <4>1, <4>2, <4>3
    <3>2. CASE q \notin backlog[b]
      <4>1. q = r /\ b = callee /\ r \notin sockets[here]
        BY <2>5, <3>2
      <4>2. r \notin sockets[callee]
        BY <1>1, <4>1 DEF TypeInv, NetOK
      <4> QED
        BY <1>1, <2>3, <4>1, <4>2
    <3> QED
      BY <3>1, <3>2
  <2>7. \A b \in Brokers : todo'[b] \subseteq sockets'[b]
    BY <2>1, <2>3 DEF TypeInv, NetOK
  <2> QED
    BY <2>1, <2>2, <2>4, <2>6, <2>7 DEF TypeInv, NetOK
<1> QED
  BY <1>2, <1>3, <1>4, <1>5 DEF TypeInv

LEMMA EndCallType ==
  ASSUME TypeInv, NEW t \in Threads, pc[t] = "waiting",
         NEW end \in {"answer", "NoResponse"}, NEW of \in Calls, NEW resolved \in BOOLEAN,
         EndCall(t, end, of, resolved)
  PROVE  ThreadsOK' /\ NetOK' /\ ServicesOK' /\ UNCHANGED <<wire, baos, tasks>>
<1>1. NetOK'
  BY NetStays DEF TypeInv, EndCall, netVars
<1>2. ServicesOK'
  BY ServicesStay DEF TypeInv, EndCall
<1>3. CallOf(t) \in Calls
  BY CallOfType DEF TypeInv
<1>4. ThreadsOK'
  BY <1>3, BrokerAndThread DEF TypeInv, ThreadsOK, EndCall
<1> QED
  BY <1>1, <1>2, <1>4 DEF EndCall, netVars

LEMMA TakeResponseType ==
  ASSUME TypeInv, NEW t \in Threads, TakeResponse(t)
  PROVE  TypeInv'
<1>1. PICK r \in responses[Home(t)] :
        /\ pc[t] = "waiting"
        /\ responses' = [responses EXCEPT ![Home(t)] = @ \ {r}]
        /\ EndCall(t, "answer", r.call, r.value = "address")
  BY DEF TakeResponse
<1>2. r.call \in Calls
  BY BrokerAndThread DEF TypeInv, MessagesOK, ResponseMessage
<1>3. ThreadsOK' /\ NetOK' /\ ServicesOK' /\ UNCHANGED <<wire, baos, tasks>>
  BY <1>1, <1>2, EndCallType
<1>4. MessagesOK'
  BY <1>1, <1>3, BrokerAndThread DEF TypeInv, MessagesOK
<1> QED
  BY <1>3, <1>4 DEF TypeInv

LEMMA NoResponseType ==
  ASSUME TypeInv, NEW t \in Threads, NoResponse(t)
  PROVE  TypeInv'
<1>1. CallOf(t) \in Calls /\ pc[t] = "waiting"
  BY CallOfType DEF TypeInv, NoResponse
<1>2. ThreadsOK' /\ NetOK' /\ ServicesOK' /\ UNCHANGED <<wire, baos, tasks>>
  BY <1>1, EndCallType DEF NoResponse
<1>3. MessagesOK'
  BY <1>2, MessagesStay DEF TypeInv, NoResponse
<1> QED
  BY <1>2, <1>3 DEF TypeInv

(***************************************************************************)
(* The steps of a listener.                                                *)
(***************************************************************************)
LEMMA AcceptAndIterateType ==
  ASSUME TypeInv, NEW b \in Brokers, AcceptAndIterate(b)
  PROVE  TypeInv'
<1>0. PICK accepted \in IF backlog[b] = {} THEN {{}} ELSE {{r} : r \in backlog[b]} :
        /\ backlog' = [backlog EXCEPT ![b] = @ \ accepted]
        /\ sockets' = [sockets EXCEPT ![b] = @ \cup accepted]
        /\ todo' = [todo EXCEPT ![b] = sockets'[b]]
  BY DEF AcceptAndIterate
<1>1. /\ accepted \subseteq backlog[b]
      /\ backlog' = [backlog EXCEPT ![b] = @ \ accepted]
      /\ sockets' = [sockets EXCEPT ![b] = @ \cup accepted]
      /\ todo' = [todo EXCEPT ![b] = sockets'[b]]
  <2>1. accepted \subseteq backlog[b]
    OBVIOUS
  <2> QED
    BY <1>0, <2>1
<1>2. ThreadsOK'
  BY ThreadsStay DEF TypeInv, AcceptAndIterate
<1>3. MessagesOK'
  BY MessagesStay DEF TypeInv, AcceptAndIterate
<1>4. ServicesOK'
  BY ServicesStay DEF TypeInv, AcceptAndIterate
<1>5. /\ sockets' \in [Brokers -> SUBSET Route]
      /\ backlog' \in [Brokers -> SUBSET Route]
      /\ todo' \in [Brokers -> SUBSET Route]
      /\ modified' \in [Brokers -> BOOLEAN]
      /\ listener' \in [Brokers -> {"polling", "iterating", "dead"}]
  BY <1>1 DEF TypeInv, NetOK, AcceptAndIterate
<1>6. \A c \in Brokers :
        /\ sockets'[c] = IF c = b THEN sockets[b] \cup accepted ELSE sockets[c]
        /\ backlog'[c] = IF c = b THEN backlog[b] \ accepted ELSE backlog[c]
        /\ todo'[c] \subseteq sockets'[c]
  BY <1>1 DEF TypeInv, NetOK
<1>7. \A c \in Brokers : \A q \in sockets'[c] :
        c \in {q[1], q[2]} /\ q[1] # NameServer /\ q[1] # q[2] /\ q \in sockets'[q[1]]
  <2> TAKE c \in Brokers
  <2> TAKE q \in sockets'[c]
  <2>1. q \in sockets[c] \/ q \in backlog[c]
    BY <1>1, <1>6
  <2>2. c \in {q[1], q[2]} /\ q[1] # NameServer /\ q[1] # q[2] /\ q \in sockets[q[1]]
    BY <2>1 DEF TypeInv, NetOK
  <2>3. q[1] \in Brokers
    BY <1>5, BrokerAndThread
  <2> QED
    BY <1>6, <2>2, <2>3
<1>8. \A c \in Brokers : \A q \in backlog'[c] :
        c = q[2] /\ q[1] # NameServer /\ q[1] # q[2] /\ q \in sockets'[q[1]] /\ q \notin sockets'[c]
  <2> TAKE c \in Brokers
  <2> TAKE q \in backlog'[c]
  <2>1. q \in backlog[c] /\ (c = b => q \notin accepted)
    BY <1>6
  <2>2. c = q[2] /\ q[1] # NameServer /\ q[1] # q[2] /\ q \in sockets[q[1]] /\ q \notin sockets[c]
    BY <2>1 DEF TypeInv, NetOK
  <2>3. q[1] \in Brokers
    BY <1>5, BrokerAndThread
  <2> QED
    BY <1>6, <2>1, <2>2, <2>3
<1>9. NetOK'
  BY <1>5, <1>6, <1>7, <1>8 DEF NetOK
<1> QED
  BY <1>2, <1>3, <1>4, <1>9 DEF TypeInv

LEMMA IteratorFailsType ==
  ASSUME TypeInv, NEW b \in Brokers, IteratorFails(b)
  PROVE  TypeInv'
<1>1. ThreadsOK'
  BY ThreadsStay DEF TypeInv, IteratorFails
<1>2. MessagesOK'
  BY MessagesStay DEF TypeInv, IteratorFails
<1>3. ServicesOK'
  BY ServicesStay DEF TypeInv, IteratorFails
<1>4. NetOK'
  BY DEF TypeInv, NetOK, IteratorFails
<1> QED
  BY <1>1, <1>2, <1>3, <1>4 DEF TypeInv

(* What a visit takes from the wire and hands on.                          *)
LEMMA VisitEffect ==
  ASSUME TypeInv, NEW b \in Brokers, NEW r \in todo[b], Visit(b, r)
  PROVE  /\ r \in Route /\ b \in {r[1], r[2]}
         /\ \E left \in Seq(Unit), rest \in Seq(Unit), handled \in Seq(Message) :
              /\ On(left) \subseteq On(wire[r][b])
              /\ On(rest) \subseteq On(baos[r][b]) \cup On(wire[r][b])
              /\ ToSet(handled) \subseteq On(baos[r][b]) \cup On(wire[r][b])
              /\ wire' = [wire EXCEPT ![r][b] = left]
              /\ baos' = [baos EXCEPT ![r][b] = rest]
              /\ tasks' = [tasks EXCEPT ![b] = @ \cup
                   {[route |-> r, request |-> m, answer |-> "none"] : m \in Requests(handled)}]
              /\ responses' = [responses EXCEPT ![b] = PutResponses(@, handled)]
<1>1. r \in Route /\ b \in {r[1], r[2]}
  BY DEF TypeInv, NetOK
<1>2. wire[r][b] \in Seq(Unit) /\ baos[r][b] \in Seq(Unit)
  BY <1>1 DEF TypeInv, MessagesOK
<1>3. PICK n \in IF wire[r][b] = <<>> THEN {0} ELSE 1 .. Len(wire[r][b]) :
        LET decoded == decode(baos[r][b] \o SubSeq(wire[r][b], 1, n))
            handled == Handled(decoded.messages)
        IN  /\ wire' = [wire EXCEPT ![r][b] = SubSeq(wire[r][b], n + 1, Len(wire[r][b]))]
            /\ baos' = [baos EXCEPT ![r][b] = decoded.rest]
            /\ tasks' = [tasks EXCEPT ![b] = @ \cup
                 {[route |-> r, request |-> m, answer |-> "none"] : m \in Requests(handled)}]
            /\ responses' = [responses EXCEPT ![b] = PutResponses(@, handled)]
  BY DEF Visit
<1> DEFINE read == SubSeq(wire[r][b], 1, n)
           left == SubSeq(wire[r][b], n + 1, Len(wire[r][b]))
           bytes == baos[r][b] \o read
           decoded == decode(bytes)
           handled == Handled(decoded.messages)
<1>4. n \in 0 .. Len(wire[r][b]) /\ n + 1 \in Nat \ {0} /\ 1 \in Nat \ {0}
        /\ Len(wire[r][b]) \in 0 .. Len(wire[r][b])
  BY <1>2
<1>5. /\ read \in Seq(Unit) /\ On(read) \subseteq On(wire[r][b])
      /\ left \in Seq(Unit) /\ On(left) \subseteq On(wire[r][b])
  BY <1>2, <1>4, OnSubSeq
<1>6. bytes \in Seq(Unit) /\ On(bytes) \subseteq On(baos[r][b]) \cup On(wire[r][b])
  <2> HIDE DEF read
  <2> QED
    BY <1>2, <1>5, OnConcatenation
<1>7. /\ decoded.messages \in Seq(Message) /\ ToSet(decoded.messages) \subseteq On(bytes)
      /\ decoded.rest \in Seq(Unit) /\ On(decoded.rest) \subseteq On(bytes)
  <2> HIDE DEF bytes
  <2> QED
    BY <1>6, DecodeProperties
<1>8. handled \in Seq(Message) /\ ToSet(handled) \subseteq On(bytes)
  <2> HIDE DEF decoded, bytes
  <2> QED
    BY <1>7, HandledProperties
<1>9. /\ wire' = [wire EXCEPT ![r][b] = left]
      /\ baos' = [baos EXCEPT ![r][b] = decoded.rest]
      /\ tasks' = [tasks EXCEPT ![b] = @ \cup
           {[route |-> r, request |-> m, answer |-> "none"] : m \in Requests(handled)}]
      /\ responses' = [responses EXCEPT ![b] = PutResponses(@, handled)]
  BY <1>3
<1> HIDE DEF left, decoded, handled, bytes
<1>10. /\ On(decoded.rest) \subseteq On(baos[r][b]) \cup On(wire[r][b])
       /\ ToSet(handled) \subseteq On(baos[r][b]) \cup On(wire[r][b])
  BY <1>6, <1>7, <1>8
<1> QED
  BY <1>1, <1>5, <1>7, <1>8, <1>9, <1>10

LEMMA VisitType ==
  ASSUME TypeInv, NEW b \in Brokers, NEW r \in todo[b], Visit(b, r)
  PROVE  TypeInv'
<1>1. ThreadsOK'
  BY ThreadsStay DEF TypeInv, Visit
<1>2. ServicesOK'
  BY ServicesStay DEF TypeInv, Visit
<1>3. NetOK'
  <2>1. todo' = [todo EXCEPT ![b] = @ \ {r}] /\ UNCHANGED <<sockets, backlog, modified>>
    BY DEF Visit
  <2>2. \E state \in {"polling", "iterating", "dead"} : listener' = [listener EXCEPT ![b] = state]
    BY DEF Visit
  <2> QED
    BY <2>1, <2>2 DEF TypeInv, NetOK
<1>4. MessagesOK'
  <2>1. r \in Route /\ b \in {r[1], r[2]}
    BY VisitEffect
  <2>2. PICK left \in Seq(Unit), rest \in Seq(Unit), handled \in Seq(Message) :
          /\ wire' = [wire EXCEPT ![r][b] = left]
          /\ baos' = [baos EXCEPT ![r][b] = rest]
          /\ tasks' = [tasks EXCEPT ![b] = @ \cup
               {[route |-> r, request |-> m, answer |-> "none"] : m \in Requests(handled)}]
          /\ responses' = [responses EXCEPT ![b] = PutResponses(@, handled)]
    BY VisitEffect
  <2>3. wire' \in [Route -> [Brokers -> Seq(Unit)]] /\ baos' \in [Route -> [Brokers -> Seq(Unit)]]
    BY <2>1, <2>2, BytesUpdate DEF TypeInv, MessagesOK
  <2>4. ToSet(handled) \subseteq Message
    BY DEF ToSet
  <2>5. Requests(handled) \subseteq RequestMessage
    BY <2>4 DEF Requests, Message, RequestMessage, ResponseMessage
  <2>6. {m \in ToSet(handled) : m.type = "response"} \subseteq ResponseMessage
    BY <2>4 DEF Message, RequestMessage, ResponseMessage
  <2>7. responses[b] \in SUBSET ResponseMessage /\ PutResponses(responses[b], handled) \in SUBSET ResponseMessage
    BY <2>6, PutResponsesProperties DEF TypeInv, MessagesOK
  <2>8. responses' \in [Brokers -> SUBSET ResponseMessage]
    BY <2>2, <2>7 DEF TypeInv, MessagesOK
  <2> DEFINE new == {[route |-> r, request |-> m, answer |-> "none"] : m \in Requests(handled)}
  <2>9. new \in SUBSET Task /\ \A task \in new : b \in {task.route[1], task.route[2]}
    BY <2>1, <2>5 DEF Task, Answers
  <2> HIDE DEF new
  <2>10. tasks' = [tasks EXCEPT ![b] = @ \cup new]
    BY <2>2 DEF new
  <2>11. /\ tasks' \in [Brokers -> SUBSET Task]
         /\ \A c \in Brokers : \A task \in tasks'[c] : c \in {task.route[1], task.route[2]}
    BY <2>9, <2>10 DEF TypeInv, MessagesOK
  <2> QED
    BY <2>3, <2>8, <2>11 DEF MessagesOK
<1> QED
  BY <1>1, <1>2, <1>3, <1>4 DEF TypeInv

(***************************************************************************)
(* The steps of a pool.                                                    *)
(***************************************************************************)
LEMMA MethodEndsType ==
  ASSUME NEW b, NEW m
  PROVE  MethodEnds(b, m) \subseteq Answers /\ ("address" \in MethodEnds(b, m) => "calc" \in services)
BY BrokerAssumption DEF MethodEnds, Answers

LEMMA InvokeType ==
  ASSUME TypeInv, NEW b \in Brokers, NEW task \in tasks[b], Invoke(b, task)
  PROVE  TypeInv'
<1>1. PICK outcome \in MethodEnds(b, task.request) :
        tasks' = [tasks EXCEPT ![b] = (@ \ {task}) \cup {[task EXCEPT !.answer = outcome]}]
  BY DEF Invoke
<1>2. /\ task \in Task /\ outcome \in Answers
      /\ b \in {task.route[1], task.route[2]}
  BY <1>1, MethodEndsType DEF TypeInv, MessagesOK
<1>3. [task EXCEPT !.answer = outcome] \in Task /\ [task EXCEPT !.answer = outcome].route = task.route
  BY <1>2 DEF Task
<1>4. MessagesOK'
  <2>1. /\ tasks' \in [Brokers -> SUBSET Task]
        /\ \A c \in Brokers : \A x \in tasks'[c] : c \in {x.route[1], x.route[2]}
    BY <1>1, <1>2, <1>3 DEF TypeInv, MessagesOK
  <2> QED
    BY <2>1 DEF TypeInv, MessagesOK, Invoke, netVars
<1>5. ServicesOK'
  BY DEF TypeInv, ServicesOK, Invoke
<1>6. ThreadsOK'
  BY ThreadsStay DEF TypeInv, Invoke
<1>7. NetOK'
  BY NetStays DEF TypeInv, Invoke, netVars
<1> QED
  BY <1>4, <1>5, <1>6, <1>7 DEF TypeInv

(* What a response puts on the wire.                                       *)
LEMMA RespondEffect ==
  ASSUME TypeInv, NEW b \in Brokers, NEW task \in tasks[b], Respond(b, task)
  PROVE  /\ task.route \in Route /\ Other(task.route, b) \in Brokers
         /\ \E bytes \in Seq(Unit) :
              /\ \A m \in On(bytes) : m \in ResponseMessage /\ m.value = task.answer
              /\ \/ wire' = wire
                 \/ wire' = [wire EXCEPT ![task.route][Other(task.route, b)] =
                              wire[task.route][Other(task.route, b)] \o bytes]
<1> DEFINE m == Response(task.request.requestID, task.request.call, task.answer)
           bytes == request2Bytes(m)
<1>1. task \in Task
  BY DEF TypeInv, MessagesOK
<1>2. task.route \in Route /\ Other(task.route, b) \in Brokers
  BY <1>1, BrokerAndThread DEF Task, Other
<1>3. m \in ResponseMessage /\ m.value = task.answer
  BY <1>1 DEF Task, RequestMessage, Response, ResponseMessage
<1>4. bytes \in Seq(Unit) /\ On(bytes) = {m}
  <2> HIDE DEF m
  <2> QED
    BY <1>3 DEF request2Bytes, Unit, Message, On
<1>5. \/ wire' = wire
      \/ wire' = [wire EXCEPT ![task.route][Other(task.route, b)] =
                   wire[task.route][Other(task.route, b)] \o bytes]
  BY DEF Respond
<1> HIDE DEF m, bytes
<1> QED
  BY <1>2, <1>3, <1>4, <1>5

LEMMA RespondType ==
  ASSUME TypeInv, NEW b \in Brokers, NEW task \in tasks[b], Respond(b, task)
  PROVE  TypeInv'
<1>1. task.route \in Route /\ Other(task.route, b) \in Brokers
  BY RespondEffect
<1>2. PICK bytes \in Seq(Unit) :
        \/ wire' = wire
        \/ wire' = [wire EXCEPT ![task.route][Other(task.route, b)] =
                     wire[task.route][Other(task.route, b)] \o bytes]
  BY RespondEffect
<1>3. wire \in [Route -> [Brokers -> Seq(Unit)]]
  BY DEF TypeInv, MessagesOK
<1>4. wire[task.route][Other(task.route, b)] \o bytes \in Seq(Unit)
  BY <1>1, <1>3
<1>5. wire' \in [Route -> [Brokers -> Seq(Unit)]]
  <2>1. [wire EXCEPT ![task.route][Other(task.route, b)] =
           wire[task.route][Other(task.route, b)] \o bytes] \in [Route -> [Brokers -> Seq(Unit)]]
    BY <1>1, <1>3, <1>4, BytesUpdate
  <2> QED
    BY <1>2, <1>3, <2>1
<1>6. MessagesOK'
  <2>1. tasks' = [tasks EXCEPT ![b] = @ \ {task}] /\ UNCHANGED <<baos, responses>>
    BY DEF Respond
  <2> QED
    BY <1>5, <2>1 DEF TypeInv, MessagesOK
<1>7. ServicesOK'
  BY ServicesStay DEF TypeInv, Respond
<1>8. ThreadsOK'
  BY ThreadsStay DEF TypeInv, Respond
<1>9. NetOK'
  BY NetStays DEF TypeInv, Respond
<1> QED
  BY <1>6, <1>7, <1>8, <1>9 DEF TypeInv

(***************************************************************************)
(* The other steps.                                                        *)
(***************************************************************************)
LEMMA RegisterLocalType ==
  ASSUME TypeInv, registerLocal
  PROVE  TypeInv'
<1>1. ThreadsOK'
  BY BrokerAndThread DEF TypeInv, ThreadsOK, registerLocal
<1>2. NetOK'
  BY NetStays DEF TypeInv, registerLocal, netVars
<1>3. MessagesOK'
  BY MessagesStay DEF TypeInv, registerLocal, netVars
<1>4. ServicesOK'
  BY DEF TypeInv, ServicesOK, registerLocal
<1> QED
  BY <1>1, <1>2, <1>3, <1>4 DEF TypeInv

LEMMA RestartNameServerType ==
  ASSUME TypeInv, RestartNameServer
  PROVE  TypeInv'
<1>1. ThreadsOK'
  BY ThreadsStay DEF TypeInv, RestartNameServer
<1>2. ServicesOK'
  BY BrokerAssumption DEF TypeInv, ServicesOK, RestartNameServer
<1>3. NetOK'
  BY BrokerAndThread DEF TypeInv, NetOK, RestartNameServer
<1>4. MessagesOK'
  <2>1. <<>> \in Seq(Unit)
    OBVIOUS
  <2>2. wire' \in [Route -> [Brokers -> Seq(Unit)]]
    BY <2>1 DEF TypeInv, MessagesOK, RestartNameServer
  <2>3. baos' \in [Route -> [Brokers -> Seq(Unit)]]
    <3> DEFINE first == [baos EXCEPT ![<<CalcServer, NameServer>>][NameServer] = <<>>]
    <3>1. first \in [Route -> [Brokers -> Seq(Unit)]]
      BY <2>1, BytesUpdate, BrokerAndThread DEF Route, TypeInv, MessagesOK
    <3>2. baos' = [first EXCEPT ![<<Client, NameServer>>][NameServer] = <<>>]
      BY DEF RestartNameServer
    <3> HIDE DEF first
    <3> QED
      BY <2>1, <3>1, <3>2, BytesUpdate, BrokerAndThread DEF Route
  <2>4. /\ tasks' \in [Brokers -> SUBSET Task]
        /\ \A c \in Brokers : \A x \in tasks'[c] : c \in {x.route[1], x.route[2]}
    BY DEF TypeInv, MessagesOK, RestartNameServer
  <2> QED
    BY <2>2, <2>3, <2>4 DEF TypeInv, MessagesOK, RestartNameServer
<1> QED
  BY <1>1, <1>2, <1>3, <1>4 DEF TypeInv

LEMMA TypeInvNext == TypeInv /\ [BrokerNext]_brokerVars => TypeInv'
<1> SUFFICES ASSUME TypeInv, [BrokerNext]_brokerVars
             PROVE  TypeInv'
  OBVIOUS
<1>1. ASSUME NEW t \in Threads, ThreadStep(t)
      PROVE  TypeInv'
  BY <1>1, ReadMonitorType, EnterMonitorType, IncrementRequestIDType, CallType,
     TakeResponseType, NoResponseType DEF ThreadStep
<1>2. ASSUME NEW b \in Brokers, ListenerStep(b)
      PROVE  TypeInv'
  BY <1>2, AcceptAndIterateType, IteratorFailsType, VisitType DEF ListenerStep
<1>3. ASSUME NEW b \in Brokers, PoolStep(b)
      PROVE  TypeInv'
  BY <1>3, InvokeType, RespondType DEF PoolStep
<1>4. CASE registerLocal
  BY <1>4, RegisterLocalType
<1>5. CASE RestartNameServer
  BY <1>5, RestartNameServerType
<1>6. CASE UNCHANGED brokerVars
  <2>1. UNCHANGED <<requestID, callerVars>> /\ UNCHANGED <<sockets, backlog, todo, modified, listener>>
          /\ UNCHANGED <<wire, baos, tasks, responses>> /\ UNCHANGED <<registered, services, restarts>>
    BY <1>6 DEF brokerVars, netVars
  <2> QED
    BY <2>1, ThreadsStay, NetStays, MessagesStay, ServicesStay DEF TypeInv
<1> QED
  BY <1>1, <1>2, <1>3, <1>4, <1>5, <1>6 DEF BrokerNext

LEMMA TypeInvImplies == TypeInv => BrokerTypeOK
<1> SUFFICES ASSUME TypeInv
             PROVE  BrokerTypeOK
  OBVIOUS
<1>1. \A b \in Brokers : \A r \in responses[b] : r.requestID \in Nat /\ r.call \in Calls
  BY DEF TypeInv, MessagesOK, ResponseMessage
<1>2. \A b \in Brokers : todo[b] \subseteq sockets[b] /\ backlog[b] \cap sockets[b] = {}
  BY DEF TypeInv, NetOK
<1> QED
  BY <1>1, <1>2 DEF TypeInv, ThreadsOK, NetOK, MessagesOK, ServicesOK, BrokerTypeOK

\* The state has its types; in particular a connection is accepted once only, and the listener visits
\* nothing that the map does not hold, although calls change the map beside it.
THEOREM BrokerTypeCorrect == BrokerSpec => []BrokerTypeOK
<1>1. BrokerSpec => []TypeInv
  BY TypeInvInit, TypeInvNext, PTL DEF BrokerSpec
<1> QED
  BY <1>1, TypeInvImplies, PTL

-----------------------------------------------------------------------------
(***************************************************************************)
(* A name that can be resolved is served.  Whatever speaks of the          *)
(* calculator, on a wire, in a pool, in a map or in a thread, is there     *)
(* only because its server has registered it.                              *)
(***************************************************************************)
Announced == "calc" \in registered[CalcServer]

Permitted(b, m) ==
  /\ m.type = "request" => /\ b = CalcServer => m.obj = "calc"
                           /\ (m.methode = "rebind" \/ m.obj = "calc") => Announced
  /\ (m.type = "response" /\ m.value = "address") => Announced

ThreadsServed ==
  /\ pc[Main] # "start" => Announced
  /\ services # {} => Announced
  /\ \A t \in Threads : ref[t] => Announced

WireServed ==
  \A r \in Route, b \in Brokers : \A m \in On(wire[r][b]) \cup On(baos[r][b]) : Permitted(b, m)

TasksServed ==
  \A b \in Brokers : \A task \in tasks[b] :
    Permitted(b, task.request) /\ (task.answer = "address" => Announced)

ResponsesServed == \A b \in Brokers : \A m \in responses[b] : m.value = "address" => Announced

ServedInv == ThreadsServed /\ WireServed /\ TasksServed /\ ResponsesServed

LEMMA ServedInit == BrokerInit => ServedInv
BY BrokerAndThread DEF BrokerInit, ServedInv, ThreadsServed, WireServed, TasksServed,
     ResponsesServed, On

LEMMA StaysAnnounced ==
  ASSUME TypeInv, BrokerNext, Announced
  PROVE  Announced'
<1>1. registered' = registered \/ registerLocal
  BY DEF BrokerNext, ThreadStep, ListenerStep, PoolStep, ReadMonitor, EnterMonitor,
     IncrementRequestID, call, TakeResponse, NoResponse, EndCall, AcceptAndIterate,
     IteratorFails, Visit, Invoke, Respond, RestartNameServer
<1>2. CASE registerLocal
  BY <1>2, BrokerAndThread DEF registerLocal, Announced, TypeInv, ServicesOK
<1> QED
  BY <1>1, <1>2 DEF Announced

LEMMA PermittedStays ==
  ASSUME NEW b, NEW m, Permitted(b, m), Announced => Announced'
  PROVE  Permitted(b, m)'
BY DEF Permitted

LEMMA WireStays ==
  ASSUME WireServed, Announced => Announced', UNCHANGED <<wire, baos>>
  PROVE  WireServed'
BY PermittedStays DEF WireServed

LEMMA TasksStay ==
  ASSUME TasksServed, Announced => Announced', UNCHANGED tasks
  PROVE  TasksServed'
BY PermittedStays DEF TasksServed

LEMMA ResponsesStay ==
  ASSUME ResponsesServed, Announced => Announced', UNCHANGED responses
  PROVE  ResponsesServed'
BY DEF ResponsesServed

LEMMA ThreadsStayServed ==
  ASSUME ThreadsServed, Announced => Announced', pc[Main] = "start" => pc'[Main] = "start",
         UNCHANGED <<ref, services>>
  PROVE  ThreadsServed'
BY DEF ThreadsServed

(* New bytes on one wire.                                                  *)
LEMMA WireGrows ==
  ASSUME TypeInv, WireServed, Announced => Announced', UNCHANGED baos,
         NEW r \in Route, NEW b \in Brokers, NEW bytes \in Seq(Unit),
         wire' = [wire EXCEPT ![r][b] = wire[r][b] \o bytes],
         \A m \in On(bytes) : Permitted(b, m)'
  PROVE  WireServed'
<1>1. wire \in [Route -> [Brokers -> Seq(Unit)]]
  BY DEF TypeInv, MessagesOK
<1>2. wire[r][b] \in Seq(Unit)
  BY <1>1
<1>3. wire'[r][b] = wire[r][b] \o bytes
  BY <1>1
<1>4. \A q \in Route, c \in Brokers : q # r \/ c # b => wire'[q][c] = wire[q][c]
  BY <1>1
<1>5. On(wire[r][b] \o bytes) \subseteq On(wire[r][b]) \cup On(bytes)
  BY <1>2, OnConcatenation
<1>6. ASSUME NEW q \in Route, NEW c \in Brokers,
             NEW m, m \in On(wire'[q][c]) \cup On(baos'[q][c])
      PROVE  Permitted(c, m)'
  <2>1. CASE m \in On(wire[q][c]) \cup On(baos[q][c])
    BY <2>1, PermittedStays DEF WireServed
  <2>2. CASE m \notin On(wire[q][c]) \cup On(baos[q][c])
    <3>1. q = r /\ c = b /\ m \in On(bytes)
      BY <1>3, <1>4, <1>5, <1>6, <2>2
    <3> QED
      BY <3>1
  <2> QED
    BY <2>1, <2>2
<1>7. \A q \in Route, c \in Brokers :
        \A m \in On(wire[q][c])' \cup On(baos[q][c])' : Permitted(c, m)'
  BY <1>6 DEF On
<1> QED
  BY <1>7 DEF WireServed

LEMMA CallServed ==
  ASSUME TypeInv, ServedInv, NEW t \in Threads, call(t), Announced => Announced'
  PROVE  ServedInv'
<1>1. PICK r \in Route, callee \in Brokers : r = <<Home(t), Callee(t)>> /\ callee = Callee(t)
  BY BrokerAndThread DEF Route
<1>2. pc[t] = "calling"
  BY DEF call
<1>3. Permitted(Callee(t), RequestOf(t))
  <2>1. CASE Callee(t) = CalcServer
    <3>1. ref[t] /\ RequestOf(t) = Request(key[t], CallOf(t), "calc", "add")
      BY <2>1, BrokerAssumption DEF Callee, RequestOf
    <3> QED
      BY <2>1, <3>1 DEF Request, Permitted, ServedInv, ThreadsServed
  <2>2. CASE Callee(t) = NameServer /\ t = Main
    <3>1. RequestOf(t) = Request(key[t], CallOf(t), "ns", "rebind")
      BY <2>2, BrokerAssumption DEF RequestOf
    <3>2. Announced
      BY <1>2, <2>2 DEF ServedInv, ThreadsServed
    <3> QED
      BY <2>2, <3>1, <3>2, BrokerAssumption DEF Request, Permitted
  <2>3. CASE Callee(t) = NameServer /\ t # Main
    <3>1. RequestOf(t) = Request(key[t], CallOf(t), "ns", "getService")
      BY <2>3, BrokerAssumption DEF RequestOf
    <3> QED
      BY <2>3, <3>1, BrokerAssumption DEF Request, Permitted
  <2> QED
    BY <2>1, <2>2, <2>3, BrokerAndThread
<1>4. PICK bytes \in Seq(Unit) : bytes = request2Bytes(RequestOf(t)) /\ On(bytes) = {RequestOf(t)}
  BY <1>2, RequestType
<1>5. \A m \in On(bytes) : Permitted(callee, m)'
  <2>1. \A m \in On(bytes) : Permitted(callee, m)
    BY <1>1, <1>3, <1>4
  <2> QED
    BY <2>1, PermittedStays
<1>6. WireServed'
  <2>1. UNCHANGED baos /\ (wire' = wire \/
          wire' = [wire EXCEPT ![r][callee] = wire[r][callee] \o bytes])
    BY <1>1, <1>4 DEF call
  <2>2. CASE wire' = wire
    BY <2>1, <2>2, WireStays DEF ServedInv
  <2>3. CASE wire' = [wire EXCEPT ![r][callee] = wire[r][callee] \o bytes]
    BY <1>5, <2>1, <2>3, WireGrows DEF ServedInv
  <2> QED
    BY <2>1, <2>2, <2>3
<1>7. TasksServed' /\ ResponsesServed'
  BY TasksStay, ResponsesStay DEF ServedInv, call
<1>8. ThreadsServed'
  BY ThreadsStayServed, BrokerAndThread DEF ServedInv, call, TypeInv, ThreadsOK
<1> QED
  BY <1>6, <1>7, <1>8 DEF ServedInv

LEMMA TakeResponseServed ==
  ASSUME TypeInv, ServedInv, NEW t \in Threads, TakeResponse(t), Announced => Announced'
  PROVE  ServedInv'
<1>1. PICK r \in responses[Home(t)] :
        /\ pc[t] = "waiting"
        /\ responses' = [responses EXCEPT ![Home(t)] = @ \ {r}]
        /\ EndCall(t, "answer", r.call, r.value = "address")
  BY DEF TakeResponse
<1>2. WireServed' /\ TasksServed'
  BY <1>1, WireStays, TasksStay DEF ServedInv, EndCall, netVars
<1>3. ResponsesServed'
  <2>1. \A b \in Brokers : responses'[b] \subseteq responses[b]
    BY <1>1 DEF TypeInv, MessagesOK
  <2> QED
    BY <2>1 DEF ServedInv, ResponsesServed
<1>4. ThreadsServed'
  <2>1. r.value = "address" => Announced
    BY BrokerAndThread DEF ServedInv, ResponsesServed
  <2>2. /\ ref' = [ref EXCEPT ![t] = @ \/ r.value = "address"]
        /\ UNCHANGED services
        /\ pc[Main] = "start" => pc'[Main] = "start"
    BY <1>1, BrokerAndThread DEF EndCall, TypeInv, ThreadsOK
  <2>3. \A u \in Threads : ref'[u] => ref[u] \/ r.value = "address"
    BY <2>2 DEF TypeInv, ThreadsOK
  <2> QED
    BY <2>1, <2>2, <2>3 DEF ServedInv, ThreadsServed
<1> QED
  BY <1>2, <1>3, <1>4 DEF ServedInv

LEMMA NoResponseServed ==
  ASSUME TypeInv, ServedInv, NEW t \in Threads, NoResponse(t), Announced => Announced'
  PROVE  ServedInv'
<1>1. WireServed' /\ TasksServed' /\ ResponsesServed'
  BY WireStays, TasksStay, ResponsesStay DEF ServedInv, NoResponse, EndCall, netVars
<1>2. ref' = ref /\ UNCHANGED services /\ (pc[Main] = "start" => pc'[Main] = "start")
  BY BrokerAndThread DEF NoResponse, EndCall, TypeInv, ThreadsOK
<1>3. ThreadsServed'
  BY <1>2, ThreadsStayServed DEF ServedInv
<1> QED
  BY <1>1, <1>3 DEF ServedInv

LEMMA VisitServed ==
  ASSUME TypeInv, ServedInv, NEW b \in Brokers, NEW r \in todo[b], Visit(b, r),
         Announced => Announced'
  PROVE  ServedInv'
<1>1. r \in Route /\ b \in {r[1], r[2]}
  BY VisitEffect
<1>2. PICK left \in Seq(Unit), rest \in Seq(Unit), handled \in Seq(Message) :
        /\ On(left) \subseteq On(wire[r][b])
        /\ On(rest) \subseteq On(baos[r][b]) \cup On(wire[r][b])
        /\ ToSet(handled) \subseteq On(baos[r][b]) \cup On(wire[r][b])
        /\ wire' = [wire EXCEPT ![r][b] = left]
        /\ baos' = [baos EXCEPT ![r][b] = rest]
        /\ tasks' = [tasks EXCEPT ![b] = @ \cup
             {[route |-> r, request |-> m, answer |-> "none"] : m \in Requests(handled)}]
        /\ responses' = [responses EXCEPT ![b] = PutResponses(@, handled)]
  BY VisitEffect
<1>3. \A m \in On(wire[r][b]) \cup On(baos[r][b]) : Permitted(b, m)
  BY <1>1 DEF ServedInv, WireServed
<1>4. WireServed'
  <2>1. wire \in [Route -> [Brokers -> Seq(Unit)]] /\ baos \in [Route -> [Brokers -> Seq(Unit)]]
    BY DEF TypeInv, MessagesOK
  <2>2. \A q \in Route, c \in Brokers :
          /\ wire'[q][c] = IF q = r /\ c = b THEN left ELSE wire[q][c]
          /\ baos'[q][c] = IF q = r /\ c = b THEN rest ELSE baos[q][c]
    BY <1>1, <1>2, <2>1
  <2>3. \A q \in Route, c \in Brokers :
          On(wire'[q][c]) \cup On(baos'[q][c]) \subseteq On(wire[q][c]) \cup On(baos[q][c])
    <3> TAKE q \in Route, c \in Brokers
    <3>1. CASE q = r /\ c = b
      <4>1. wire'[q][c] = left /\ baos'[q][c] = rest
        BY <2>2, <3>1
      <4> QED
        BY <1>2, <3>1, <4>1
    <3>2. CASE ~ (q = r /\ c = b)
      BY <2>2, <3>2
    <3> QED
      BY <3>1, <3>2
  <2>4. \A q \in Route, c \in Brokers :
          \A m \in On(wire[q][c])' \cup On(baos[q][c])' : m \in On(wire[q][c]) \cup On(baos[q][c])
    BY <2>3 DEF On
  <2> QED
    BY <2>4, PermittedStays DEF ServedInv, WireServed
<1>5. TasksServed'
  <2> DEFINE new == {[route |-> r, request |-> m, answer |-> "none"] : m \in Requests(handled)}
  <2>1. \A task \in new : Permitted(b, task.request) /\ task.answer # "address"
    BY <1>2, <1>3 DEF Requests
  <2>2. tasks' = [tasks EXCEPT ![b] = @ \cup new]
    BY <1>2
  <2> HIDE DEF new
  <2>3. \A c \in Brokers : \A task \in tasks'[c] : task \in tasks[c] \/ (c = b /\ task \in new)
    BY <2>2 DEF TypeInv, MessagesOK
  <2>4. \A c \in Brokers : \A task \in tasks'[c] :
          Permitted(c, task.request) /\ (task.answer = "address" => Announced)
    BY <2>1, <2>3 DEF ServedInv, TasksServed
  <2> QED
    BY <2>4, PermittedStays DEF TasksServed
<1>6. ResponsesServed'
  <2>1. \A c \in Brokers : \A m \in responses'[c] :
          m \in responses[c] \/ (c = b /\ m \in ToSet(handled) /\ m.type = "response")
    BY <1>2, PutResponsesProperties DEF TypeInv, MessagesOK
  <2>2. \A m \in ToSet(handled) : Permitted(b, m)
    BY <1>2, <1>3
  <2> QED
    BY <2>1, <2>2 DEF ServedInv, ResponsesServed, Permitted
<1>7. ThreadsServed'
  BY ThreadsStayServed DEF ServedInv, Visit, callerVars
<1> QED
  BY <1>4, <1>5, <1>6, <1>7 DEF ServedInv

LEMMA InvokeServed ==
  ASSUME TypeInv, ServedInv, NEW b \in Brokers, NEW task \in tasks[b], Invoke(b, task),
         Announced => Announced'
  PROVE  ServedInv'
<1>1. PICK outcome \in MethodEnds(b, task.request) :
        tasks' = [tasks EXCEPT ![b] = (@ \ {task}) \cup {[task EXCEPT !.answer = outcome]}]
  BY DEF Invoke
<1>2. task \in Task /\ Permitted(b, task.request)
  BY DEF TypeInv, MessagesOK, ServedInv, TasksServed
<1>3. outcome = "address" => Announced
  BY <1>1, MethodEndsType DEF ServedInv, ThreadsServed
<1>4. TasksServed'
  <2> DEFINE done == [task EXCEPT !.answer = outcome]
  <2>1. done.request = task.request /\ done.answer = outcome
    BY <1>2 DEF Task
  <2> HIDE DEF done
  <2>2. tasks' = [tasks EXCEPT ![b] = (@ \ {task}) \cup {done}]
    BY <1>1 DEF done
  <2>3. \A c \in Brokers : \A x \in tasks'[c] : x \in tasks[c] \/ (c = b /\ x = done)
    BY <2>2 DEF TypeInv, MessagesOK
  <2>4. \A c \in Brokers : \A x \in tasks'[c] :
          Permitted(c, x.request) /\ (x.answer = "address" => Announced)
    BY <1>2, <1>3, <2>1, <2>3 DEF ServedInv, TasksServed
  <2> QED
    BY <2>4, PermittedStays DEF TasksServed
<1>5. WireServed' /\ ResponsesServed'
  BY WireStays, ResponsesStay DEF ServedInv, Invoke, netVars
<1>6. ThreadsServed'
  <2>1. services' # {} => services # {} \/ task.request.methode = "rebind"
    BY DEF Invoke
  <2>2. task.request.methode = "rebind" => Announced
    BY <1>2 DEF Permitted, Task, RequestMessage
  <2> QED
    BY <2>1, <2>2 DEF ServedInv, ThreadsServed, Invoke, callerVars
<1> QED
  BY <1>4, <1>5, <1>6 DEF ServedInv

LEMMA RespondServed ==
  ASSUME TypeInv, ServedInv, NEW b \in Brokers, NEW task \in tasks[b], Respond(b, task),
         Announced => Announced'
  PROVE  ServedInv'
<1> DEFINE to == Other(task.route, b)
<1>1. task.route \in Route /\ to \in Brokers
  BY RespondEffect
<1>2. PICK bytes \in Seq(Unit) :
        /\ \A m \in On(bytes) : m \in ResponseMessage /\ m.value = task.answer
        /\ wire' = wire \/
           wire' = [wire EXCEPT ![task.route][to] = wire[task.route][to] \o bytes]
  BY RespondEffect
<1>3. task.answer = "address" => Announced
  BY DEF ServedInv, TasksServed
<1>4. \A m \in On(bytes) : Permitted(to, m)'
  <2>1. \A m \in On(bytes) : Permitted(to, m)
    BY <1>2, <1>3 DEF Permitted, ResponseMessage
  <2> QED
    BY <2>1, PermittedStays
<1>5. WireServed'
  <2> HIDE DEF to
  <2>1. CASE wire' = wire
    BY <2>1, WireStays DEF ServedInv, Respond
  <2>2. CASE wire' = [wire EXCEPT ![task.route][to] = wire[task.route][to] \o bytes]
    <3>1. UNCHANGED baos
      BY DEF Respond
    <3> QED
      BY <1>1, <1>4, <2>2, <3>1, WireGrows DEF ServedInv
  <2> QED
    BY <1>2, <2>1, <2>2
<1>6. TasksServed'
  <2>1. \A c \in Brokers : tasks'[c] \subseteq tasks[c]
    BY DEF TypeInv, MessagesOK, Respond
  <2> QED
    BY <2>1, PermittedStays DEF ServedInv, TasksServed
<1>7. ResponsesServed'
  BY ResponsesStay DEF ServedInv, Respond
<1>8. ThreadsServed'
  BY ThreadsStayServed DEF ServedInv, Respond, callerVars
<1> QED
  BY <1>5, <1>6, <1>7, <1>8 DEF ServedInv

LEMMA RestartServed ==
  ASSUME TypeInv, ServedInv, RestartNameServer, Announced => Announced'
  PROVE  ServedInv'
<1>1. ThreadsServed'
  BY DEF ServedInv, ThreadsServed, RestartNameServer, callerVars
<1>2. ResponsesServed'
  BY ResponsesStay DEF ServedInv, RestartNameServer
<1>3. TasksServed'
  <2>1. \A c \in Brokers : tasks'[c] \subseteq tasks[c]
    BY DEF TypeInv, MessagesOK, RestartNameServer
  <2> QED
    BY <2>1, PermittedStays DEF ServedInv, TasksServed
<1>4. WireServed'
  <2>1. \A q \in Route, c \in Brokers : wire'[q][c] = wire[q][c] \/ wire'[q][c] = <<>>
    BY DEF RestartNameServer
  <2>2. \A q \in Route, c \in Brokers : baos'[q][c] = baos[q][c] \/ baos'[q][c] = <<>>
    <3> DEFINE first == [baos EXCEPT ![<<CalcServer, NameServer>>][NameServer] = <<>>]
    <3>1. baos \in [Route -> [Brokers -> Seq(Unit)]] /\ <<>> \in Seq(Unit)
      BY DEF TypeInv, MessagesOK
    <3>2. <<CalcServer, NameServer>> \in Route /\ <<Client, NameServer>> \in Route
      BY BrokerAndThread DEF Route
    <3>3. first \in [Route -> [Brokers -> Seq(Unit)]]
      BY <3>1, <3>2, BytesUpdate, BrokerAndThread
    <3>4. \A q \in Route, c \in Brokers : first[q][c] = baos[q][c] \/ first[q][c] = <<>>
      BY <3>1, <3>2
    <3>5. baos' = [first EXCEPT ![<<Client, NameServer>>][NameServer] = <<>>]
      BY DEF RestartNameServer
    <3> HIDE DEF first
    <3> QED
      BY <3>2, <3>3, <3>4, <3>5
  <2>3. \A q \in Route, c \in Brokers :
          \A m \in On(wire[q][c])' \cup On(baos[q][c])' : m \in On(wire[q][c]) \cup On(baos[q][c])
    BY <2>1, <2>2 DEF On
  <2> QED
    BY <2>3, PermittedStays DEF ServedInv, WireServed
<1> QED
  BY <1>1, <1>2, <1>3, <1>4 DEF ServedInv

LEMMA ServedNext == TypeInv /\ ServedInv /\ [BrokerNext]_brokerVars => ServedInv'
<1> SUFFICES ASSUME TypeInv, ServedInv, [BrokerNext]_brokerVars
             PROVE  ServedInv'
  OBVIOUS
<1>1. CASE UNCHANGED brokerVars
  <2>1. /\ Announced => Announced'
        /\ UNCHANGED <<wire, baos>> /\ UNCHANGED <<ref, services>>
        /\ UNCHANGED tasks /\ UNCHANGED responses /\ UNCHANGED pc
    BY <1>1 DEF brokerVars, callerVars, netVars, Announced
  <2> QED
    BY <2>1, WireStays, TasksStay, ResponsesStay, ThreadsStayServed DEF ServedInv
<1>2. CASE BrokerNext
  <2>1. Announced => Announced'
    BY <1>2, StaysAnnounced
  <2>2. ASSUME NEW t \in Threads, ReadMonitor(t) \/ EnterMonitor(t) \/ IncrementRequestID(t)
        PROVE  ServedInv'
    <3>1. /\ UNCHANGED <<wire, baos>> /\ UNCHANGED <<ref, services>>
          /\ UNCHANGED tasks /\ UNCHANGED responses
      BY <2>2 DEF ReadMonitor, EnterMonitor, IncrementRequestID, netVars
    <3>2. pc[Main] = "start" => pc'[Main] = "start"
      BY <2>2, BrokerAndThread DEF ReadMonitor, EnterMonitor, IncrementRequestID, TypeInv, ThreadsOK
    <3> QED
      BY <2>1, <3>1, <3>2, WireStays, TasksStay, ResponsesStay, ThreadsStayServed DEF ServedInv
  <2>3. ASSUME NEW t \in Threads, ThreadStep(t)
        PROVE  ServedInv'
    BY <2>1, <2>2, <2>3, CallServed, TakeResponseServed, NoResponseServed DEF ThreadStep
  <2>4. ASSUME NEW b \in Brokers, AcceptAndIterate(b) \/ IteratorFails(b)
        PROVE  ServedInv'
    <3>1. /\ UNCHANGED <<wire, baos>> /\ UNCHANGED <<ref, services>>
          /\ UNCHANGED tasks /\ UNCHANGED responses /\ UNCHANGED pc
      BY <2>4 DEF AcceptAndIterate, IteratorFails, callerVars
    <3> QED
      BY <2>1, <3>1, WireStays, TasksStay, ResponsesStay, ThreadsStayServed DEF ServedInv
  <2>5. ASSUME NEW b \in Brokers, ListenerStep(b)
        PROVE  ServedInv'
    BY <2>1, <2>4, <2>5, VisitServed DEF ListenerStep
  <2>6. ASSUME NEW b \in Brokers, PoolStep(b)
        PROVE  ServedInv'
    BY <2>1, <2>6, InvokeServed, RespondServed DEF PoolStep
  <2>7. CASE registerLocal
    <3>1. /\ UNCHANGED <<wire, baos>> /\ UNCHANGED <<ref, services>>
          /\ UNCHANGED tasks /\ UNCHANGED responses
      BY <2>7 DEF registerLocal, netVars
    <3>2. Announced'
      BY <2>7, BrokerAndThread DEF registerLocal, Announced, TypeInv, ServicesOK
    <3> QED
      BY <2>1, <3>1, <3>2, WireStays, TasksStay, ResponsesStay DEF ServedInv, ThreadsServed
  <2>8. CASE RestartNameServer
    BY <2>1, <2>8, RestartServed
  <2> QED
    BY <1>2, <2>3, <2>5, <2>6, <2>7, <2>8 DEF BrokerNext
<1> QED
  BY <1>1, <1>2

LEMMA ServedImplies == TypeInv /\ ServedInv => ResolvedIsServed
<1> SUFFICES ASSUME TypeInv, ServedInv
             PROVE  ResolvedIsServed
  OBVIOUS
<1>1. services \subseteq registered[CalcServer]
  BY DEF TypeInv, ServicesOK, ServedInv, ThreadsServed, Announced
<1>2. ASSUME NEW task \in tasks[CalcServer]
      PROVE  task.request.obj \in registered[CalcServer]
  <2>1. Permitted(CalcServer, task.request) /\ task.request.type = "request"
    BY BrokerAndThread DEF ServedInv, TasksServed, TypeInv, MessagesOK, Task, RequestMessage
  <2> QED
    BY <2>1 DEF Permitted, Announced
<1> QED
  BY <1>1, <1>2 DEF ResolvedIsServed

\* Nobody can resolve, or call, the calculator before its server has registered it, for any number of
\* threads and calls and although the name service restarts at any moment.
THEOREM ResolvedNamesAreServed == BrokerSpec => []ResolvedIsServed
<1>1. BrokerSpec => []TypeInv
  BY TypeInvInit, TypeInvNext, PTL DEF BrokerSpec
<1>2. BrokerSpec => []ServedInv
  BY <1>1, ServedInit, ServedNext, PTL DEF BrokerSpec
<1> QED
  BY <1>1, <1>2, ServedImplies, PTL

-----------------------------------------------------------------------------
(***************************************************************************)
(* What is on its way on a connection: the units that have been read but   *)
(* are not yet a message and those still to be read, and the messages they *)
(* will become however they are cut into reads.                            *)
(***************************************************************************)
Flow(r, b) == baos[r][b] \o wire[r][b]
Coming(r, b) == decode(Flow(r, b)).messages

Whole(bytes) ==
  /\ Len(bytes) = 2 * (Len(bytes) \div 2)
  /\ \A i \in 1 .. Len(bytes) \div 2 :
       bytes[2 * i - 1] = [m |-> bytes[2 * i].m, unit |-> 1] /\ bytes[2 * i].unit = 2

LEMMA DecodedMessages ==
  ASSUME NEW s \in Seq(Unit)
  PROVE  /\ decode(s).messages \in Seq(Message)
         /\ Len(decode(s).messages) = Len(s) \div 2
         /\ \A i \in 1 .. Len(s) \div 2 : 2 * i \in 1 .. Len(s) /\ decode(s).messages[i] = s[2 * i].m
<1>1. decode(s).messages \in Seq(Message)
  BY DecodeProperties
<1>2. decode(s).messages = [i \in 1 .. Len(s) \div 2 |-> s[2 * i].m]
  BY DEF decode
<1> DEFINE n == Len(s) \div 2
<1>3. n \in Nat /\ 2 * n <= Len(s)
  OBVIOUS
<1> HIDE DEF n
<1>4. DOMAIN decode(s).messages = 1 .. n
  BY <1>2 DEF n
<1>5. Len(decode(s).messages) = n
  BY <1>1, <1>3, <1>4
<1>6. \A i \in 1 .. n : 2 * i \in 1 .. Len(s)
  BY <1>3
<1> QED
  BY <1>1, <1>2, <1>5, <1>6 DEF n

LEMMA FlowType ==
  ASSUME TypeInv, NEW r \in Route, NEW b \in Brokers
  PROVE  /\ wire[r][b] \in Seq(Unit) /\ baos[r][b] \in Seq(Unit) /\ Flow(r, b) \in Seq(Unit)
         /\ Coming(r, b) \in Seq(Message)
         /\ Len(Coming(r, b)) = Len(Flow(r, b)) \div 2
<1>1. wire[r][b] \in Seq(Unit) /\ baos[r][b] \in Seq(Unit)
  BY DEF TypeInv, MessagesOK
<1>2. Flow(r, b) \in Seq(Unit)
  BY <1>1 DEF Flow
<1> QED
  BY <1>1, <1>2, DecodedMessages DEF Coming

(* A message at the end of what is on its way becomes the last message.    *)
LEMMA MessageFollows ==
  ASSUME NEW s \in Seq(Unit), Whole(s), NEW m \in Message
  PROVE  /\ Whole(s \o request2Bytes(m))
         /\ decode(s \o request2Bytes(m)).messages = Append(decode(s).messages, m)
<1> DEFINE n == Len(s) \div 2
           two == request2Bytes(m)
           t == s \o two
<1>1. two \in Seq(Unit) /\ Len(two) = 2 /\ two[1] = [m |-> m, unit |-> 1]
        /\ two[2] = [m |-> m, unit |-> 2]
  BY DEF request2Bytes, Unit
<1>2. n \in Nat /\ Len(s) = 2 * n
  BY DEF Whole
<1> HIDE DEF n, two
<1>0. /\ t \in Seq(Unit) /\ Len(t) = Len(s) + Len(two)
      /\ \A i \in 1 .. Len(s) + Len(two) :
           t[i] = IF i <= Len(s) THEN s[i] ELSE two[i - Len(s)]
  BY <1>1, ConcatProperties
<1> HIDE DEF t
<1>3. t \in Seq(Unit) /\ Len(t) = 2 * (n + 1) /\ Len(t) \div 2 = n + 1
  BY <1>0, <1>1, <1>2
<1>4. \A i \in 1 .. 2 * n : t[i] = s[i]
  BY <1>0, <1>1, <1>2
<1>5. t[2 * n + 1] = [m |-> m, unit |-> 1] /\ t[2 * n + 2] = [m |-> m, unit |-> 2]
  <2>1. ASSUME NEW i \in 1 .. 2
        PROVE  t[2 * n + i] = two[i]
    <3> DEFINE e == 2 * n + i
    <3>1. e \in 1 .. Len(s) + Len(two) /\ ~ (e <= Len(s)) /\ e - Len(s) = i
      BY <1>1, <1>2
    <3> HIDE DEF e
    <3>2. t[e] = two[i]
      BY <1>0, <3>1
    <3> QED
      BY <3>2 DEF e
  <2> QED
    BY <1>1, <2>1
<1>6. \A i \in 1 .. n : 2 * i \in 1 .. 2 * n /\ 2 * i - 1 \in 1 .. 2 * n
  BY <1>2
<1>7. ASSUME NEW i \in 1 .. n + 1
      PROVE  t[2 * i - 1] = [m |-> t[2 * i].m, unit |-> 1] /\ t[2 * i].unit = 2
  <2>1. CASE i \in 1 .. n
    <3>1. s[2 * i - 1] = [m |-> s[2 * i].m, unit |-> 1] /\ s[2 * i].unit = 2
      BY <2>1 DEF Whole, n
    <3> QED
      BY <1>4, <1>6, <2>1, <3>1
  <2>2. CASE i = n + 1
    <3>1. 2 * i - 1 = 2 * n + 1 /\ 2 * i = 2 * n + 2
      BY <1>2, <2>2
    <3> QED
      BY <1>5, <3>1
  <2> QED
    BY <1>2, <2>1, <2>2
<1>8. Whole(t)
  BY <1>3, <1>7 DEF Whole
<1>9. decode(t).messages = Append(decode(s).messages, m)
  <2>1. /\ decode(s).messages \in Seq(Message) /\ Len(decode(s).messages) = n
        /\ \A i \in 1 .. n : decode(s).messages[i] = s[2 * i].m
    BY DecodedMessages DEF n
  <2>2. /\ decode(t).messages \in Seq(Message) /\ Len(decode(t).messages) = n + 1
        /\ \A i \in 1 .. n + 1 : decode(t).messages[i] = t[2 * i].m
    BY <1>3, DecodedMessages
  <2>3. \A i \in 1 .. n : t[2 * i] = s[2 * i]
    BY <1>4, <1>6
  <2>4. t[2 * (n + 1)].m = m
    <3>1. 2 * (n + 1) = 2 * n + 2
      BY <1>2
    <3> QED
      BY <1>5, <3>1
  <2> DEFINE old == decode(s).messages
             new == decode(t).messages
  <2>5. old \in Seq(Message) /\ new \in Seq(Message) /\ Len(old) = n /\ Len(new) = n + 1
    BY <2>1, <2>2
  <2>6. (\A i \in 1 .. n : new[i] = old[i]) /\ new[n + 1] = m
    BY <1>2, <2>1, <2>2, <2>3, <2>4
  <2> HIDE DEF old, new
  <2>7. new = Append(old, m)
    BY <1>2, <2>5, <2>6
  <2> QED
    BY <2>7 DEF old, new
<1> QED
  BY <1>8, <1>9 DEF t, two

LEMMA HalfWithout ==
  ASSUME NEW x \in Nat, NEW k \in Nat, 2 * k <= x
  PROVE  x \div 2 \in Nat /\ (x - 2 * k) \div 2 = x \div 2 - k /\ k <= x \div 2
OBVIOUS

(* A read takes messages from the front and leaves the others as they are. *)
LEMMA ReadTakesFront ==
  ASSUME NEW p \in Seq(Unit), NEW left \in Seq(Unit)
  PROVE  LET before == decode(p \o left).messages
             taken == decode(p).messages
             after == decode(decode(p).rest \o left).messages
         IN  /\ decode(p).rest \o left \in Seq(Unit)
             /\ Len(taken) <= Len(before)
             /\ \A i \in 1 .. Len(taken) : taken[i] = before[i]
             /\ Len(after) = Len(before) - Len(taken)
             /\ \A i \in 1 .. Len(after) : after[i] = before[i + Len(taken)]
             /\ Whole(p \o left) => Whole(decode(p).rest \o left)
<1> DEFINE flow == p \o left
           k == Len(p) \div 2
           new == decode(p).rest \o left
           n == Len(flow) \div 2
           j == Len(new) \div 2
<1>1. k \in Nat /\ 2 * k <= Len(p) /\ Len(p) <= 2 * k + 1
  OBVIOUS
<1>2. decode(p).rest = SubSeq(p, 2 * k + 1, Len(p))
  BY DEF decode
<1>3. decode(p).rest \in Seq(Unit)
  BY DecodeProperties
<1> HIDE DEF k
<1> DEFINE rest == decode(p).rest
<1>4. /\ Len(rest) = Len(p) - 2 * k
      /\ \A i \in 1 .. Len(p) - 2 * k : rest[i] = p[i + 2 * k]
  <2> DEFINE a == 2 * k + 1
             l == Len(p)
  <2>1. a \in Int /\ l \in Int /\ \A i \in a .. l : p[i] \in Unit
    BY <1>1
  <2>2. rest = SubSeq(p, a, l) /\ 2 * k <= l /\ a = 2 * k + 1
    BY <1>1, <1>2
  <2> HIDE DEF a, l, rest
  <2>3. Len(rest) = (IF a <= l THEN l - a + 1 ELSE 0) /\ \A i \in 1 .. l - a + 1 : rest[i] = p[a + i - 1]
    BY <2>1, <2>2, SubSeqProperties
  <2>4. l - a + 1 = l - 2 * k /\ \A i \in 1 .. l - 2 * k : a + i - 1 = i + 2 * k
    BY <1>1, <2>1 DEF a
  <2>5. (IF a <= l THEN l - a + 1 ELSE 0) = l - 2 * k
    BY <1>1, <2>1, <2>2
  <2>6. Len(rest) = l - 2 * k /\ \A i \in 1 .. l - 2 * k : rest[i] = p[i + 2 * k]
    BY <2>3, <2>4, <2>5
  <2> QED
    BY <2>6 DEF l
<1>5. flow \in Seq(Unit) /\ Len(flow) = Len(p) + Len(left)
        /\ \A i \in 1 .. Len(p) + Len(left) : flow[i] = IF i <= Len(p) THEN p[i] ELSE left[i - Len(p)]
  BY ConcatProperties
<1> HIDE DEF flow, rest
<1>6. new \in Seq(Unit) /\ Len(new) = Len(rest) + Len(left)
        /\ \A i \in 1 .. Len(rest) + Len(left) :
             new[i] = IF i <= Len(rest) THEN rest[i] ELSE left[i - Len(rest)]
  BY <1>3, ConcatProperties DEF rest
<1> HIDE DEF new
<1>7. /\ Len(new) = Len(flow) - 2 * k
      /\ \A i \in 1 .. Len(new) : new[i] = flow[i + 2 * k] /\ i + 2 * k \in 1 .. Len(flow)
  <2>1. Len(p) \in Nat /\ Len(left) \in Nat /\ Len(rest) = Len(p) - 2 * k
    BY <1>4
  <2>2. Len(new) = Len(flow) - 2 * k
    BY <1>1, <1>5, <1>6, <2>1
  <2>3. ASSUME NEW i \in 1 .. Len(new)
        PROVE  new[i] = flow[i + 2 * k] /\ i + 2 * k \in 1 .. Len(flow)
    <3>1. i + 2 * k \in 1 .. Len(p) + Len(left) /\ i \in 1 .. Len(rest) + Len(left)
      BY <1>1, <1>5, <1>6, <2>1
    <3>2. CASE i <= Len(rest)
      <4>1. i \in 1 .. Len(p) - 2 * k /\ i + 2 * k <= Len(p)
        BY <1>1, <2>1, <3>2
      <4> QED
        BY <1>4, <1>5, <1>6, <3>1, <3>2, <4>1
    <3>3. CASE ~ (i <= Len(rest))
      <4> DEFINE e == i + 2 * k
      <4>1. e \in 1 .. Len(p) + Len(left) /\ ~ (e <= Len(p)) /\ e - Len(p) = i - Len(rest)
        BY <1>1, <2>1, <3>1, <3>3
      <4> HIDE DEF e
      <4>2. flow[e] = left[i - Len(rest)]
        BY <1>5, <4>1
      <4>3. new[i] = left[i - Len(rest)]
        BY <1>6, <3>1, <3>3
      <4> QED
        BY <1>5, <3>1, <4>2, <4>3 DEF e
    <3>4. new[i] = flow[i + 2 * k]
      BY <3>2, <3>3
    <3> QED
      BY <1>5, <3>1, <3>4
  <2> QED
    BY <2>2, <2>3
<1>8. n \in Nat /\ j \in Nat /\ j = n - k /\ k <= n
  <2> DEFINE x == Len(flow)
  <2>1. x \in Nat /\ Len(new) = x - 2 * k /\ 2 * k <= x
    BY <1>1, <1>5, <1>7
  <2> HIDE DEF x
  <2>2. x \div 2 \in Nat /\ (x - 2 * k) \div 2 = x \div 2 - k /\ k <= x \div 2
    BY <1>1, <2>1, HalfWithout
  <2> QED
    BY <1>1, <2>1, <2>2 DEF x
<1>9. /\ decode(flow).messages \in Seq(Message) /\ Len(decode(flow).messages) = n
      /\ \A i \in 1 .. n : 2 * i \in 1 .. Len(flow) /\ decode(flow).messages[i] = flow[2 * i].m
  BY <1>5, DecodedMessages
<1>10. /\ decode(p).messages \in Seq(Message) /\ Len(decode(p).messages) = k
       /\ \A i \in 1 .. k : 2 * i \in 1 .. Len(p) /\ decode(p).messages[i] = p[2 * i].m
  BY DecodedMessages DEF k
<1>11. /\ decode(new).messages \in Seq(Message) /\ Len(decode(new).messages) = j
       /\ \A i \in 1 .. j : 2 * i \in 1 .. Len(new) /\ decode(new).messages[i] = new[2 * i].m
  BY <1>6, DecodedMessages
<1> HIDE DEF n, j
<1>12. \A i \in 1 .. k : decode(p).messages[i] = decode(flow).messages[i]
  <2> TAKE i \in 1 .. k
  <2>1. i \in 1 .. n /\ 2 * i \in 1 .. Len(p)
    BY <1>1, <1>8, <1>10
  <2>2. flow[2 * i] = p[2 * i]
    BY <1>5, <2>1
  <2> QED
    BY <1>9, <1>10, <2>1, <2>2
<1>13. ASSUME NEW i \in 1 .. j
       PROVE  i + k \in 1 .. n /\ new[2 * i] = flow[2 * (i + k)] /\ new[2 * i - 1] = flow[2 * (i + k) - 1]
  <2>1. i + k \in 1 .. n /\ 2 * i \in 1 .. Len(new) /\ 2 * i - 1 \in 1 .. Len(new)
    BY <1>1, <1>8, <1>11
  <2>2. 2 * i + 2 * k = 2 * (i + k) /\ (2 * i - 1) + 2 * k = 2 * (i + k) - 1
    BY <1>1
  <2> QED
    BY <1>7, <2>1, <2>2
<1>14. \A i \in 1 .. j : decode(new).messages[i] = decode(flow).messages[i + k]
  BY <1>9, <1>11, <1>13
<1>15. Whole(flow) => Whole(new)
  <2> SUFFICES ASSUME Whole(flow)
               PROVE  Whole(new)
    OBVIOUS
  <2>1. Len(new) = 2 * j
    BY <1>1, <1>7, <1>8 DEF Whole, n
  <2>2. ASSUME NEW i \in 1 .. j
        PROVE  new[2 * i - 1] = [m |-> new[2 * i].m, unit |-> 1] /\ new[2 * i].unit = 2
    <3>1. /\ flow[2 * (i + k) - 1] = [m |-> flow[2 * (i + k)].m, unit |-> 1]
          /\ flow[2 * (i + k)].unit = 2
      BY <1>13 DEF Whole, n
    <3> QED
      BY <1>13, <3>1
  <2> QED
    BY <2>1, <2>2 DEF Whole, j
<1> QED
  BY <1>6, <1>8, <1>9, <1>10, <1>11, <1>12, <1>14, <1>15 DEF flow, new

LEMMA UnitsAssociative ==
  ASSUME NEW x \in Seq(Unit), NEW y \in Seq(Unit), NEW z \in Seq(Unit)
  PROVE  (x \o y) \o z = x \o (y \o z)
BY ConcatAssociative

LEMMA UnitsSplit ==
  ASSUME NEW s \in Seq(Unit), NEW n \in 0 .. Len(s)
  PROVE  s = SubSeq(s, 1, n) \o SubSeq(s, n + 1, Len(s))
<1>1. 1 \in 1 .. Len(s) + 1 /\ n \in 1 - 1 .. Len(s) /\ Len(s) \in n .. Len(s)
  OBVIOUS
<1> QED
  BY <1>1, ConcatAdjacentSubSeq, SubSeqFull

(* Whole and decode are the same in every state.                           *)
LEMMA NextFlow ==
  ASSUME NEW r, NEW b
  PROVE  /\ Whole(Flow(r, b))' <=> Whole(Flow(r, b)')
         /\ Coming(r, b)' = decode(Flow(r, b)').messages
BY DEF Whole, Coming, decode

(* A message written to a connection becomes the last one on its way there. *)
Written(r, b, m) ==
  UNCHANGED baos /\ wire' = [wire EXCEPT ![r][b] = wire[r][b] \o request2Bytes(m)]

LEMMA WriteEffect ==
  ASSUME TypeInv, NEW r \in Route, NEW b \in Brokers, NEW m \in Message,
         Whole(Flow(r, b)), Written(r, b, m)
  PROVE  /\ Whole(Flow(r, b))'
         /\ Coming(r, b)' = Append(Coming(r, b), m)
         /\ \A q \in Route, c \in Brokers : q # r \/ c # b => Flow(q, c)' = Flow(q, c)
<1>1. wire[r][b] \in Seq(Unit) /\ baos[r][b] \in Seq(Unit) /\ Flow(r, b) \in Seq(Unit)
  BY FlowType
<1>2. wire \in [Route -> [Brokers -> Seq(Unit)]]
  BY DEF TypeInv, MessagesOK
<1>3. wire'[r][b] = wire[r][b] \o request2Bytes(m)
  BY <1>2 DEF Written
<1>4. \A q \in Route, c \in Brokers : q # r \/ c # b =>
        wire'[q][c] = wire[q][c] /\ baos'[q][c] = baos[q][c]
  BY <1>2 DEF Written
<1>5. request2Bytes(m) \in Seq(Unit)
  BY DEF request2Bytes, Unit
<1>6. Flow(r, b)' = Flow(r, b) \o request2Bytes(m)
  <2>1. Flow(r, b)' = baos[r][b] \o (wire[r][b] \o request2Bytes(m))
    BY <1>3 DEF Flow, Written
  <2> HIDE DEF Unit
  <2>2. (baos[r][b] \o wire[r][b]) \o request2Bytes(m) = baos[r][b] \o (wire[r][b] \o request2Bytes(m))
    BY <1>1, <1>5, UnitsAssociative
  <2> QED
    BY <2>1, <2>2 DEF Flow
<1>7. /\ Whole(Flow(r, b) \o request2Bytes(m))
      /\ decode(Flow(r, b) \o request2Bytes(m)).messages = Append(Coming(r, b), m)
  BY <1>1, MessageFollows DEF Coming
<1>8. Whole(Flow(r, b))' /\ Coming(r, b)' = Append(Coming(r, b), m)
  BY <1>6, <1>7, NextFlow
<1>9. \A q \in Route, c \in Brokers : q # r \/ c # b => Flow(q, c)' = Flow(q, c)
  BY <1>4 DEF Flow
<1> QED
  BY <1>8, <1>9

(* What does not touch the bytes leaves what is on its way.                *)
LEMMA FlowsStay ==
  ASSUME UNCHANGED <<wire, baos>>
  PROVE  \A q \in Route, c \in Brokers : Flow(q, c)' = Flow(q, c) /\ Coming(q, c)' = Coming(q, c)
BY DEF Flow, Coming

(* Handled leaves the front of the messages, up to the response that ends the listener. *)
LEMMA HandledFront ==
  ASSUME NEW messages \in Seq(Message)
  PROVE  /\ Handled(messages) \in Seq(Message)
         /\ Len(Handled(messages)) <= Len(messages)
         /\ \A i \in 1 .. Len(Handled(messages)) : Handled(messages)[i] = messages[i]
         /\ (\A i \in DOMAIN messages : messages[i].type # "response") =>
              Handled(messages) = messages
<1> DEFINE bad == {i \in DOMAIN messages :
                     messages[i].type = "response" /\ messages[i].value = "foreign"}
<1>1. CASE bad = {}
  <2>1. Handled(messages) = messages
    BY <1>1 DEF Handled
  <2> QED
    BY <2>1
<1>2. CASE bad # {}
  <2> DEFINE part == SubSeq(messages, 1, Min(bad) - 1)
  <2>1. bad \in SUBSET Nat
    OBVIOUS
  <2>2. Min(bad) \in bad
    BY <1>2, <2>1, MinLeast
  <2>3. Min(bad) \in 1 .. Len(messages) /\ messages[Min(bad)].type = "response"
    BY <2>2
  <2>4. Handled(messages) = part
    BY <1>2 DEF Handled
  <2>5. part \in Seq(Message) /\ Len(part) <= Len(messages)
          /\ \A i \in 1 .. Len(part) : part[i] = messages[i]
    <3> HIDE DEF bad
    <3> QED
      BY <2>3
  <2>6. ~ (\A i \in DOMAIN messages : messages[i].type # "response")
    <3> HIDE DEF bad
    <3> QED
      BY <2>3
  <2> QED
    BY <2>4, <2>5, <2>6
<1> QED
  BY <1>1, <1>2

(***************************************************************************)
(* A visit takes k messages from the front of what is on its way and       *)
(* handles the first of them, all if none is a response.                   *)
(***************************************************************************)
Takes(b, r, k, handled) ==
  /\ Len(handled) <= k /\ k <= Len(Coming(r, b))
  /\ \A i \in 1 .. Len(handled) : handled[i] = Coming(r, b)[i]
  /\ (\A i \in DOMAIN Coming(r, b) : Coming(r, b)[i].type # "response") => Len(handled) = k
  /\ Len(Coming(r, b)') = Len(Coming(r, b)) - k
  /\ \A i \in 1 .. Len(Coming(r, b)') : Coming(r, b)'[i] = Coming(r, b)[i + k]
  /\ Whole(Flow(r, b)) => Whole(Flow(r, b))'
  /\ tasks' = [tasks EXCEPT ![b] = @ \cup
       {[route |-> r, request |-> m, answer |-> "none"] : m \in Requests(handled)}]
  /\ responses' = [responses EXCEPT ![b] = PutResponses(@, handled)]

LEMMA VisitTakes ==
  ASSUME TypeInv, NEW b \in Brokers, NEW r \in todo[b], Visit(b, r)
  PROVE  /\ r \in Route /\ r \in sockets[r[1]]
         /\ \E k \in Nat, handled \in Seq(Message) : Takes(b, r, k, handled)
         /\ \A q \in Route, c \in Brokers : q # r \/ c # b =>
              Flow(q, c)' = Flow(q, c) /\ baos'[q][c] = baos[q][c]
<1>1. r \in Route /\ r \in sockets[r[1]]
  BY DEF TypeInv, NetOK
<1>2. wire[r][b] \in Seq(Unit) /\ baos[r][b] \in Seq(Unit)
  BY <1>1, FlowType
<1>3. PICK n \in IF wire[r][b] = <<>> THEN {0} ELSE 1 .. Len(wire[r][b]) :
        LET decoded == decode(baos[r][b] \o SubSeq(wire[r][b], 1, n))
            handled == Handled(decoded.messages)
        IN  /\ wire' = [wire EXCEPT ![r][b] = SubSeq(wire[r][b], n + 1, Len(wire[r][b]))]
            /\ baos' = [baos EXCEPT ![r][b] = decoded.rest]
            /\ tasks' = [tasks EXCEPT ![b] = @ \cup
                 {[route |-> r, request |-> m, answer |-> "none"] : m \in Requests(handled)}]
            /\ responses' = [responses EXCEPT ![b] = PutResponses(@, handled)]
  BY DEF Visit
<1> DEFINE read == SubSeq(wire[r][b], 1, n)
           left == SubSeq(wire[r][b], n + 1, Len(wire[r][b]))
           bytes == baos[r][b] \o read
           decoded == decode(bytes)
           handled == Handled(decoded.messages)
           k == Len(decoded.messages)
<1>4. n \in 0 .. Len(wire[r][b])
  BY <1>2
<1>5. read \in Seq(Unit) /\ left \in Seq(Unit) /\ wire[r][b] = read \o left
  <2>1. read \in Seq(Unit) /\ left \in Seq(Unit)
    BY <1>2, <1>4
  <2> QED
    BY <1>2, <1>4, <2>1, UnitsSplit
<1>6. /\ wire' = [wire EXCEPT ![r][b] = left]
      /\ baos' = [baos EXCEPT ![r][b] = decoded.rest]
      /\ tasks' = [tasks EXCEPT ![b] = @ \cup
           {[route |-> r, request |-> m, answer |-> "none"] : m \in Requests(handled)}]
      /\ responses' = [responses EXCEPT ![b] = PutResponses(@, handled)]
  BY <1>3
<1> HIDE DEF read, left
<1>7. bytes \in Seq(Unit) /\ Flow(r, b) = bytes \o left
  <2>1. bytes \in Seq(Unit)
    BY <1>2, <1>5
  <2>2. bytes \o left = baos[r][b] \o (read \o left)
    BY <1>2, <1>5, UnitsAssociative
  <2> QED
    BY <1>5, <2>1, <2>2 DEF Flow
<1> HIDE DEF bytes
<1>8. wire \in [Route -> [Brokers -> Seq(Unit)]] /\ baos \in [Route -> [Brokers -> Seq(Unit)]]
  BY DEF TypeInv, MessagesOK
<1>9. wire'[r][b] = left /\ baos'[r][b] = decoded.rest
  BY <1>1, <1>6, <1>8
<1>10. Flow(r, b)' = decoded.rest \o left
  BY <1>9 DEF Flow
<1>11. /\ Len(decoded.messages) <= Len(Coming(r, b))
       /\ \A i \in 1 .. Len(decoded.messages) : decoded.messages[i] = Coming(r, b)[i]
       /\ Len(Coming(r, b)') = Len(Coming(r, b)) - Len(decoded.messages)
       /\ \A i \in 1 .. Len(Coming(r, b)') :
            Coming(r, b)'[i] = Coming(r, b)[i + Len(decoded.messages)]
       /\ Whole(Flow(r, b)) => Whole(decoded.rest \o left)
  <2>1. Coming(r, b) = decode(bytes \o left).messages /\ Coming(r, b)' = decode(decoded.rest \o left).messages
    BY <1>7, <1>10, NextFlow DEF Coming
  <2>2. LET before == decode(bytes \o left).messages
            taken == decode(bytes).messages
            after == decode(decode(bytes).rest \o left).messages
        IN  /\ Len(taken) <= Len(before)
            /\ \A i \in 1 .. Len(taken) : taken[i] = before[i]
            /\ Len(after) = Len(before) - Len(taken)
            /\ \A i \in 1 .. Len(after) : after[i] = before[i + Len(taken)]
            /\ Whole(bytes \o left) => Whole(decode(bytes).rest \o left)
    BY <1>5, <1>7, ReadTakesFront
  <2> QED
    BY <1>7, <2>1, <2>2
<1>12. Whole(Flow(r, b)) => Whole(Flow(r, b))'
  BY <1>10, <1>11, NextFlow
<1>13. decoded.messages \in Seq(Message)
  BY <1>7, DecodeProperties
<1> HIDE DEF decoded
<1>14. /\ handled \in Seq(Message) /\ Len(handled) <= k
       /\ \A i \in 1 .. Len(handled) : handled[i] = decoded.messages[i]
       /\ (\A i \in DOMAIN decoded.messages : decoded.messages[i].type # "response") =>
            Len(handled) = k
  BY <1>13, HandledFront
<1> HIDE DEF handled
<1>15. Coming(r, b) \in Seq(Message) /\ k \in Nat
  BY <1>1, <1>13, FlowType
<1>16. \A i \in 1 .. Len(handled) : handled[i] = Coming(r, b)[i]
  BY <1>11, <1>13, <1>14
<1>17. (\A i \in DOMAIN Coming(r, b) : Coming(r, b)[i].type # "response") => Len(handled) = k
  BY <1>11, <1>13, <1>14, <1>15
<1>18. \A q \in Route, c \in Brokers : q # r \/ c # b =>
         Flow(q, c)' = Flow(q, c) /\ baos'[q][c] = baos[q][c]
  BY <1>6, <1>8 DEF Flow
<1>19. Takes(b, r, k, handled)
  BY <1>6, <1>11, <1>12, <1>14, <1>15, <1>16, <1>17 DEF Takes
<1> QED
  BY <1>1, <1>14, <1>15, <1>18, <1>19

(* A restart of the name service cuts off the end of what is on its way.   *)
LEMMA RestartCuts ==
  ASSUME TypeInv, RestartNameServer
  PROVE  \A q \in Route, c \in Brokers :
           /\ Len(Coming(q, c)') <= Len(Coming(q, c))
           /\ \A i \in 1 .. Len(Coming(q, c)') : Coming(q, c)'[i] = Coming(q, c)[i]
           /\ NameServer \notin {q[1], q[2]} => Flow(q, c)' = Flow(q, c)
           /\ baos'[q][c] = baos[q][c] \/ baos'[q][c] = <<>>
           /\ (NameServer \in {q[1], q[2]} /\ baos[q][c] = <<>>) => Flow(q, c)' = <<>>
<1> DEFINE first == [baos EXCEPT ![<<CalcServer, NameServer>>][NameServer] = <<>>]
<1>1. baos \in [Route -> [Brokers -> Seq(Unit)]] /\ <<>> \in Seq(Unit)
  BY DEF TypeInv, MessagesOK
<1>2. <<CalcServer, NameServer>> \in Route /\ <<Client, NameServer>> \in Route
  BY BrokerAndThread DEF Route
<1>3. first \in [Route -> [Brokers -> Seq(Unit)]]
  BY <1>1, <1>2, BytesUpdate, BrokerAndThread
<1>4. \A q \in Route, c \in Brokers :
        /\ first[q][c] = baos[q][c] \/ first[q][c] = <<>>
        /\ NameServer \notin {q[1], q[2]} => first[q][c] = baos[q][c]
  <2> TAKE q \in Route, c \in Brokers
  <2>1. NameServer \notin {q[1], q[2]} => q # <<CalcServer, NameServer>>
    OBVIOUS
  <2>2. first[q] = IF q = <<CalcServer, NameServer>> THEN [baos[q] EXCEPT ![NameServer] = <<>>]
                   ELSE baos[q]
    BY <1>1
  <2>3. baos[q] \in [Brokers -> Seq(Unit)]
    BY <1>1
  <2> QED
    BY <2>1, <2>2, <2>3
<1>5. baos' = [first EXCEPT ![<<Client, NameServer>>][NameServer] = <<>>]
  BY DEF RestartNameServer
<1> HIDE DEF first
<1>6. \A q \in Route, c \in Brokers :
        /\ baos'[q][c] = first[q][c] \/ baos'[q][c] = <<>>
        /\ NameServer \notin {q[1], q[2]} => baos'[q][c] = first[q][c]
  <2> TAKE q \in Route, c \in Brokers
  <2>1. NameServer \notin {q[1], q[2]} => q # <<Client, NameServer>>
    OBVIOUS
  <2>2. baos'[q] = IF q = <<Client, NameServer>> THEN [first[q] EXCEPT ![NameServer] = <<>>]
                   ELSE first[q]
    BY <1>3, <1>5
  <2>3. first[q] \in [Brokers -> Seq(Unit)]
    BY <1>3
  <2> QED
    BY <2>1, <2>2, <2>3
<1>7. ASSUME NEW q \in Route, NEW c \in Brokers
      PROVE  /\ wire'[q][c] = wire[q][c] \/ wire'[q][c] = <<>>
             /\ NameServer \in {q[1], q[2]} => wire'[q][c] = <<>>
             /\ NameServer \notin {q[1], q[2]} => wire'[q][c] = wire[q][c]
  BY DEF RestartNameServer
<1>8. ASSUME NEW q \in Route, NEW c \in Brokers
      PROVE  /\ baos'[q][c] = baos[q][c] \/ baos'[q][c] = <<>>
             /\ NameServer \notin {q[1], q[2]} => baos'[q][c] = baos[q][c]
  BY <1>4, <1>6
<1>9. ASSUME NEW q \in Route, NEW c \in Brokers
      PROVE  /\ Len(Coming(q, c)') <= Len(Coming(q, c))
             /\ \A i \in 1 .. Len(Coming(q, c)') : Coming(q, c)'[i] = Coming(q, c)[i]
             /\ NameServer \notin {q[1], q[2]} => Flow(q, c)' = Flow(q, c)
             /\ (NameServer \in {q[1], q[2]} /\ baos[q][c] = <<>>) => Flow(q, c)' = <<>>
  <2>1. wire[q][c] \in Seq(Unit) /\ baos[q][c] \in Seq(Unit) /\ Coming(q, c) \in Seq(Message)
    BY FlowType
  <2>2. CASE NameServer \notin {q[1], q[2]}
    <3>1. Flow(q, c)' = Flow(q, c)
      BY <1>7, <1>8, <2>2 DEF Flow
    <3>2. Coming(q, c)' = Coming(q, c)
      BY <3>1, NextFlow DEF Coming
    <3> QED
      BY <2>1, <2>2, <3>1, <3>2
  <2>3. CASE NameServer \in {q[1], q[2]}
    <3>1. Flow(q, c)' = baos'[q][c]
      <4>1. baos'[q][c] \in Seq(Unit) /\ wire'[q][c] = <<>>
        BY <1>1, <1>7, <1>8, <2>1, <2>3
      <4> QED
        BY <4>1 DEF Flow
    <3>2. CASE baos'[q][c] = baos[q][c]
      <4>1. Coming(q, c)' = decode(baos[q][c]).messages
        BY <3>1, <3>2, NextFlow
      <4>2. Coming(q, c) = decode(baos[q][c] \o wire[q][c]).messages
        BY DEF Coming, Flow
      <4>3. /\ Len(Coming(q, c)') <= Len(Coming(q, c))
            /\ \A i \in 1 .. Len(Coming(q, c)') : Coming(q, c)'[i] = Coming(q, c)[i]
        <5> DEFINE p == baos[q][c]
                   left == wire[q][c]
        <5>1. p \in Seq(Unit) /\ left \in Seq(Unit)
          BY <2>1
        <5> HIDE DEF p, left
        <5>2. /\ Len(decode(p).messages) <= Len(decode(p \o left).messages)
              /\ \A i \in 1 .. Len(decode(p).messages) :
                   decode(p).messages[i] = decode(p \o left).messages[i]
          BY <5>1, ReadTakesFront
        <5> QED
          BY <4>1, <4>2, <5>2 DEF p, left
      <4> QED
        BY <2>3, <3>1, <3>2, <4>3
    <3>3. CASE baos'[q][c] = <<>>
      <4>1. Flow(q, c)' = <<>> /\ Coming(q, c)' = decode(<<>>).messages
        BY <3>1, <3>3, NextFlow
      <4>2. Len(decode(<<>>).messages) = 0
        <5>1. <<>> \in Seq(Unit) /\ Len(<<>>) \div 2 = 0
          OBVIOUS
        <5> QED
          BY <5>1, DecodedMessages
      <4> QED
        BY <2>1, <2>3, <4>1, <4>2
    <3> QED
      BY <1>8, <3>2, <3>3
  <2> QED
    BY <2>2, <2>3
<1> QED
  BY <1>8, <1>9

(***************************************************************************)
(* The messages on their way, and what the steps do with them.             *)
(***************************************************************************)
OnWay(r, b) == ToSet(Coming(r, b))

LEMMA OnWayType ==
  ASSUME TypeInv, NEW r \in Route, NEW b \in Brokers
  PROVE  /\ OnWay(r, b) \subseteq Message
         /\ OnWay(r, b) = {Coming(r, b)[i] : i \in 1 .. Len(Coming(r, b))}
         /\ DOMAIN Coming(r, b) = 1 .. Len(Coming(r, b))
<1>1. Coming(r, b) \in Seq(Message)
  BY FlowType
<1> QED
  BY <1>1 DEF OnWay, ToSet

LEMMA NextFlowType ==
  ASSUME TypeInv', NEW r \in Route, NEW b \in Brokers
  PROVE  Coming(r, b)' \in Seq(Message)
<1>1. wire'[r][b] \in Seq(Unit) /\ baos'[r][b] \in Seq(Unit)
  BY DEF TypeInv, MessagesOK
<1>2. Flow(r, b)' \in Seq(Unit)
  BY <1>1 DEF Flow
<1> QED
  BY <1>2, DecodedMessages, NextFlow

LEMMA CallMessages ==
  ASSUME TypeInv, NEW t \in Threads, call(t), NEW callee, callee = Callee(t),
         NEW r, r = <<Home(t), callee>>,
         \A q \in Route, b \in Brokers : q \notin dead => Whole(Flow(q, b))
  PROVE  /\ r \in Route /\ r[1] = Home(t) /\ r[2] = callee /\ r[1] # r[2] /\ callee \in Brokers
         /\ \A q \in Route, c \in Brokers :
              \/ Flow(q, c)' = Flow(q, c) /\ Coming(q, c)' = Coming(q, c)
              \/ /\ q = r /\ c = callee /\ Whole(Flow(q, c))'
                 /\ Coming(q, c)' = Append(Coming(q, c), RequestOf(t))
         /\ r \notin dead => Coming(r, callee)' = Append(Coming(r, callee), RequestOf(t))
         /\ UNCHANGED <<baos, tasks, responses, executed, dead, restarts>>
         /\ \A c \in Brokers : sockets[c] \subseteq sockets'[c]
<1>1. callee \in Brokers /\ Home(t) # callee /\ r \in Route
  BY BrokerAndThread DEF Route
<1>2. RequestOf(t) \in Message
  BY RequestType DEF call, Message
<1>3. CASE r \in dead
  <2>1. UNCHANGED <<wire, baos>>
    BY <1>1, <1>3 DEF call
  <2> QED
    BY <1>1, <1>3, <2>1, FlowsStay DEF call, TypeInv, NetOK
<1>4. CASE r \notin dead
  <2>1. UNCHANGED baos /\ wire' = [wire EXCEPT ![r][callee] = wire[r][callee] \o request2Bytes(RequestOf(t))]
    BY <1>1, <1>4 DEF call
  <2>2. /\ Whole(Flow(r, callee))'
        /\ Coming(r, callee)' = Append(Coming(r, callee), RequestOf(t))
        /\ \A q \in Route, c \in Brokers : q # r \/ c # callee => Flow(q, c)' = Flow(q, c)
    <3>0. PICK m \in Message : m = RequestOf(t)
      BY <1>2
    <3>1. m \in Message /\ Whole(Flow(r, callee)) /\ r \in Route
      BY <1>1, <1>4
    <3>2. Written(r, callee, m)
      BY <2>1, <3>0 DEF Written
    <3>3. /\ Whole(Flow(r, callee))' /\ Coming(r, callee)' = Append(Coming(r, callee), m)
          /\ \A q \in Route, c \in Brokers : q # r \/ c # callee => Flow(q, c)' = Flow(q, c)
      BY <1>1, <3>1, <3>2, WriteEffect
    <3> QED
      BY <3>0, <3>3
  <2>3. \A q \in Route, c \in Brokers : q # r \/ c # callee => Coming(q, c)' = Coming(q, c)
    BY <2>2, NextFlow DEF Coming
  <2>4. \A c \in Brokers : sockets[c] \subseteq sockets'[c]
    BY DEF call, TypeInv, NetOK
  <2>5. UNCHANGED <<baos, tasks, responses, executed, dead, restarts>>
    BY DEF call
  <2>6. \A q \in Route, c \in Brokers :
          \/ Flow(q, c)' = Flow(q, c) /\ Coming(q, c)' = Coming(q, c)
          \/ /\ q = r /\ c = callee /\ Whole(Flow(q, c))'
             /\ Coming(q, c)' = Append(Coming(q, c), RequestOf(t))
    BY <2>2, <2>3
  <2>7. r[1] = Home(t) /\ r[2] = callee /\ r[1] # r[2]
    BY <1>1
  <2>8. Coming(r, callee)' = Append(Coming(r, callee), RequestOf(t))
    BY <2>2
  <2> QED
    BY <1>1, <2>4, <2>5, <2>6, <2>7, <2>8
<1> QED
  BY <1>3, <1>4

LEMMA VisitMessages ==
  ASSUME TypeInv, NEW b \in Brokers, NEW r \in todo[b], Visit(b, r)
  PROVE  /\ r \in Route /\ r \in sockets[r[1]]
         /\ \A q \in Route, c \in Brokers : OnWay(q, c)' \subseteq OnWay(q, c)
         /\ \A c \in Brokers : \A x \in tasks'[c] : x \in tasks[c] \/
              /\ c = b /\ x.route = r /\ x.answer = "none"
              /\ x.request \in OnWay(r, b) /\ x.request.type = "request"
         /\ \A c \in Brokers : \A m \in responses'[c] : m \in responses[c] \/
              /\ c = b /\ m \in OnWay(r, b) /\ m.type = "response"
         /\ UNCHANGED <<requestID, callerVars, executed, dead, sockets, restarts>>
<1>1. r \in Route /\ r \in sockets[r[1]]
  BY VisitTakes
<1>2. PICK k \in Nat, handled \in Seq(Message) : Takes(b, r, k, handled)
  BY VisitTakes
<1>3. ToSet(handled) \subseteq OnWay(r, b)
  <2>1. Coming(r, b) \in Seq(Message)
    BY <1>1, FlowType
  <2>2. \A i \in 1 .. Len(handled) : i \in 1 .. Len(Coming(r, b)) /\ handled[i] = Coming(r, b)[i]
    BY <1>2, <2>1 DEF Takes
  <2> QED
    BY <2>1, <2>2 DEF ToSet, OnWay
<1>4. \A q \in Route, c \in Brokers : OnWay(q, c)' \subseteq OnWay(q, c)
  <2> TAKE q \in Route, c \in Brokers
  <2>1. CASE q = r /\ c = b
    <3>1. Coming(r, b) \in Seq(Message) /\ Coming(r, b)' \in Seq(Message)
      BY <1>1, VisitType, FlowType, NextFlowType
    <3>2. \A i \in 1 .. Len(Coming(r, b)') : i + k \in 1 .. Len(Coming(r, b))
      BY <1>2, <3>1 DEF Takes
    <3>3. {Coming(r, b)'[i] : i \in 1 .. Len(Coming(r, b)')} \subseteq
            {Coming(r, b)[i] : i \in 1 .. Len(Coming(r, b))}
      BY <1>2, <3>2 DEF Takes
    <3>4. OnWay(r, b)' = {Coming(r, b)'[i] : i \in 1 .. Len(Coming(r, b)')}
      BY <3>1 DEF OnWay, ToSet
    <3>5. OnWay(r, b) = {Coming(r, b)[i] : i \in 1 .. Len(Coming(r, b))}
      BY <3>1 DEF OnWay, ToSet
    <3> QED
      BY <2>1, <3>3, <3>4, <3>5
  <2>2. CASE ~ (q = r /\ c = b)
    <3>1. Coming(q, c)' = Coming(q, c)
      BY <2>2, VisitTakes, NextFlow DEF Coming
    <3> QED
      BY <3>1 DEF OnWay, ToSet
  <2> QED
    BY <2>1, <2>2
<1>5. \A c \in Brokers : \A x \in tasks'[c] : x \in tasks[c] \/
        /\ c = b /\ x.route = r /\ x.answer = "none"
        /\ x.request \in OnWay(r, b) /\ x.request.type = "request"
  <2> DEFINE new == {[route |-> r, request |-> m, answer |-> "none"] : m \in Requests(handled)}
  <2>1. \A x \in new : x.route = r /\ x.answer = "none" /\ x.request \in Requests(handled)
    OBVIOUS
  <2>2. \A m \in Requests(handled) : m \in OnWay(r, b) /\ m.type = "request"
    BY <1>3 DEF Requests
  <2>3. tasks' = [tasks EXCEPT ![b] = @ \cup new]
    BY <1>2 DEF Takes
  <2> HIDE DEF new
  <2> QED
    BY <2>1, <2>2, <2>3 DEF TypeInv, MessagesOK
<1>6. \A c \in Brokers : \A m \in responses'[c] : m \in responses[c] \/
        /\ c = b /\ m \in OnWay(r, b) /\ m.type = "response"
  BY <1>2, <1>3, PutResponsesProperties DEF Takes, TypeInv, MessagesOK
<1>7. UNCHANGED <<requestID, callerVars, executed, dead, sockets, restarts>>
  BY DEF Visit
<1> QED
  BY <1>1, <1>4, <1>5, <1>6, <1>7

LEMMA InvokeMessages ==
  ASSUME TypeInv, NEW b \in Brokers, NEW task \in tasks[b], Invoke(b, task)
  PROVE  /\ task \in Task /\ task.answer = "none"
         /\ \A q \in Route, c \in Brokers : Flow(q, c)' = Flow(q, c) /\ Coming(q, c)' = Coming(q, c)
         /\ \E done \in Task :
              /\ done.route = task.route /\ done.request = task.request /\ done.answer # "none"
              /\ tasks' = [tasks EXCEPT ![b] = (@ \ {task}) \cup {done}]
         /\ executed' = Append(executed, task.request.call)
         /\ UNCHANGED <<responses, requestID, callerVars, dead, sockets, restarts, wire, baos>>
<1>1. PICK outcome \in MethodEnds(b, task.request) :
        tasks' = [tasks EXCEPT ![b] = (@ \ {task}) \cup {[task EXCEPT !.answer = outcome]}]
  BY DEF Invoke
<1>2. task \in Task /\ task.answer = "none"
  BY DEF TypeInv, MessagesOK, Invoke
<1>3. outcome \in Answers /\ outcome # "none"
  BY BrokerAssumption DEF MethodEnds, Answers
<1>4. \E done \in Task :
        /\ done.route = task.route /\ done.request = task.request /\ done.answer # "none"
        /\ tasks' = [tasks EXCEPT ![b] = (@ \ {task}) \cup {done}]
  <2> DEFINE done == [task EXCEPT !.answer = outcome]
  <2>1. done \in Task /\ done.route = task.route /\ done.request = task.request /\ done.answer = outcome
    BY <1>2, <1>3 DEF Task
  <2> HIDE DEF done
  <2>2. tasks' = [tasks EXCEPT ![b] = (@ \ {task}) \cup {done}]
    BY <1>1 DEF done
  <2> QED
    BY <1>3, <2>1, <2>2
<1>5. /\ UNCHANGED <<wire, baos>> /\ executed' = Append(executed, task.request.call)
      /\ UNCHANGED <<responses, requestID, callerVars, dead, sockets, restarts>>
  BY DEF Invoke, netVars
<1> QED
  BY <1>2, <1>4, <1>5, FlowsStay

LEMMA RespondMessages ==
  ASSUME TypeInv, NEW b \in Brokers, NEW task \in tasks[b], Respond(b, task),
         \A r \in Route, c \in Brokers : r \notin dead => Whole(Flow(r, c))
  PROVE  /\ task \in Task /\ task.answer # "none"
         /\ tasks' = [tasks EXCEPT ![b] = @ \ {task}]
         /\ \E m \in ResponseMessage :
              /\ m.call = task.request.call /\ m.requestID = task.request.requestID
              /\ \A q \in Route, c \in Brokers :
                   \/ Flow(q, c)' = Flow(q, c) /\ Coming(q, c)' = Coming(q, c)
                   \/ /\ q = task.route /\ c = Other(task.route, b) /\ Whole(Flow(q, c))'
                      /\ Coming(q, c)' = Append(Coming(q, c), m)
         /\ UNCHANGED <<responses, requestID, callerVars, executed, dead, sockets, restarts, baos>>
<1> DEFINE m == Response(task.request.requestID, task.request.call, task.answer)
           r == task.route
           to == Other(r, b)
<1>1. task \in Task /\ task.answer # "none"
  BY DEF TypeInv, MessagesOK, Respond
<1>2. r \in Route /\ to \in Brokers
  BY RespondEffect
<1>3. m \in ResponseMessage /\ m.call = task.request.call /\ m.requestID = task.request.requestID
  BY <1>1 DEF Task, RequestMessage, Response, ResponseMessage
<1>4. /\ tasks' = [tasks EXCEPT ![b] = @ \ {task}]
      /\ UNCHANGED <<responses, requestID, callerVars, executed, dead, sockets, restarts, baos>>
  BY DEF Respond
<1>5. wire' = wire \/ (r \notin dead /\ wire' = [wire EXCEPT ![r][to] = wire[r][to] \o request2Bytes(m)])
  BY DEF Respond
<1> HIDE DEF m, r, to
<1>6. ASSUME NEW q \in Route, NEW c \in Brokers
      PROVE  \/ Flow(q, c)' = Flow(q, c) /\ Coming(q, c)' = Coming(q, c)
             \/ /\ q = r /\ c = to /\ Whole(Flow(q, c))'
                /\ Coming(q, c)' = Append(Coming(q, c), m)
  <2>1. CASE wire' = wire
    BY <1>4, <2>1, FlowsStay
  <2>2. CASE r \notin dead /\ wire' = [wire EXCEPT ![r][to] = wire[r][to] \o request2Bytes(m)]
    <3>1. /\ Whole(Flow(r, to))'
          /\ Coming(r, to)' = Append(Coming(r, to), m)
          /\ q # r \/ c # to => Flow(q, c)' = Flow(q, c)
      <4>1. m \in Message /\ Whole(Flow(r, to)) /\ Written(r, to, m)
        BY <1>2, <1>3, <1>4, <2>2 DEF Message, Written
      <4> QED
        BY <1>2, <4>1, WriteEffect
    <3>2. q # r \/ c # to => Coming(q, c)' = Coming(q, c)
      BY <3>1, NextFlow DEF Coming
    <3> QED
      BY <3>1, <3>2
  <2> QED
    BY <1>5, <2>1, <2>2
<1> QED
  BY <1>1, <1>3, <1>4, <1>6 DEF r, to

LEMMA RestartMessages ==
  ASSUME TypeInv, RestartNameServer
  PROVE  /\ \A q \in Route, c \in Brokers : OnWay(q, c)' \subseteq OnWay(q, c)
         /\ \A c \in Brokers : tasks'[c] \subseteq tasks[c]
         /\ \A c \in Brokers : c # NameServer => tasks'[c] = tasks[c] /\ sockets'[c] = sockets[c]
         /\ UNCHANGED <<responses, requestID, callerVars, executed>>
<1>1. ASSUME NEW q \in Route, NEW c \in Brokers
      PROVE  OnWay(q, c)' \subseteq OnWay(q, c)
  <2>1. Coming(q, c) \in Seq(Message) /\ Coming(q, c)' \in Seq(Message)
    BY RestartNameServerType, FlowType, NextFlowType
  <2>2. /\ Len(Coming(q, c)') <= Len(Coming(q, c))
        /\ \A i \in 1 .. Len(Coming(q, c)') : Coming(q, c)'[i] = Coming(q, c)[i]
    BY RestartCuts
  <2>3. OnWay(q, c)' = {Coming(q, c)'[i] : i \in 1 .. Len(Coming(q, c)')}
    BY <2>1 DEF OnWay, ToSet
  <2>4. OnWay(q, c) = {Coming(q, c)[i] : i \in 1 .. Len(Coming(q, c))}
    BY <2>1 DEF OnWay, ToSet
  <2>5. \A i \in 1 .. Len(Coming(q, c)') : i \in 1 .. Len(Coming(q, c))
    BY <2>1, <2>2
  <2> QED
    BY <2>2, <2>3, <2>4, <2>5
<1>2. /\ \A c \in Brokers : tasks'[c] \subseteq tasks[c]
      /\ \A c \in Brokers : c # NameServer => tasks'[c] = tasks[c] /\ sockets'[c] = sockets[c]
      /\ UNCHANGED <<responses, requestID, callerVars, executed>>
  BY DEF RestartNameServer, TypeInv, MessagesOK, NetOK
<1> QED
  BY <1>1, <1>2

-----------------------------------------------------------------------------
(***************************************************************************)
(* Every message is between the broker of its caller and the broker it was *)
(* sent to: a request on its way to the other end of the caller's          *)
(* connection, a response on its way back.  What is on its way consists of *)
(* whole messages, unless the other side of the connection has gone.       *)
(***************************************************************************)
Directed(r, b, m) ==
  /\ r[1] # r[2] /\ r[1] = Home(m.call[1])
  /\ b = IF m.type = "request" THEN r[2] ELSE r[1]

WholeInv == \A r \in Route, b \in Brokers : r \notin dead => Whole(Flow(r, b))

ReadInv == \A r \in Route, b \in Brokers : baos[r][b] # <<>> => r \in sockets[r[1]]

DirectedInv ==
  /\ \A r \in Route, b \in Brokers : \A m \in OnWay(r, b) : Directed(r, b, m)
  /\ \A b \in Brokers : \A task \in tasks[b] : Directed(task.route, b, task.request)
  /\ \A b \in Brokers : \A m \in responses[b] : b = Home(m.call[1])

DeadInv == \A r \in dead : NameServer \in {r[1], r[2]} /\ restarts > 0

FlowInv == WholeInv /\ ReadInv /\ DirectedInv /\ DeadInv

LEMMA EmptyFlow ==
  ASSUME NEW bytes, bytes = <<>>
  PROVE  Whole(bytes) /\ ToSet(decode(bytes).messages) = {}
<1>1. <<>> \in Seq(Unit) /\ Len(<<>>) = 0 /\ 0 \div 2 = 0 /\ (1 .. 0) = {}
  OBVIOUS
<1>2. decode(<<>>).messages = [i \in 1 .. 0 |-> <<>>[2 * i].m]
  BY <1>1 DEF decode
<1>3. DOMAIN decode(<<>>).messages = {}
  BY <1>1, <1>2
<1> QED
  BY <1>1, <1>3 DEF Whole, ToSet

LEMMA FlowInit == BrokerInit => FlowInv
<1> SUFFICES ASSUME BrokerInit
             PROVE  FlowInv
  OBVIOUS
<1>1. ASSUME NEW r \in Route, NEW b \in Brokers
      PROVE  baos[r][b] = <<>> /\ Flow(r, b) = <<>>
  BY DEF BrokerInit, Flow
<1>2. WholeInv /\ ReadInv
  BY <1>1, EmptyFlow DEF WholeInv, ReadInv
<1>3. \A r \in Route, b \in Brokers : OnWay(r, b) = {}
  BY <1>1, EmptyFlow DEF OnWay, Coming
<1>4. DirectedInv
  BY <1>3 DEF BrokerInit, DirectedInv
<1> QED
  BY <1>2, <1>4 DEF FlowInv, DeadInv, BrokerInit

(* The steps that leave the messages alone.                                *)
Untouched ==
  /\ UNCHANGED <<wire, baos, tasks, responses, executed, dead, restarts>>
  /\ \A b \in Brokers : sockets[b] \subseteq sockets'[b]

LEMMA UntouchedFlow ==
  ASSUME TypeInv, FlowInv, Untouched
  PROVE  FlowInv'
<1>1. \A q \in Route, c \in Brokers : Flow(q, c)' = Flow(q, c) /\ OnWay(q, c)' = OnWay(q, c)
  BY FlowsStay DEF Untouched, OnWay, ToSet
<1>2. WholeInv'
  BY <1>1, NextFlow DEF FlowInv, WholeInv, Untouched
<1>3. ReadInv'
  <2>1. \A r \in Route : r[1] \in Brokers
    BY BrokerAndThread
  <2> QED
    BY <2>1 DEF FlowInv, ReadInv, Untouched
<1>4. DirectedInv'
  BY <1>1 DEF FlowInv, DirectedInv, Directed, Untouched
<1>5. DeadInv'
  BY DEF FlowInv, DeadInv, Untouched
<1> QED
  BY <1>2, <1>3, <1>4, <1>5 DEF FlowInv

LEMMA AppendedToSet ==
  ASSUME NEW S, NEW s \in Seq(S), NEW m \in S
  PROVE  ToSet(Append(s, m)) = ToSet(s) \cup {m}
<1>1. /\ Append(s, m) \in Seq(S) /\ Len(Append(s, m)) = Len(s) + 1
      /\ \A i \in 1 .. Len(s) : Append(s, m)[i] = s[i]
      /\ Append(s, m)[Len(s) + 1] = m
  BY AppendProperties
<1>2. ToSet(Append(s, m)) = {Append(s, m)[i] : i \in 1 .. Len(s) + 1}
  BY <1>1 DEF ToSet
<1>3. ToSet(s) = {s[i] : i \in 1 .. Len(s)}
  BY DEF ToSet
<1>4. Len(s) \in Nat
  OBVIOUS
<1>5. \A i : i \in 1 .. Len(s) + 1 <=> i \in 1 .. Len(s) \/ i = Len(s) + 1
  BY <1>4
<1> QED
  BY <1>1, <1>2, <1>3, <1>5

LEMMA OnWayGrows ==
  ASSUME TypeInv, NEW r \in Route, NEW b \in Brokers, NEW m \in Message,
         \/ Coming(r, b)' = Coming(r, b)
         \/ Coming(r, b)' = Append(Coming(r, b), m)
  PROVE  OnWay(r, b)' \subseteq OnWay(r, b) \cup {m}
<1>1. OnWay(r, b)' = ToSet(Coming(r, b)')
  BY DEF OnWay, ToSet
<1>2. Coming(r, b) \in Seq(Message)
  BY FlowType
<1>3. ToSet(Append(Coming(r, b), m)) = ToSet(Coming(r, b)) \cup {m}
  <2>1. PICK s \in Seq(Message) : s = Coming(r, b)
    BY <1>2
  <2>2. ToSet(Append(s, m)) = ToSet(s) \cup {m}
    BY AppendedToSet
  <2> QED
    BY <2>1, <2>2
<1> QED
  BY <1>1, <1>3 DEF OnWay

LEMMA CallFlow ==
  ASSUME TypeInv, FlowInv, NEW t \in Threads, call(t)
  PROVE  FlowInv'
<1>1. PICK callee, r : callee = Callee(t) /\ r = <<Home(t), callee>>
  OBVIOUS
<1>2. PICK m \in RequestMessage : m = RequestOf(t)
  BY RequestType DEF call
<1>3. m.call = CallOf(t) /\ m.type = "request" /\ m \in Message
  <2>1. RequestOf(t).call = CallOf(t)
    BY DEF RequestOf, Request
  <2> QED
    BY <1>2, <2>1 DEF RequestMessage, Message
<1>4. /\ r \in Route /\ r[1] = Home(t) /\ r[2] = callee /\ r[1] # r[2] /\ callee \in Brokers
      /\ \A q \in Route, c \in Brokers :
           \/ Flow(q, c)' = Flow(q, c) /\ Coming(q, c)' = Coming(q, c)
           \/ /\ q = r /\ c = callee /\ Whole(Flow(q, c))'
              /\ Coming(q, c)' = Append(Coming(q, c), m)
      /\ UNCHANGED <<baos, tasks, responses, executed, dead, restarts>>
      /\ \A c \in Brokers : sockets[c] \subseteq sockets'[c]
  BY <1>1, <1>2, CallMessages DEF FlowInv, WholeInv
<1>5. \A q \in Route, c \in Brokers : OnWay(q, c)' \subseteq OnWay(q, c) \/
        (q = r /\ c = callee /\ OnWay(q, c)' \subseteq OnWay(q, c) \cup {m})
  <2> TAKE q \in Route, c \in Brokers
  <2>1. Coming(q, c)' = Coming(q, c) => OnWay(q, c)' = OnWay(q, c)
    BY DEF OnWay, ToSet
  <2> QED
    BY <1>3, <1>4, <2>1, OnWayGrows
<1>6. WholeInv'
  BY <1>4, NextFlow DEF FlowInv, WholeInv
<1>7. ReadInv'
  <2>1. \A q \in Route : q[1] \in Brokers
    BY BrokerAndThread
  <2> QED
    BY <1>4, <2>1 DEF FlowInv, ReadInv
<1>8. Directed(r, callee, m)
  BY <1>3, <1>4 DEF Directed, CallOf
<1>9. DirectedInv'
  <2>1. \A q \in Route, c \in Brokers : \A x \in OnWay(q, c)' : Directed(q, c, x)
    BY <1>5, <1>8 DEF FlowInv, DirectedInv
  <2> QED
    BY <1>4, <2>1 DEF FlowInv, DirectedInv, Directed
<1>10. DeadInv'
  BY <1>4 DEF FlowInv, DeadInv
<1> QED
  BY <1>6, <1>7, <1>9, <1>10 DEF FlowInv

LEMMA VisitFlow ==
  ASSUME TypeInv, FlowInv, NEW b \in Brokers, NEW r \in todo[b], Visit(b, r)
  PROVE  FlowInv'
<1>1. /\ r \in Route /\ r \in sockets[r[1]]
      /\ \A q \in Route, c \in Brokers : OnWay(q, c)' \subseteq OnWay(q, c)
      /\ \A c \in Brokers : \A x \in tasks'[c] : x \in tasks[c] \/
           /\ c = b /\ x.route = r /\ x.answer = "none"
           /\ x.request \in OnWay(r, b) /\ x.request.type = "request"
      /\ \A c \in Brokers : \A m \in responses'[c] : m \in responses[c] \/
           /\ c = b /\ m \in OnWay(r, b) /\ m.type = "response"
      /\ UNCHANGED <<dead, sockets, restarts>>
  BY VisitMessages
<1>2. PICK k \in Nat, handled \in Seq(Message) : Takes(b, r, k, handled)
  BY VisitTakes
<1>3. \A q \in Route, c \in Brokers : q # r \/ c # b =>
        Flow(q, c)' = Flow(q, c) /\ baos'[q][c] = baos[q][c]
  BY VisitTakes
<1>4. WholeInv'
  BY <1>1, <1>2, <1>3, NextFlow DEF FlowInv, WholeInv, Takes
<1>5. ReadInv'
  BY <1>1, <1>3 DEF FlowInv, ReadInv
<1>6. DirectedInv'
  <2>1. \A q \in Route, c \in Brokers : \A x \in OnWay(q, c)' : Directed(q, c, x)
    BY <1>1 DEF FlowInv, DirectedInv
  <2>2. \A c \in Brokers : \A x \in tasks'[c] : Directed(x.route, c, x.request)
    BY <1>1 DEF FlowInv, DirectedInv
  <2>3. \A c \in Brokers : \A m \in responses'[c] : c = Home(m.call[1])
    BY <1>1 DEF FlowInv, DirectedInv, Directed
  <2> QED
    BY <2>1, <2>2, <2>3 DEF DirectedInv, Directed
<1>7. DeadInv'
  BY <1>1 DEF FlowInv, DeadInv
<1> QED
  BY <1>4, <1>5, <1>6, <1>7 DEF FlowInv

LEMMA InvokeFlow ==
  ASSUME TypeInv, FlowInv, NEW b \in Brokers, NEW task \in tasks[b], Invoke(b, task)
  PROVE  FlowInv'
<1>1. PICK done \in Task :
        /\ done.route = task.route /\ done.request = task.request /\ done.answer # "none"
        /\ tasks' = [tasks EXCEPT ![b] = (@ \ {task}) \cup {done}]
  BY InvokeMessages
<1>2. /\ \A q \in Route, c \in Brokers : Flow(q, c)' = Flow(q, c) /\ Coming(q, c)' = Coming(q, c)
      /\ UNCHANGED <<responses, dead, sockets, restarts, wire, baos>>
  BY InvokeMessages
<1>3. \A q \in Route, c \in Brokers : OnWay(q, c)' = OnWay(q, c)
  BY <1>2 DEF OnWay, ToSet
<1>4. WholeInv' /\ ReadInv' /\ DeadInv'
  BY <1>2, NextFlow DEF FlowInv, WholeInv, ReadInv, DeadInv
<1>5. \A c \in Brokers : \A x \in tasks'[c] : Directed(x.route, c, x.request)
  BY <1>1 DEF FlowInv, DirectedInv, TypeInv, MessagesOK
<1>6. DirectedInv'
  BY <1>2, <1>3, <1>5 DEF FlowInv, DirectedInv, Directed
<1> QED
  BY <1>4, <1>6 DEF FlowInv

LEMMA RespondFlow ==
  ASSUME TypeInv, FlowInv, NEW b \in Brokers, NEW task \in tasks[b], Respond(b, task)
  PROVE  FlowInv'
<1>1. PICK m \in ResponseMessage :
        /\ m.call = task.request.call
        /\ \A q \in Route, c \in Brokers :
             \/ Flow(q, c)' = Flow(q, c) /\ Coming(q, c)' = Coming(q, c)
             \/ /\ q = task.route /\ c = Other(task.route, b) /\ Whole(Flow(q, c))'
                /\ Coming(q, c)' = Append(Coming(q, c), m)
  BY RespondMessages DEF FlowInv, WholeInv
<1>2. /\ tasks' = [tasks EXCEPT ![b] = @ \ {task}] /\ task \in Task
      /\ UNCHANGED <<responses, dead, sockets, restarts, baos>>
  BY RespondMessages DEF FlowInv, WholeInv
<1>3. Directed(task.route, Other(task.route, b), m)
  <2>1. Directed(task.route, b, task.request) /\ task.request.type = "request" /\ m.type = "response"
    BY <1>2 DEF FlowInv, DirectedInv, Task, RequestMessage, ResponseMessage
  <2> QED
    BY <1>1, <2>1 DEF Directed, Other
<1>4. \A q \in Route, c \in Brokers : OnWay(q, c)' \subseteq OnWay(q, c) \/
        (q = task.route /\ c = Other(task.route, b) /\ OnWay(q, c)' \subseteq OnWay(q, c) \cup {m})
  <2> TAKE q \in Route, c \in Brokers
  <2>1. Coming(q, c)' = Coming(q, c) => OnWay(q, c)' = OnWay(q, c)
    BY DEF OnWay, ToSet
  <2>2. m \in Message
    BY DEF Message
  <2> QED
    BY <1>1, <2>1, <2>2, OnWayGrows
<1>5. WholeInv' /\ ReadInv' /\ DeadInv'
  BY <1>1, <1>2, NextFlow DEF FlowInv, WholeInv, ReadInv, DeadInv
<1>6. \A q \in Route, c \in Brokers : \A x \in OnWay(q, c)' : Directed(q, c, x)
  BY <1>3, <1>4 DEF FlowInv, DirectedInv
<1>7. \A c \in Brokers : tasks'[c] \subseteq tasks[c]
  BY <1>2 DEF TypeInv, MessagesOK
<1>8. DirectedInv'
  BY <1>2, <1>6, <1>7 DEF FlowInv, DirectedInv, Directed
<1> QED
  BY <1>5, <1>8 DEF FlowInv

LEMMA RestartFlow ==
  ASSUME TypeInv, FlowInv, RestartNameServer
  PROVE  FlowInv'
<1>1. /\ \A q \in Route, c \in Brokers : OnWay(q, c)' \subseteq OnWay(q, c)
      /\ \A c \in Brokers : tasks'[c] \subseteq tasks[c]
      /\ \A c \in Brokers : c # NameServer => tasks'[c] = tasks[c] /\ sockets'[c] = sockets[c]
      /\ UNCHANGED responses
  BY RestartMessages
<1>2. \A q \in Route, c \in Brokers :
        /\ NameServer \notin {q[1], q[2]} => Flow(q, c)' = Flow(q, c)
        /\ baos'[q][c] = baos[q][c] \/ baos'[q][c] = <<>>
        /\ (NameServer \in {q[1], q[2]} /\ baos[q][c] = <<>>) => Flow(q, c)' = <<>>
  BY RestartCuts
<1>3. /\ dead' = dead \cup {r \in Route : NameServer \in {r[1], r[2]} /\ r \in sockets[r[1]]}
      /\ restarts' = restarts + 1
  BY DEF RestartNameServer
<1>4. WholeInv'
  <2> SUFFICES ASSUME NEW r \in Route, NEW b \in Brokers, r \notin dead'
               PROVE  Whole(Flow(r, b)')
    BY NextFlow DEF WholeInv
  <2>1. CASE NameServer \in {r[1], r[2]}
    <3>1. r \notin sockets[r[1]]
      BY <1>3, <2>1
    <3>2. baos[r][b] = <<>>
      BY <3>1 DEF FlowInv, ReadInv
    <3> QED
      BY <1>2, <2>1, <3>2, EmptyFlow
  <2>2. CASE NameServer \notin {r[1], r[2]}
    <3>1. r \notin dead
      BY <1>3
    <3> QED
      BY <1>2, <2>2, <3>1 DEF FlowInv, WholeInv
  <2> QED
    BY <2>1, <2>2
<1>5. ReadInv'
  <2> SUFFICES ASSUME NEW r \in Route, NEW b \in Brokers, baos'[r][b] # <<>>
               PROVE  r \in sockets'[r[1]]
    BY DEF ReadInv
  <2>1. r \in sockets[r[1]] /\ r[1] \in Brokers
    BY <1>2, BrokerAndThread DEF FlowInv, ReadInv
  <2>2. r[1] # NameServer
    BY <2>1 DEF TypeInv, NetOK
  <2> QED
    BY <1>1, <2>1, <2>2
<1>6. DirectedInv'
  BY <1>1 DEF FlowInv, DirectedInv, Directed
<1>7. DeadInv'
  BY <1>3 DEF FlowInv, DeadInv, TypeInv, ServicesOK
<1> QED
  BY <1>4, <1>5, <1>6, <1>7 DEF FlowInv

LEMMA UntouchedSteps ==
  ASSUME TypeInv,
         \/ \E t \in Threads : ReadMonitor(t) \/ EnterMonitor(t) \/ IncrementRequestID(t)
         \/ \E b \in Brokers : AcceptAndIterate(b) \/ IteratorFails(b)
         \/ registerLocal \/ UNCHANGED brokerVars
  PROVE  Untouched /\ UNCHANGED result
<1>1. ASSUME NEW t \in Threads, ReadMonitor(t) \/ EnterMonitor(t) \/ IncrementRequestID(t)
      PROVE  Untouched /\ UNCHANGED result
  BY <1>1 DEF ReadMonitor, EnterMonitor, IncrementRequestID, Untouched, netVars
<1>2. ASSUME NEW b \in Brokers, AcceptAndIterate(b) \/ IteratorFails(b)
      PROVE  Untouched /\ UNCHANGED result
  BY <1>2 DEF AcceptAndIterate, IteratorFails, Untouched, callerVars, TypeInv, NetOK
<1>3. CASE registerLocal
  BY <1>3 DEF registerLocal, Untouched, netVars
<1>4. CASE UNCHANGED brokerVars
  BY <1>4 DEF brokerVars, Untouched, netVars, callerVars
<1> QED
  BY <1>1, <1>2, <1>3, <1>4

LEMMA EndMessages ==
  ASSUME TypeInv, NEW t \in Threads, TakeResponse(t) \/ NoResponse(t)
  PROVE  /\ UNCHANGED <<wire, baos, tasks, executed, dead, restarts, sockets, requestID, made,
                        monitor, key>>
         /\ \A c \in Brokers : responses'[c] \subseteq responses[c]
         /\ \A q \in Route, c \in Brokers :
              Flow(q, c)' = Flow(q, c) /\ Coming(q, c)' = Coming(q, c) /\ OnWay(q, c)' = OnWay(q, c)
         /\ pc[t] = "waiting"
         /\ pc' = [pc EXCEPT ![t] = IF t = Main THEN "end" ELSE "idle"]
         /\ \E end \in {"answer", "NoResponse"}, of \in Calls :
              result' = [result EXCEPT ![CallOf(t)] = [end |-> end, call |-> of]]
<1>1. CASE TakeResponse(t)
  <2>1. PICK m \in responses[Home(t)] :
          /\ pc[t] = "waiting"
          /\ responses' = [responses EXCEPT ![Home(t)] = @ \ {m}]
          /\ EndCall(t, "answer", m.call, m.value = "address")
    BY <1>1 DEF TakeResponse
  <2>2. /\ UNCHANGED <<wire, baos, tasks, executed, dead, restarts, sockets, requestID, made,
                       monitor, key>>
        /\ pc' = [pc EXCEPT ![t] = IF t = Main THEN "end" ELSE "idle"]
        /\ result' = [result EXCEPT ![CallOf(t)] = [end |-> "answer", call |-> m.call]]
    BY <2>1 DEF EndCall, netVars
  <2>3. \A c \in Brokers : responses'[c] \subseteq responses[c]
    BY <2>1 DEF TypeInv, MessagesOK
  <2>4. m.call \in Calls
    BY BrokerAndThread DEF TypeInv, MessagesOK, ResponseMessage
  <2> QED
    BY <2>1, <2>2, <2>3, <2>4, FlowsStay DEF OnWay, ToSet
<1>2. CASE NoResponse(t)
  <2>1. pc[t] = "waiting" /\ UNCHANGED responses /\ EndCall(t, "NoResponse", CallOf(t), FALSE)
    BY <1>2 DEF NoResponse
  <2>2. /\ UNCHANGED <<wire, baos, tasks, executed, dead, restarts, sockets, requestID, made,
                       monitor, key>>
        /\ pc' = [pc EXCEPT ![t] = IF t = Main THEN "end" ELSE "idle"]
        /\ result' = [result EXCEPT ![CallOf(t)] = [end |-> "NoResponse", call |-> CallOf(t)]]
    BY <2>1 DEF EndCall, netVars
  <2>3. CallOf(t) \in Calls
    BY <2>1, CallOfType DEF TypeInv
  <2> QED
    BY <2>1, <2>2, <2>3, FlowsStay DEF OnWay, ToSet
<1> QED
  BY <1>1, <1>2

LEMMA FlowNext == TypeInv /\ FlowInv /\ [BrokerNext]_brokerVars => FlowInv'
<1> SUFFICES ASSUME TypeInv, FlowInv, [BrokerNext]_brokerVars
             PROVE  FlowInv'
  OBVIOUS
<1>1. ASSUME NEW t \in Threads, ThreadStep(t)
      PROVE  FlowInv'
  <2>1. CASE ReadMonitor(t) \/ EnterMonitor(t) \/ IncrementRequestID(t)
    BY <2>1, UntouchedSteps, UntouchedFlow
  <2>2. CASE call(t)
    BY <2>2, CallFlow
  <2>3. CASE TakeResponse(t) \/ NoResponse(t)
    <3>1. /\ UNCHANGED <<wire, baos, tasks, executed, dead, restarts, sockets>>
          /\ \A c \in Brokers : responses'[c] \subseteq responses[c]
      BY <2>3, EndMessages
    <3>2. \A q \in Route, c \in Brokers : Flow(q, c)' = Flow(q, c) /\ OnWay(q, c)' = OnWay(q, c)
      BY <2>3, EndMessages
    <3>3. WholeInv' /\ ReadInv' /\ DeadInv'
      BY <3>1, <3>2, NextFlow DEF FlowInv, WholeInv, ReadInv, DeadInv
    <3>4. DirectedInv'
      BY <3>1, <3>2 DEF FlowInv, DirectedInv, Directed
    <3> QED
      BY <3>3, <3>4 DEF FlowInv
  <2> QED
    BY <1>1, <2>1, <2>2, <2>3 DEF ThreadStep
<1>2. ASSUME NEW b \in Brokers, ListenerStep(b)
      PROVE  FlowInv'
  BY <1>2, UntouchedSteps, UntouchedFlow, VisitFlow DEF ListenerStep
<1>3. ASSUME NEW b \in Brokers, PoolStep(b)
      PROVE  FlowInv'
  BY <1>3, InvokeFlow, RespondFlow DEF PoolStep
<1>4. CASE registerLocal \/ UNCHANGED brokerVars
  BY <1>4, UntouchedSteps, UntouchedFlow
<1>5. CASE RestartNameServer
  BY <1>5, RestartFlow
<1> QED
  BY <1>1, <1>2, <1>3, <1>4, <1>5 DEF BrokerNext

-----------------------------------------------------------------------------
(***************************************************************************)
(* The messages that are anywhere between their sender and the thread that *)
(* asked: on their way, as requests of the pools' tasks, in the maps of    *)
(* responses; and what a message is found by.                              *)
(***************************************************************************)
InTransit(m) ==
  \/ \E r \in Route, b \in Brokers : m \in OnWay(r, b)
  \/ \E b \in Brokers : \E task \in tasks[b] : m = task.request
  \/ \E b \in Brokers : m \in responses[b]

Labels == {[call |-> m.call, requestID |-> m.requestID] : m \in {x \in Message : InTransit(x)}}

LEMMA MessageFields ==
  ASSUME NEW m \in Message
  PROVE  m.call \in Calls /\ m.requestID \in Nat /\ m.type \in {"request", "response"}
BY DEF Message, RequestMessage, ResponseMessage

LEMMA TransitType ==
  ASSUME TypeInv
  PROVE  /\ \A r \in Route, b \in Brokers : OnWay(r, b) \subseteq Message
         /\ \A b \in Brokers : \A task \in tasks[b] :
              task \in Task /\ task.request \in Message /\ task.request.type = "request"
         /\ \A b \in Brokers : responses[b] \subseteq Message
         /\ \A b \in Brokers : \A m \in responses[b] : m.type = "response"
<1>1. \A r \in Route, b \in Brokers : OnWay(r, b) \subseteq Message
  BY OnWayType
<1> QED
  BY <1>1 DEF TypeInv, MessagesOK, Task, Message, RequestMessage, ResponseMessage

LEMMA LabelsType ==
  ASSUME TypeInv
  PROVE  /\ Labels \subseteq [call : Calls, requestID : Nat]
         /\ \A r \in Route, b \in Brokers : \A m \in OnWay(r, b) :
              [call |-> m.call, requestID |-> m.requestID] \in Labels
         /\ \A b \in Brokers : \A task \in tasks[b] :
              [call |-> task.request.call, requestID |-> task.request.requestID] \in Labels
         /\ \A b \in Brokers : \A m \in responses[b] :
              [call |-> m.call, requestID |-> m.requestID] \in Labels
BY TransitType, MessageFields DEF Labels, InTransit

LEMMA LabelsShrink ==
  ASSUME \A m \in Message : InTransit(m)' =>
           \E x \in Message : InTransit(x) /\ x.call = m.call /\ x.requestID = m.requestID
  PROVE  Labels' \subseteq Labels
<1> SUFFICES ASSUME NEW l \in Labels'
             PROVE  l \in Labels
  OBVIOUS
<1>1. PICK m \in Message : InTransit(m)' /\ l = [call |-> m.call, requestID |-> m.requestID]
  BY DEF Labels
<1>2. PICK x \in Message : InTransit(x) /\ x.call = m.call /\ x.requestID = m.requestID
  BY <1>1
<1> QED
  BY <1>1, <1>2 DEF Labels

(* What only loses messages loses labels.                                  *)
LEMMA LossKeepsLabels ==
  ASSUME \A q \in Route, c \in Brokers : OnWay(q, c)' \subseteq OnWay(q, c),
         \A c \in Brokers : tasks'[c] \subseteq tasks[c],
         \A c \in Brokers : responses'[c] \subseteq responses[c]
  PROVE  Labels' \subseteq Labels
<1>1. \A m : InTransit(m)' => InTransit(m)
  BY DEF InTransit
<1> QED
  BY <1>1, LabelsShrink

LEMMA VisitLabels ==
  ASSUME TypeInv, NEW b \in Brokers, NEW r \in todo[b], Visit(b, r)
  PROVE  Labels' \subseteq Labels
<1>1. \A m : InTransit(m)' => InTransit(m)
  <2> SUFFICES ASSUME NEW m, InTransit(m)'
               PROVE  InTransit(m)
    OBVIOUS
  <2>1. CASE \E q \in Route, c \in Brokers : m \in OnWay(q, c)'
    BY <2>1, VisitMessages DEF InTransit
  <2>2. CASE \E c \in Brokers : \E x \in tasks'[c] : m = x.request
    BY <2>2, VisitMessages DEF InTransit
  <2>3. CASE \E c \in Brokers : m \in responses'[c]
    BY <2>3, VisitMessages DEF InTransit
  <2> QED
    BY <2>1, <2>2, <2>3 DEF InTransit
<1> QED
  BY <1>1, LabelsShrink

LEMMA InvokeLabels ==
  ASSUME TypeInv, NEW b \in Brokers, NEW task \in tasks[b], Invoke(b, task)
  PROVE  Labels' \subseteq Labels
<1>1. PICK done \in Task :
        /\ done.request = task.request
        /\ tasks' = [tasks EXCEPT ![b] = (@ \ {task}) \cup {done}]
  BY InvokeMessages
<1>2. /\ \A q \in Route, c \in Brokers : OnWay(q, c)' = OnWay(q, c)
      /\ UNCHANGED responses
  BY InvokeMessages DEF OnWay, ToSet
<1>3. \A c \in Brokers : \A x \in tasks'[c] : \E y \in tasks[c] : x.request = y.request
  BY <1>1 DEF TypeInv, MessagesOK
<1>4. \A m : InTransit(m)' => InTransit(m)
  BY <1>2, <1>3 DEF InTransit
<1> QED
  BY <1>4, LabelsShrink

LEMMA RespondLabels ==
  ASSUME TypeInv, FlowInv, NEW b \in Brokers, NEW task \in tasks[b], Respond(b, task)
  PROVE  Labels' \subseteq Labels
<1>1. PICK m \in ResponseMessage :
        /\ m.call = task.request.call /\ m.requestID = task.request.requestID
        /\ \A q \in Route, c \in Brokers :
             \/ Coming(q, c)' = Coming(q, c)
             \/ Coming(q, c)' = Append(Coming(q, c), m)
  BY RespondMessages DEF FlowInv, WholeInv
<1>2. tasks' = [tasks EXCEPT ![b] = @ \ {task}] /\ UNCHANGED responses
  BY RespondMessages DEF FlowInv, WholeInv
<1>3. \A q \in Route, c \in Brokers : OnWay(q, c)' \subseteq OnWay(q, c) \cup {m}
  BY <1>1, OnWayGrows DEF Message
<1>4. \A c \in Brokers : tasks'[c] \subseteq tasks[c]
  BY <1>2 DEF TypeInv, MessagesOK
<1>5. \A x : InTransit(x)' => InTransit(x) \/ x = m
  BY <1>2, <1>3, <1>4 DEF InTransit
<1>6. InTransit(task.request) /\ task.request \in Message
  BY TransitType DEF InTransit
<1> QED
  BY <1>1, <1>5, <1>6, LabelsShrink

LEMMA CallLabels ==
  ASSUME TypeInv, FlowInv, NEW t \in Threads, call(t)
  PROVE  Labels' \subseteq Labels \cup {[call |-> CallOf(t), requestID |-> key[t]]}
<1>1. PICK callee, r : callee = Callee(t) /\ r = <<Home(t), callee>>
  OBVIOUS
<1>2. PICK m \in Message : m = RequestOf(t)
  BY RequestType DEF call, Message
<1>3. m.call = CallOf(t) /\ m.requestID = key[t]
  BY <1>2 DEF RequestOf, Request
<1>4. /\ \A q \in Route, c \in Brokers :
           \/ Coming(q, c)' = Coming(q, c)
           \/ Coming(q, c)' = Append(Coming(q, c), m)
      /\ UNCHANGED <<tasks, responses>>
  BY <1>1, <1>2, CallMessages DEF FlowInv, WholeInv
<1>5. \A q \in Route, c \in Brokers : OnWay(q, c)' \subseteq OnWay(q, c) \cup {m}
  BY <1>4, OnWayGrows
<1>6. \A x : InTransit(x)' => InTransit(x) \/ x = m
  BY <1>4, <1>5 DEF InTransit
<1> SUFFICES ASSUME NEW l \in Labels'
             PROVE  l \in Labels \/ l = [call |-> CallOf(t), requestID |-> key[t]]
  OBVIOUS
<1>7. PICK x \in Message : InTransit(x)' /\ l = [call |-> x.call, requestID |-> x.requestID]
  BY DEF Labels
<1> QED
  BY <1>3, <1>6, <1>7 DEF Labels

(* Only a call puts a label there that was not there before: its own.      *)
LEMMA LabelsNext ==
  ASSUME TypeInv, FlowInv, [BrokerNext]_brokerVars
  PROVE  \/ Labels' \subseteq Labels
         \/ \E t \in Threads :
              call(t) /\ Labels' \subseteq Labels \cup {[call |-> CallOf(t), requestID |-> key[t]]}
<1>1. ASSUME Untouched
      PROVE  Labels' \subseteq Labels
  <2>1. UNCHANGED <<wire, baos, tasks, responses>>
    BY <1>1 DEF Untouched
  <2>2. \A q \in Route, c \in Brokers : OnWay(q, c)' = OnWay(q, c)
    BY <2>1, FlowsStay DEF OnWay, ToSet
  <2> QED
    BY <2>1, <2>2, LossKeepsLabels
<1>2. ASSUME NEW t \in Threads, TakeResponse(t) \/ NoResponse(t)
      PROVE  Labels' \subseteq Labels
  BY <1>2, EndMessages, LossKeepsLabels
<1>3. ASSUME RestartNameServer
      PROVE  Labels' \subseteq Labels
  BY <1>3, RestartMessages, LossKeepsLabels
<1>4. ASSUME NEW t \in Threads, ThreadStep(t)
      PROVE  \/ Labels' \subseteq Labels
             \/ call(t) /\ Labels' \subseteq Labels \cup {[call |-> CallOf(t), requestID |-> key[t]]}
  BY <1>1, <1>2, <1>4, UntouchedSteps, CallLabels DEF ThreadStep
<1>5. ASSUME NEW b \in Brokers, ListenerStep(b) \/ PoolStep(b)
      PROVE  Labels' \subseteq Labels
  BY <1>1, <1>5, UntouchedSteps, VisitLabels, InvokeLabels, RespondLabels DEF ListenerStep, PoolStep
<1> QED
  BY <1>1, <1>3, <1>4, <1>5, UntouchedSteps DEF BrokerNext

-----------------------------------------------------------------------------
(***************************************************************************)
(* A call is ended when its thread has its result, and nothing is on its   *)
(* way or executed for a call that has not been made.                      *)
(***************************************************************************)
Ahead == {"entering", "inside", "calling"}
Started(c) == c[2] < made[c[1]] \/ (c[2] = made[c[1]] /\ pc[c[1]] \notin Ahead)
Ended(c) == c[2] < made[c[1]] \/ (c[2] = made[c[1]] /\ pc[c[1]] \notin Ahead \cup {"waiting"})

CallsInv ==
  /\ \A c \in Calls : result[c].end # "none" <=> Ended(c)
  /\ \A l \in Labels : Started(l.call)
  /\ executed \in Seq(Calls)
  /\ \A c \in ToSet(executed) : Started(c)

LEMMA CallsType ==
  ASSUME NEW c \in Calls
  PROVE  c[1] \in Threads /\ c[2] \in 1 .. MaxCalls /\ c = <<c[1], c[2]>>
BY DEF Calls

(* Only call starts a call, only the end of a wait ends one.               *)
LEMMA CallsNext ==
  ASSUME TypeInv, [BrokerNext]_brokerVars
  PROVE  \/ /\ \A c \in Calls : (Started(c)' <=> Started(c)) /\ (Ended(c)' <=> Ended(c))
            /\ UNCHANGED result /\ ~ (\E t \in Threads : call(t))
         \/ \E t \in Threads :
              /\ call(t) /\ UNCHANGED result
              /\ \A c \in Calls : (Started(c)' <=> Started(c) \/ c = CallOf(t))
                                    /\ (Ended(c)' <=> Ended(c))
              /\ ~ Started(CallOf(t)) /\ CallOf(t) \in Calls
         \/ \E t \in Threads :
              /\ TakeResponse(t) \/ NoResponse(t)
              /\ \A c \in Calls : (Started(c)' <=> Started(c))
                                    /\ (Ended(c)' <=> Ended(c) \/ c = CallOf(t))
              /\ Started(CallOf(t)) /\ ~ Ended(CallOf(t)) /\ CallOf(t) \in Calls
<1> DEFINE Same == \A c \in Calls : (Started(c)' <=> Started(c)) /\ (Ended(c)' <=> Ended(c))
<1>0. /\ made \in [Threads -> 0 .. MaxCalls] /\ MaxCalls \in Nat
      /\ pc \in [Threads -> {"start", "rebind", "idle", "entering", "inside", "calling",
                             "waiting", "end"}]
      /\ pc[Main] \in {"start", "rebind"} => made[Main] = 0
      /\ \A t \in ClientThreads : pc[t] \notin {"start", "rebind"}
  BY BrokerAssumption DEF TypeInv, ThreadsOK
<1>1. ASSUME UNCHANGED <<pc, made>>
      PROVE  Same
  BY <1>1 DEF Started, Ended
<1>2. ASSUME NEW t \in Threads, ReadMonitor(t)
      PROVE  Same /\ UNCHANGED result
  <2>1. /\ pc[t] \in {"idle", "rebind"} /\ pc' = [pc EXCEPT ![t] = "entering"]
        /\ made' = [made EXCEPT ![t] = @ + 1] /\ UNCHANGED result
    BY <1>2 DEF ReadMonitor
  <2>2. ASSUME NEW c \in Calls
        PROVE  (Started(c)' <=> Started(c)) /\ (Ended(c)' <=> Ended(c))
    <3>1. c[1] \in Threads /\ c[2] \in Nat
      BY <1>0, CallsType
    <3>2. CASE c[1] = t
      BY <1>0, <2>1, <3>1, <3>2 DEF Started, Ended, Ahead
    <3>3. CASE c[1] # t
      BY <1>0, <2>1, <3>1, <3>3 DEF Started, Ended
    <3> QED
      BY <3>2, <3>3
  <2> QED
    BY <2>1, <2>2
<1>3. ASSUME NEW t \in Threads, EnterMonitor(t) \/ IncrementRequestID(t)
      PROVE  Same /\ UNCHANGED result
  <2>1. /\ pc[t] \in {"entering", "inside"} /\ UNCHANGED <<made, result>>
        /\ \E new \in {"inside", "calling"} : pc' = [pc EXCEPT ![t] = new]
    BY <1>3 DEF EnterMonitor, IncrementRequestID
  <2> QED
    BY <1>0, <2>1, CallsType DEF Started, Ended, Ahead
<1>4. ASSUME registerLocal
      PROVE  Same /\ UNCHANGED result
  <2>1. /\ pc[Main] = "start" /\ UNCHANGED <<made, result>> /\ pc' = [pc EXCEPT ![Main] = "rebind"]
    BY <1>4 DEF registerLocal
  <2> QED
    BY <1>0, <2>1, CallsType DEF Started, Ended, Ahead
<1>5. ASSUME NEW t \in Threads, call(t)
      PROVE  /\ UNCHANGED result /\ CallOf(t) \in Calls /\ ~ Started(CallOf(t))
             /\ \A c \in Calls : (Started(c)' <=> Started(c) \/ c = CallOf(t))
                                   /\ (Ended(c)' <=> Ended(c))
  <2>1. /\ pc[t] = "calling" /\ UNCHANGED <<made, result>> /\ pc' = [pc EXCEPT ![t] = "waiting"]
    BY <1>5 DEF call
  <2>2. CallOf(t) \in Calls
    BY <2>1, CallOfType DEF TypeInv
  <2>3. ~ Started(CallOf(t))
    BY <1>0, <2>1 DEF Started, CallOf, Ahead
  <2>4. ASSUME NEW c \in Calls
        PROVE  (Started(c)' <=> Started(c) \/ c = CallOf(t)) /\ (Ended(c)' <=> Ended(c))
    <3>1. c[1] \in Threads /\ c[2] \in Nat /\ c = <<c[1], c[2]>>
      BY <1>0, CallsType
    <3>2. c = CallOf(t) <=> c[1] = t /\ c[2] = made[t]
      BY <3>1 DEF CallOf
    <3> QED
      BY <1>0, <2>1, <3>1, <3>2 DEF Started, Ended, Ahead
  <2> QED
    BY <2>1, <2>2, <2>3, <2>4
<1>6. ASSUME NEW t \in Threads, TakeResponse(t) \/ NoResponse(t)
      PROVE  /\ \A c \in Calls : (Started(c)' <=> Started(c))
                                   /\ (Ended(c)' <=> Ended(c) \/ c = CallOf(t))
             /\ Started(CallOf(t)) /\ ~ Ended(CallOf(t)) /\ CallOf(t) \in Calls
  <2>1. /\ pc[t] = "waiting" /\ UNCHANGED made
        /\ \E new \in {"idle", "end"} : pc' = [pc EXCEPT ![t] = new]
    BY <1>6, EndMessages
  <2>2. CallOf(t) \in Calls
    BY <2>1, CallOfType DEF TypeInv
  <2>3. Started(CallOf(t)) /\ ~ Ended(CallOf(t))
    BY <1>0, <2>1 DEF Started, Ended, CallOf, Ahead
  <2>4. ASSUME NEW c \in Calls
        PROVE  (Started(c)' <=> Started(c)) /\ (Ended(c)' <=> Ended(c) \/ c = CallOf(t))
    <3>1. c[1] \in Threads /\ c[2] \in Nat /\ c = <<c[1], c[2]>>
      BY <1>0, CallsType
    <3>2. c = CallOf(t) <=> c[1] = t /\ c[2] = made[t]
      BY <3>1 DEF CallOf
    <3> QED
      BY <1>0, <2>1, <3>1, <3>2 DEF Started, Ended, Ahead
  <2> QED
    BY <2>2, <2>3, <2>4
<1>7. ASSUME NEW b \in Brokers, ListenerStep(b) \/ PoolStep(b)
      PROVE  Same /\ UNCHANGED <<pc, result>>
  <2>1. UNCHANGED <<pc, made, result>>
    BY <1>7 DEF ListenerStep, PoolStep, AcceptAndIterate, IteratorFails, Visit, Invoke, Respond,
                callerVars
  <2> QED
    BY <1>1, <2>1
<1>8. ASSUME RestartNameServer \/ UNCHANGED brokerVars
      PROVE  Same /\ UNCHANGED <<pc, result>>
  <2>1. UNCHANGED <<pc, made, result>>
    BY <1>8 DEF RestartNameServer, brokerVars, callerVars
  <2> QED
    BY <1>1, <2>1
<1>9. ASSUME NEW t \in Threads, call(t)
      PROVE  pc[t] = "calling" /\ pc'[t] = "waiting"
  BY <1>0, <1>9 DEF call
<1> QED
  BY <1>2, <1>3, <1>4, <1>5, <1>6, <1>7, <1>8, <1>9 DEF BrokerNext, ThreadStep

LEMMA EmptyInit ==
  ASSUME BrokerInit
  PROVE  /\ \A r \in Route, b \in Brokers : Coming(r, b) = <<>> /\ OnWay(r, b) = {}
         /\ Labels = {}
<1>1. \A r \in Route, b \in Brokers : Flow(r, b) = <<>>
  BY DEF BrokerInit, Flow
<1>2. \A r \in Route, b \in Brokers : OnWay(r, b) = {}
  BY <1>1, EmptyFlow DEF OnWay, Coming
<1>3. \A m : ~ InTransit(m)
  BY <1>2 DEF InTransit, BrokerInit
<1>4. Labels = {}
  BY <1>3 DEF Labels
<1>5. \A r \in Route, b \in Brokers : Coming(r, b) = <<>>
  <2>1. TypeInv
    BY TypeInvInit
  <2> TAKE r \in Route, b \in Brokers
  <2>2. Coming(r, b) \in Seq(Message) /\ DOMAIN Coming(r, b) = {}
    BY <1>2, <2>1, FlowType DEF OnWay, ToSet
  <2> QED
    BY <2>2
<1> QED
  BY <1>2, <1>4, <1>5

LEMMA CallsInit == BrokerInit => CallsInv
<1> SUFFICES ASSUME BrokerInit
             PROVE  CallsInv
  OBVIOUS
<1>1. \A c \in Calls : result[c].end = "none" /\ ~ Ended(c)
  <2> TAKE c \in Calls
  <2>1. c[1] \in Threads /\ c[2] \in Nat /\ c[2] > 0
    BY CallsType, BrokerAssumption
  <2> QED
    BY <2>1 DEF BrokerInit, Ended
<1>2. executed = <<>> /\ ToSet(executed) = {}
  BY DEF BrokerInit, ToSet
<1> QED
  BY <1>1, <1>2, EmptyInit DEF CallsInv

(* Only a task's execution adds to what has been executed.                 *)
LEMMA ExecutedNext ==
  ASSUME TypeInv, [BrokerNext]_brokerVars
  PROVE  \/ UNCHANGED executed /\ ~ (\E b \in Brokers : \E task \in tasks[b] : Invoke(b, task))
         \/ \E b \in Brokers : \E task \in tasks[b] :
              Invoke(b, task) /\ executed' = Append(executed, task.request.call)
<1>1. ASSUME NEW b \in Brokers, NEW task \in tasks[b], Invoke(b, task)
      PROVE  executed' = Append(executed, task.request.call)
  BY <1>1, InvokeMessages
<1>2. CASE UNCHANGED executed
  BY <1>1, <1>2
<1>3. UNCHANGED executed
        \/ \E b \in Brokers : \E task \in tasks[b] : Invoke(b, task)
  <2>1. ASSUME NEW t \in Threads, ThreadStep(t)
        PROVE  UNCHANGED executed
    BY <2>1, UntouchedSteps, EndMessages DEF ThreadStep, call, Untouched
  <2>2. ASSUME NEW b \in Brokers, ListenerStep(b)
        PROVE  UNCHANGED executed
    BY <2>2 DEF ListenerStep, AcceptAndIterate, IteratorFails, Visit
  <2>3. ASSUME NEW b \in Brokers, PoolStep(b)
        PROVE  UNCHANGED executed \/ \E task \in tasks[b] : Invoke(b, task)
    BY <2>3 DEF PoolStep, Respond
  <2>4. ASSUME registerLocal \/ RestartNameServer \/ UNCHANGED brokerVars
        PROVE  UNCHANGED executed
    BY <2>4 DEF registerLocal, RestartNameServer, brokerVars
  <2> QED
    BY <2>1, <2>2, <2>3, <2>4 DEF BrokerNext
<1> QED
  BY <1>1, <1>2, <1>3

LEMMA AppendedCalls ==
  \A s \in Seq(Calls), c \in Calls :
    /\ Append(s, c) \in Seq(Calls) /\ ToSet(Append(s, c)) = ToSet(s) \cup {c}
    /\ IsInjective(s) /\ c \notin ToSet(s) => IsInjective(Append(s, c))
<1> TAKE s \in Seq(Calls), c \in Calls
<1>1. Append(s, c) \in Seq(Calls) /\ ToSet(Append(s, c)) = ToSet(s) \cup {c}
  BY AppendedToSet, AppendProperties
<1>2. IsInjective(s) /\ c \notin ToSet(s) => IsInjective(Append(s, c))
  <2> SUFFICES ASSUME IsInjective(s), c \notin ToSet(s)
               PROVE  IsInjective(Append(s, c))
    OBVIOUS
  <2>1. /\ Append(s, c) \in Seq(Calls) /\ Len(Append(s, c)) = Len(s) + 1 /\ Len(s) \in Nat
        /\ \A i \in 1 .. Len(s) : Append(s, c)[i] = s[i] /\ s[i] # c
        /\ Append(s, c)[Len(s) + 1] = c
    BY AppendProperties DEF ToSet
  <2>2. \A i \in 1 .. Len(s), j \in 1 .. Len(s) : s[i] = s[j] => i = j
    BY DEF IsInjective
  <2> DEFINE a == Append(s, c)
  <2>3. DOMAIN a = 1 .. Len(s) + 1
    BY <2>1
  <2> HIDE DEF a
  <2>4. \A i \in DOMAIN a, j \in DOMAIN a : a[i] = a[j] => i = j
    BY <2>1, <2>2, <2>3 DEF a
  <2> QED
    BY <2>4 DEF IsInjective, a
<1> QED
  BY <1>1, <1>2

LEMMA CallsInvNext ==
  ASSUME TypeInv, FlowInv, CallsInv, [BrokerNext]_brokerVars, TypeInv'
  PROVE  CallsInv'
<1>1. \A c \in Calls : Started(c) => Started(c)'
  BY CallsNext
<1>2. \A c \in Calls : result'[c].end # "none" <=> Ended(c)'
  <2>1. CASE UNCHANGED result /\ \A c \in Calls : (Ended(c)' <=> Ended(c))
    BY <2>1 DEF CallsInv
  <2>2. ASSUME NEW t \in Threads, TakeResponse(t) \/ NoResponse(t), CallOf(t) \in Calls,
               \A c \in Calls : (Ended(c)' <=> Ended(c) \/ c = CallOf(t))
        PROVE  \A c \in Calls : result'[c].end # "none" <=> Ended(c)'
    <3>1. PICK end \in {"answer", "NoResponse"}, of \in Calls :
            result' = [result EXCEPT ![CallOf(t)] = [end |-> end, call |-> of]]
      BY <2>2, EndMessages
    <3>2. \A c \in Calls : result'[c] = IF c = CallOf(t) THEN [end |-> end, call |-> of] ELSE result[c]
      BY <3>1 DEF TypeInv, ThreadsOK
    <3> QED
      BY <2>2, <3>2 DEF CallsInv
  <2> QED
    BY <2>1, <2>2, CallsNext
<1>3. \A l \in Labels' : Started(l.call)'
  <2>1. Labels \subseteq [call : Calls, requestID : Nat]
    BY LabelsType
  <2>2. CASE Labels' \subseteq Labels
    BY <1>1, <2>1, <2>2 DEF CallsInv
  <2>3. ASSUME NEW t \in Threads, call(t),
               Labels' \subseteq Labels \cup {[call |-> CallOf(t), requestID |-> key[t]]}
        PROVE  \A l \in Labels' : Started(l.call)'
    <3>1. CallOf(t) \in Calls
      BY <2>3, CallOfType DEF call, TypeInv
    <3>2. Started(CallOf(t))'
      <4>1. pc'[t] = "waiting" /\ UNCHANGED made
        BY <2>3 DEF call, TypeInv, ThreadsOK
      <4> QED
        BY <4>1 DEF Started, CallOf, Ahead
    <3>3. \A c \in Calls : c = CallOf(t) => Started(c)'
      <4>1. CallOf(t)' = CallOf(t)
        BY <2>3 DEF call, CallOf
      <4> QED
        BY <3>2, <4>1 DEF Started
    <3> QED
      BY <1>1, <2>1, <2>3, <3>1, <3>3 DEF CallsInv
  <2> QED
    BY <2>2, <2>3, LabelsNext
<1>4. executed' \in Seq(Calls) /\ \A c \in ToSet(executed)' : Started(c)'
  <2>0. executed \in Seq(Calls) /\ ToSet(executed) \subseteq Calls
    BY DEF CallsInv, ToSet
  <2>1. CASE UNCHANGED executed
    <3>1. ToSet(executed)' = ToSet(executed)
      BY <2>1 DEF ToSet
    <3> QED
      BY <1>1, <2>0, <2>1, <3>1 DEF CallsInv
  <2>2. ASSUME NEW b \in Brokers, NEW task \in tasks[b],
               executed' = Append(executed, task.request.call)
        PROVE  executed' \in Seq(Calls) /\ \A c \in ToSet(executed)' : Started(c)'
    <3>1. task.request.call \in Calls /\ Started(task.request.call)
      <4>1. [call |-> task.request.call, requestID |-> task.request.requestID] \in Labels
        BY LabelsType
      <4>2. [call |-> task.request.call, requestID |-> task.request.requestID].call \in Calls
        BY <4>1, LabelsType
      <4> QED
        BY <4>1, <4>2 DEF CallsInv
    <3>2. executed' \in Seq(Calls) /\ ToSet(executed)' = ToSet(executed) \cup {task.request.call}
      BY <2>0, <2>2, <3>1, AppendedCalls DEF ToSet
    <3> QED
      BY <1>1, <2>0, <3>1, <3>2 DEF CallsInv
  <2> QED
    BY <2>1, <2>2, ExecutedNext
<1> QED
  BY <1>2, <1>3, <1>4 DEF CallsInv

-----------------------------------------------------------------------------
(***************************************************************************)
(* A call is at most in one place: once as a message on its way, or as a   *)
(* task, or as a response in a map.                                        *)
(***************************************************************************)
Distinct(s) == \A i, j \in DOMAIN s : s[i].call = s[j].call => i = j

WiresDistinct == \A r \in Route, b \in Brokers : Distinct(Coming(r, b))
WiresApart ==
  \A r, q \in Route, b, d \in Brokers : \A m \in OnWay(r, b), n \in OnWay(q, d) :
    m.call = n.call => r = q /\ b = d
TasksApart ==
  \A b, d \in Brokers : \A x \in tasks[b], y \in tasks[d] :
    x.request.call = y.request.call => b = d /\ x = y
ResponsesApart ==
  \A b, d \in Brokers : \A m \in responses[b], n \in responses[d] : m.call = n.call => m = n
KindsApart ==
  /\ \A r \in Route, b, d \in Brokers : \A m \in OnWay(r, b) :
       /\ \A x \in tasks[d] : x.request.call # m.call
       /\ \A n \in responses[d] : n.call # m.call
  /\ \A b, d \in Brokers : \A x \in tasks[b], n \in responses[d] : x.request.call # n.call

OneTokenInv == WiresDistinct /\ WiresApart /\ TasksApart /\ ResponsesApart /\ KindsApart

LEMMA OneTokenInit == BrokerInit => OneTokenInv
<1> SUFFICES ASSUME BrokerInit
             PROVE  OneTokenInv
  OBVIOUS
<1>1. \A b \in Brokers : tasks[b] = {} /\ responses[b] = {}
  BY DEF BrokerInit
<1>2. WiresDistinct
  BY EmptyInit DEF WiresDistinct, Distinct
<1> QED
  BY <1>1, <1>2, EmptyInit DEF OneTokenInv, WiresApart, TasksApart, ResponsesApart, KindsApart

(* Messages may be lost from the end of what is on its way, and from the   *)
(* pools and maps.                                                         *)
LEMMA LossKeepsOneToken ==
  ASSUME TypeInv, OneTokenInv, TypeInv',
         \A r \in Route, b \in Brokers :
           /\ Len(Coming(r, b)') <= Len(Coming(r, b))
           /\ \A i \in 1 .. Len(Coming(r, b)') : Coming(r, b)'[i] = Coming(r, b)[i],
         \A b \in Brokers : tasks'[b] \subseteq tasks[b] /\ responses'[b] \subseteq responses[b]
  PROVE  OneTokenInv'
<1>1. ASSUME NEW r \in Route, NEW b \in Brokers
      PROVE  OnWay(r, b)' \subseteq OnWay(r, b) /\ Distinct(Coming(r, b)')
  <2>1. Coming(r, b) \in Seq(Message) /\ Coming(r, b)' \in Seq(Message)
    BY FlowType, NextFlowType
  <2>2. DOMAIN Coming(r, b)' = 1 .. Len(Coming(r, b)') /\ DOMAIN Coming(r, b) = 1 .. Len(Coming(r, b))
    BY <2>1
  <2>3. \A i \in DOMAIN Coming(r, b)' : i \in DOMAIN Coming(r, b) /\ Coming(r, b)'[i] = Coming(r, b)[i]
    BY <2>1, <2>2
  <2> QED
    BY <2>3 DEF OnWay, ToSet, Distinct, OneTokenInv, WiresDistinct
<1>2. WiresDistinct'
  BY <1>1 DEF WiresDistinct, Distinct
<1>3. WiresApart'
  BY <1>1 DEF OneTokenInv, WiresApart
<1>4. TasksApart' /\ ResponsesApart'
  BY DEF OneTokenInv, TasksApart, ResponsesApart
<1>5. KindsApart'
  BY <1>1 DEF OneTokenInv, KindsApart
<1> QED
  BY <1>2, <1>3, <1>4, <1>5 DEF OneTokenInv

LEMMA AppendDistinct ==
  ASSUME NEW s \in Seq(Message), NEW m \in Message, Distinct(s), \A x \in ToSet(s) : x.call # m.call
  PROVE  Distinct(Append(s, m))
<1> DEFINE a == Append(s, m)
<1>1. /\ a \in Seq(Message) /\ Len(a) = Len(s) + 1 /\ Len(s) \in Nat
      /\ \A i \in 1 .. Len(s) : a[i] = s[i]
      /\ a[Len(s) + 1] = m
  BY AppendProperties
<1> HIDE DEF a
<1>2. \A i \in 1 .. Len(s) : a[i].call # m.call
  BY <1>1 DEF ToSet
<1>3. \A i, j \in 1 .. Len(s) : a[i].call = a[j].call => i = j
  BY <1>1 DEF Distinct
<1>4. \A i \in DOMAIN a : i \in 1 .. Len(s) \/ i = Len(s) + 1
  BY <1>1
<1> QED
  BY <1>1, <1>2, <1>3, <1>4 DEF Distinct, a

(* A message of a call that is nowhere else goes to the end of one connection. *)
LEMMA OneTokenWritten ==
  ASSUME TypeInv, OneTokenInv, NEW m \in Message, NEW r \in Route, NEW b \in Brokers,
         \A q \in Route, c \in Brokers :
           \/ Coming(q, c)' = Coming(q, c)
           \/ q = r /\ c = b /\ Coming(q, c)' = Append(Coming(q, c), m),
         \A c \in Brokers : tasks'[c] \subseteq tasks[c] /\ responses'[c] \subseteq responses[c],
         \A q \in Route, c \in Brokers : \A x \in OnWay(q, c) : x.call # m.call,
         \A c \in Brokers : \A x \in tasks'[c] : x.request.call # m.call,
         \A c \in Brokers : \A x \in responses[c] : x.call # m.call
  PROVE  OneTokenInv'
<1>1. \A q \in Route, c \in Brokers :
        \A x \in OnWay(q, c)' : x \in OnWay(q, c) \/ (x = m /\ q = r /\ c = b)
  <2> TAKE q \in Route, c \in Brokers
  <2>1. Coming(q, c)' = Coming(q, c) => OnWay(q, c)' = OnWay(q, c)
    BY DEF OnWay, ToSet
  <2> QED
    BY <2>1, OnWayGrows
<1>2. WiresDistinct'
  <2> SUFFICES ASSUME NEW q \in Route, NEW c \in Brokers
               PROVE  Distinct(Coming(q, c)')
    BY DEF WiresDistinct, Distinct
  <2>1. PICK s \in Seq(Message) : s = Coming(q, c)
    BY FlowType
  <2>2. Distinct(s) /\ \A x \in ToSet(s) : x.call # m.call
    BY <2>1 DEF OneTokenInv, WiresDistinct, OnWay
  <2>3. Distinct(Append(s, m))
    BY <2>2, AppendDistinct
  <2> QED
    BY <2>1, <2>2, <2>3
<1>3. WiresApart'
  BY <1>1 DEF OneTokenInv, WiresApart
<1>4. TasksApart' /\ ResponsesApart'
  BY DEF OneTokenInv, TasksApart, ResponsesApart
<1>5. KindsApart'
  BY <1>1 DEF OneTokenInv, KindsApart
<1> QED
  BY <1>2, <1>3, <1>4, <1>5 DEF OneTokenInv

LEMMA VisitMoves ==
  ASSUME TypeInv, OneTokenInv, TypeInv', NEW b \in Brokers, NEW r \in todo[b], Visit(b, r)
  PROVE  /\ \A q \in Route, c \in Brokers : Distinct(Coming(q, c)')
         /\ \E taken \in SUBSET OnWay(r, b) :
              /\ \A m \in taken, n \in OnWay(r, b)' : m.call # n.call
              /\ \A m, n \in taken : m.call = n.call => m = n
              /\ \A c \in Brokers : \A x \in tasks'[c] : x \in tasks[c] \/
                   /\ c = b /\ x.request \in taken /\ x.request.type = "request"
                   /\ x = [route |-> r, request |-> x.request, answer |-> "none"]
              /\ \A c \in Brokers : \A m \in responses'[c] : m \in responses[c] \/
                   /\ c = b /\ m \in taken /\ m.type = "response"
<1>1. PICK k \in Nat, handled \in Seq(Message) : Takes(b, r, k, handled)
  BY VisitTakes
<1>2. r \in Route /\ \A q \in Route, c \in Brokers : q # r \/ c # b => Coming(q, c)' = Coming(q, c)
  <2>1. r \in Route /\ \A q \in Route, c \in Brokers : q # r \/ c # b => Flow(q, c)' = Flow(q, c)
    BY VisitTakes
  <2> QED
    BY <2>1, NextFlow DEF Coming
<1> DEFINE before == Coming(r, b)
           after == Coming(r, b)'
           taken == ToSet(handled)
<1>3. before \in Seq(Message) /\ after \in Seq(Message) /\ Len(before) \in Nat /\ Len(after) \in Nat
  BY <1>2, FlowType, NextFlowType
<1>4. /\ Len(handled) <= k /\ k <= Len(before) /\ Len(handled) \in Nat
      /\ \A i \in 1 .. Len(handled) : handled[i] = before[i]
      /\ Len(after) = Len(before) - k
      /\ \A i \in 1 .. Len(after) : after[i] = before[i + k]
  BY <1>1 DEF Takes
<1>5. \A i, j \in 1 .. Len(before) : before[i].call = before[j].call => i = j
  BY <1>2, <1>3 DEF OneTokenInv, WiresDistinct, Distinct
<1>6. /\ taken = {handled[i] : i \in 1 .. Len(handled)}
      /\ OnWay(r, b) = {before[i] : i \in 1 .. Len(before)}
      /\ OnWay(r, b)' = {after[i] : i \in 1 .. Len(after)}
      /\ DOMAIN after = 1 .. Len(after)
  BY <1>3 DEF OnWay, ToSet
<1>7. /\ tasks' = [tasks EXCEPT ![b] = @ \cup
           {[route |-> r, request |-> m, answer |-> "none"] : m \in Requests(handled)}]
      /\ responses' = [responses EXCEPT ![b] = PutResponses(@, handled)]
  BY <1>1 DEF Takes
<1> HIDE DEF before, after
<1>8. taken \subseteq OnWay(r, b)
  <2>1. \A i \in 1 .. Len(handled) : i \in 1 .. Len(before) /\ handled[i] = before[i]
    BY <1>3, <1>4
  <2> HIDE DEF taken
  <2> QED
    BY <1>6, <2>1
<1>9. ASSUME NEW m \in taken, NEW n \in OnWay(r, b)'
      PROVE  m.call # n.call
  <2>1. PICK i \in 1 .. Len(handled) : m = before[i] /\ i \in 1 .. Len(before)
    BY <1>3, <1>4, <1>6
  <2>2. PICK j \in 1 .. Len(after) : n = before[j + k] /\ j + k \in 1 .. Len(before)
    BY <1>3, <1>4, <1>6
  <2>3. i # j + k
    BY <1>4
  <2> QED
    BY <1>5, <2>1, <2>2, <2>3
<1>10. ASSUME NEW m \in taken, NEW n \in taken, m.call = n.call
       PROVE  m = n
  <2>1. PICK i \in 1 .. Len(handled) : m = before[i] /\ i \in 1 .. Len(before)
    BY <1>3, <1>4, <1>6
  <2>2. PICK j \in 1 .. Len(handled) : n = before[j] /\ j \in 1 .. Len(before)
    BY <1>3, <1>4, <1>6
  <2> QED
    BY <1>5, <1>10, <2>1, <2>2
<1>11. Distinct(after)
  <2>1. ASSUME NEW i \in 1 .. Len(after), NEW j \in 1 .. Len(after), after[i].call = after[j].call
        PROVE  i = j
    <3>1. i + k \in 1 .. Len(before) /\ j + k \in 1 .. Len(before)
      BY <1>3, <1>4
    <3>2. i + k = j + k
      BY <1>4, <1>5, <2>1, <3>1
    <3> QED
      BY <3>2
  <2> QED
    BY <1>6, <2>1 DEF Distinct
<1>12. \A q \in Route, c \in Brokers : Distinct(Coming(q, c)')
  BY <1>2, <1>11 DEF after, OneTokenInv, WiresDistinct
<1>13. \A c \in Brokers : \A x \in tasks'[c] : x \in tasks[c] \/
         /\ c = b /\ x.request \in taken /\ x.request.type = "request"
         /\ x = [route |-> r, request |-> x.request, answer |-> "none"]
  <2> DEFINE new == {[route |-> r, request |-> m, answer |-> "none"] : m \in Requests(handled)}
  <2>1. \A x \in new : /\ x = [route |-> r, request |-> x.request, answer |-> "none"]
                       /\ x.request \in Requests(handled)
    OBVIOUS
  <2>2. \A m \in Requests(handled) : m \in taken /\ m.type = "request"
    BY DEF Requests
  <2>3. tasks' = [tasks EXCEPT ![b] = @ \cup new]
    BY <1>7
  <2> HIDE DEF new, taken
  <2> QED
    BY <2>1, <2>2, <2>3 DEF TypeInv, MessagesOK
<1>14. \A c \in Brokers : \A m \in responses'[c] : m \in responses[c] \/
         /\ c = b /\ m \in taken /\ m.type = "response"
  BY <1>7, PutResponsesProperties DEF TypeInv, MessagesOK
<1> HIDE DEF taken
<1> QED
  BY <1>8, <1>9, <1>10, <1>12, <1>13, <1>14

LEMMA VisitOneToken ==
  ASSUME TypeInv, OneTokenInv, TypeInv', NEW b \in Brokers, NEW r \in todo[b], Visit(b, r)
  PROVE  OneTokenInv'
<1>0. r \in Route
  BY VisitMessages
<1>1. PICK taken \in SUBSET OnWay(r, b) :
        /\ \A m \in taken, n \in OnWay(r, b)' : m.call # n.call
        /\ \A m, n \in taken : m.call = n.call => m = n
        /\ \A c \in Brokers : \A x \in tasks'[c] : x \in tasks[c] \/
             /\ c = b /\ x.request \in taken /\ x.request.type = "request"
             /\ x = [route |-> r, request |-> x.request, answer |-> "none"]
        /\ \A c \in Brokers : \A m \in responses'[c] : m \in responses[c] \/
             /\ c = b /\ m \in taken /\ m.type = "response"
  BY VisitMoves
<1>2. \A q \in Route, c \in Brokers : OnWay(q, c)' \subseteq OnWay(q, c)
  BY VisitMessages
<1>3. WiresDistinct'
  <2>1. \A q \in Route, c \in Brokers : Distinct(Coming(q, c)')
    BY VisitMoves
  <2> QED
    BY <2>1 DEF WiresDistinct, Distinct
<1>4. WiresApart'
  BY <1>2 DEF OneTokenInv, WiresApart
<1>5. \A c \in Brokers, m \in taken :
        /\ \A x \in tasks[c] : x.request.call # m.call
        /\ \A n \in responses[c] : n.call # m.call
  BY <1>0, <1>1 DEF OneTokenInv, KindsApart
<1>6. \A q \in Route, c \in Brokers : \A m \in taken, n \in OnWay(q, c)' : m.call # n.call
  BY <1>0, <1>1, <1>2 DEF OneTokenInv, WiresApart
<1>7. TasksApart'
  <2> SUFFICES ASSUME NEW c \in Brokers, NEW d \in Brokers, NEW x \in tasks'[c], NEW y \in tasks'[d],
                      x.request.call = y.request.call
               PROVE  c = d /\ x = y
    BY DEF TasksApart
  <2>1. CASE x \in tasks[c] /\ y \in tasks[d]
    BY <2>1 DEF OneTokenInv, TasksApart
  <2>2. CASE x \notin tasks[c] /\ y \notin tasks[d]
    BY <1>1, <2>2
  <2>3. CASE x \in tasks[c] /\ y \notin tasks[d]
    BY <1>1, <1>5, <2>3
  <2>4. CASE x \notin tasks[c] /\ y \in tasks[d]
    BY <1>1, <1>5, <2>4
  <2> QED
    BY <2>1, <2>2, <2>3, <2>4
<1>8. ResponsesApart'
  BY <1>1, <1>5 DEF OneTokenInv, ResponsesApart
<1>9. KindsApart'
  <2>1. \A q \in Route, c, d \in Brokers : \A m \in OnWay(q, c)' :
          /\ \A x \in tasks'[d] : x.request.call # m.call
          /\ \A n \in responses'[d] : n.call # m.call
    BY <1>1, <1>2, <1>6 DEF OneTokenInv, KindsApart
  <2>2. \A c, d \in Brokers : \A x \in tasks'[c], n \in responses'[d] : x.request.call # n.call
    <3> SUFFICES ASSUME NEW c \in Brokers, NEW d \in Brokers, NEW x \in tasks'[c],
                        NEW n \in responses'[d], x.request.call = n.call
                 PROVE  FALSE
      OBVIOUS
    <3>1. CASE x \in tasks[c]
      BY <1>1, <1>5, <3>1 DEF OneTokenInv, KindsApart
    <3>2. CASE x \notin tasks[c]
      <4>1. x.request \in taken /\ x.request.type = "request"
        BY <1>1, <3>2
      <4>2. CASE n \in responses[d]
        BY <1>5, <4>1, <4>2
      <4>3. CASE n \notin responses[d]
        <5>1. n \in taken /\ n.type = "response"
          BY <1>1, <4>3
        <5> QED
          BY <1>1, <4>1, <5>1
      <4> QED
        BY <4>2, <4>3
    <3> QED
      BY <3>1, <3>2
  <2> QED
    BY <2>1, <2>2 DEF KindsApart
<1> QED
  BY <1>3, <1>4, <1>7, <1>8, <1>9 DEF OneTokenInv

LEMMA InvokeOneToken ==
  ASSUME TypeInv, OneTokenInv, NEW b \in Brokers, NEW task \in tasks[b], Invoke(b, task)
  PROVE  OneTokenInv'
<1>1. PICK done \in Task :
        /\ done.request = task.request
        /\ tasks' = [tasks EXCEPT ![b] = (@ \ {task}) \cup {done}]
  BY InvokeMessages
<1>2. /\ \A q \in Route, c \in Brokers : Coming(q, c)' = Coming(q, c)
      /\ UNCHANGED responses
  BY InvokeMessages
<1>3. \A q \in Route, c \in Brokers : OnWay(q, c)' = OnWay(q, c)
  BY <1>2 DEF OnWay, ToSet
<1>4. \A c \in Brokers : \A x \in tasks'[c] :
        \/ x \in tasks[c] /\ x # task
        \/ c = b /\ x = done
  <2>1. \A c \in Brokers : c # b => task \notin tasks[c]
    BY DEF OneTokenInv, TasksApart
  <2> QED
    BY <1>1, <2>1 DEF TypeInv, MessagesOK
<1>5. TasksApart'
  BY <1>1, <1>4 DEF OneTokenInv, TasksApart
<1>6. WiresDistinct' /\ WiresApart' /\ ResponsesApart'
  BY <1>2, <1>3 DEF OneTokenInv, WiresDistinct, Distinct, WiresApart, ResponsesApart
<1>7. KindsApart'
  BY <1>1, <1>2, <1>3, <1>4 DEF OneTokenInv, KindsApart
<1> QED
  BY <1>5, <1>6, <1>7 DEF OneTokenInv

LEMMA RespondOneToken ==
  ASSUME TypeInv, FlowInv, OneTokenInv, NEW b \in Brokers, NEW task \in tasks[b], Respond(b, task)
  PROVE  OneTokenInv'
<1>1. PICK m \in ResponseMessage :
        /\ m.call = task.request.call
        /\ \A q \in Route, c \in Brokers :
             \/ Coming(q, c)' = Coming(q, c)
             \/ /\ q = task.route /\ c = Other(task.route, b)
                /\ Coming(q, c)' = Append(Coming(q, c), m)
  BY RespondMessages DEF FlowInv, WholeInv
<1>2. /\ tasks' = [tasks EXCEPT ![b] = @ \ {task}] /\ task \in Task
      /\ UNCHANGED responses
  BY RespondMessages DEF FlowInv, WholeInv
<1>3. PICK r \in Route, to \in Brokers : r = task.route /\ to = Other(task.route, b)
  BY RespondEffect
<1>4. /\ \A c \in Brokers : tasks'[c] \subseteq tasks[c]
      /\ \A c \in Brokers : \A x \in tasks'[c] : x.request.call # m.call
  BY <1>1, <1>2 DEF TypeInv, MessagesOK, OneTokenInv, TasksApart
<1>5. /\ \A q \in Route, c \in Brokers : \A x \in OnWay(q, c) : x.call # m.call
      /\ \A c \in Brokers : \A x \in responses[c] : x.call # m.call
  BY <1>1 DEF OneTokenInv, KindsApart
<1>6. m \in Message
  BY DEF Message
<1>7. \A q \in Route, c \in Brokers :
        \/ Coming(q, c)' = Coming(q, c)
        \/ q = r /\ c = to /\ Coming(q, c)' = Append(Coming(q, c), m)
  BY <1>1, <1>3
<1>8. \A c \in Brokers : responses'[c] \subseteq responses[c]
  BY <1>2
<1> QED
  BY <1>4, <1>5, <1>6, <1>7, <1>8, OneTokenWritten

LEMMA CallOneToken ==
  ASSUME TypeInv, FlowInv, CallsInv, OneTokenInv, NEW t \in Threads, call(t)
  PROVE  OneTokenInv'
<1>1. PICK callee \in Brokers : callee = Callee(t)
  BY BrokerAndThread
<1>2. PICK r : r = <<Home(t), callee>>
  OBVIOUS
<1>3. PICK m \in Message : m = RequestOf(t)
  BY RequestType DEF call, Message
<1>4. /\ r \in Route
      /\ \A q \in Route, c \in Brokers :
           \/ Coming(q, c)' = Coming(q, c)
           \/ /\ q = r /\ c = callee /\ Coming(q, c)' = Append(Coming(q, c), m)
      /\ UNCHANGED <<tasks, responses>>
  BY <1>1, <1>2, <1>3, CallMessages DEF FlowInv, WholeInv
<1>5. m.call = CallOf(t) /\ ~ Started(CallOf(t))
  <2>1. RequestOf(t).call = CallOf(t)
    BY DEF RequestOf, Request
  <2>2. ~ Started(CallOf(t))
    BY DEF call, Started, CallOf, Ahead, TypeInv, ThreadsOK
  <2> QED
    BY <1>3, <2>1, <2>2
<1>6. \A l \in Labels : l.call # m.call
  BY <1>5 DEF CallsInv
<1>7. /\ \A q \in Route, c \in Brokers : \A x \in OnWay(q, c) : x.call # m.call
      /\ \A c \in Brokers : \A x \in tasks[c] : x.request.call # m.call
      /\ \A c \in Brokers : \A x \in responses[c] : x.call # m.call
  BY <1>6, LabelsType
<1>8. /\ \A c \in Brokers : tasks'[c] \subseteq tasks[c] /\ responses'[c] \subseteq responses[c]
      /\ \A c \in Brokers : \A x \in tasks'[c] : x.request.call # m.call
  BY <1>4, <1>7
<1> QED
  BY <1>4, <1>7, <1>8, OneTokenWritten

LEMMA OneTokenNext ==
  ASSUME TypeInv, FlowInv, CallsInv, OneTokenInv, [BrokerNext]_brokerVars, TypeInv'
  PROVE  OneTokenInv'
<1>0. \A r \in Route, b \in Brokers : Coming(r, b) \in Seq(Message)
  BY FlowType
<1>1. ASSUME Untouched
      PROVE  OneTokenInv'
  <2>1. UNCHANGED <<wire, baos, tasks, responses>>
    BY <1>1 DEF Untouched
  <2>2. \A r \in Route, b \in Brokers : Coming(r, b)' = Coming(r, b)
    BY <2>1, FlowsStay
  <2> QED
    BY <1>0, <2>1, <2>2, LossKeepsOneToken
<1>2. ASSUME NEW t \in Threads, TakeResponse(t) \/ NoResponse(t)
      PROVE  OneTokenInv'
  <2>1. /\ UNCHANGED tasks
        /\ \A c \in Brokers : responses'[c] \subseteq responses[c]
        /\ \A q \in Route, c \in Brokers : Coming(q, c)' = Coming(q, c)
    BY <1>2, EndMessages
  <2> QED
    BY <1>0, <2>1, LossKeepsOneToken
<1>3. ASSUME RestartNameServer
      PROVE  OneTokenInv'
  <2>1. \A r \in Route, b \in Brokers :
          /\ Len(Coming(r, b)') <= Len(Coming(r, b))
          /\ \A i \in 1 .. Len(Coming(r, b)') : Coming(r, b)'[i] = Coming(r, b)[i]
    BY <1>3, RestartCuts
  <2>2. \A c \in Brokers : tasks'[c] \subseteq tasks[c] /\ responses'[c] \subseteq responses[c]
    BY <1>3, RestartMessages
  <2> QED
    BY <2>1, <2>2, LossKeepsOneToken
<1>4. ASSUME NEW t \in Threads, ThreadStep(t)
      PROVE  OneTokenInv'
  BY <1>1, <1>2, <1>4, UntouchedSteps, CallOneToken DEF ThreadStep
<1>5. ASSUME NEW b \in Brokers, ListenerStep(b) \/ PoolStep(b)
      PROVE  OneTokenInv'
  BY <1>1, <1>5, UntouchedSteps, VisitOneToken, InvokeOneToken, RespondOneToken
     DEF ListenerStep, PoolStep
<1> QED
  BY <1>1, <1>3, <1>4, <1>5, UntouchedSteps DEF BrokerNext

-----------------------------------------------------------------------------
(***************************************************************************)
(* A call is executed between its request and its response, and once.      *)
(***************************************************************************)
Done == ToSet(executed)

ExecutionInv ==
  /\ \A r \in Route, b \in Brokers : \A m \in OnWay(r, b) : m.call \in Done <=> m.type = "response"
  /\ \A b \in Brokers : \A task \in tasks[b] :
       task.request.call \in Done <=> task.answer # "none"
  /\ \A b \in Brokers : \A m \in responses[b] : m.call \in Done
  /\ IsInjective(executed)

LEMMA ExecutionInit == BrokerInit => ExecutionInv
<1> SUFFICES ASSUME BrokerInit
             PROVE  ExecutionInv
  OBVIOUS
<1>1. executed = <<>> /\ \A b \in Brokers : tasks[b] = {} /\ responses[b] = {}
  BY DEF BrokerInit
<1>2. IsInjective(executed)
  BY <1>1 DEF IsInjective
<1> QED
  BY <1>1, <1>2, EmptyInit DEF ExecutionInv

LEMMA LossKeepsExecution ==
  ASSUME ExecutionInv, UNCHANGED executed,
         \A r \in Route, b \in Brokers : OnWay(r, b)' \subseteq OnWay(r, b),
         \A b \in Brokers : tasks'[b] \subseteq tasks[b] /\ responses'[b] \subseteq responses[b]
  PROVE  ExecutionInv'
<1>1. Done' = Done /\ IsInjective(executed)' = IsInjective(executed)
  BY DEF Done, ToSet, IsInjective
<1> QED
  BY <1>1 DEF ExecutionInv

LEMMA CallExecution ==
  ASSUME TypeInv, FlowInv, CallsInv, ExecutionInv, NEW t \in Threads, call(t)
  PROVE  ExecutionInv'
<1>1. PICK callee \in Brokers : callee = Callee(t)
  BY BrokerAndThread
<1>2. PICK r : r = <<Home(t), callee>>
  OBVIOUS
<1>3. PICK m \in Message : m = RequestOf(t)
  BY RequestType DEF call, Message
<1>4. /\ \A q \in Route, c \in Brokers :
           \/ Coming(q, c)' = Coming(q, c)
           \/ Coming(q, c)' = Append(Coming(q, c), m)
      /\ UNCHANGED <<tasks, responses, executed>>
  BY <1>1, <1>2, <1>3, CallMessages DEF FlowInv, WholeInv
<1>5. m.call = CallOf(t) /\ m.type = "request" /\ ~ Started(CallOf(t))
  <2>1. RequestOf(t).call = CallOf(t) /\ RequestOf(t).type = "request"
    BY DEF RequestOf, Request
  <2>2. ~ Started(CallOf(t))
    BY DEF call, Started, CallOf, Ahead, TypeInv, ThreadsOK
  <2> QED
    BY <1>3, <2>1, <2>2
<1>6. m.call \notin Done
  BY <1>5 DEF CallsInv, Done
<1>7. \A q \in Route, c \in Brokers : OnWay(q, c)' \subseteq OnWay(q, c) \cup {m}
  BY <1>4, OnWayGrows
<1>8. Done' = Done /\ IsInjective(executed)' = IsInjective(executed)
  BY <1>4 DEF Done, ToSet, IsInjective
<1> QED
  BY <1>4, <1>5, <1>6, <1>7, <1>8 DEF ExecutionInv

LEMMA VisitExecution ==
  ASSUME TypeInv, ExecutionInv, NEW b \in Brokers, NEW r \in todo[b], Visit(b, r)
  PROVE  ExecutionInv'
<1>1. /\ r \in Route
      /\ \A q \in Route, c \in Brokers : OnWay(q, c)' \subseteq OnWay(q, c)
      /\ \A c \in Brokers : \A x \in tasks'[c] : x \in tasks[c] \/
           /\ c = b /\ x.answer = "none" /\ x.request \in OnWay(r, b) /\ x.request.type = "request"
      /\ \A c \in Brokers : \A m \in responses'[c] : m \in responses[c] \/
           /\ c = b /\ m \in OnWay(r, b) /\ m.type = "response"
      /\ UNCHANGED executed
  BY VisitMessages
<1>2. Done' = Done /\ IsInjective(executed)' = IsInjective(executed)
  BY <1>1 DEF Done, ToSet, IsInjective
<1>3. \A c \in Brokers : \A x \in tasks'[c] : x.request.call \in Done <=> x.answer # "none"
  BY <1>1 DEF ExecutionInv
<1>4. \A c \in Brokers : \A m \in responses'[c] : m.call \in Done
  BY <1>1 DEF ExecutionInv
<1> QED
  BY <1>1, <1>2, <1>3, <1>4 DEF ExecutionInv

LEMMA InvokeExecution ==
  ASSUME TypeInv, CallsInv, OneTokenInv, ExecutionInv,
         NEW b \in Brokers, NEW task \in tasks[b], Invoke(b, task)
  PROVE  /\ ExecutionInv' /\ Done' = Done \cup {task.request.call}
         /\ task.request.call \in Calls \ Done
<1>1. PICK done \in Task :
        /\ done.request = task.request /\ done.answer # "none"
        /\ tasks' = [tasks EXCEPT ![b] = (@ \ {task}) \cup {done}]
  BY InvokeMessages
<1>2. /\ \A q \in Route, c \in Brokers : OnWay(q, c)' = OnWay(q, c)
      /\ UNCHANGED responses
      /\ executed' = Append(executed, task.request.call)
      /\ task \in Task /\ task.answer = "none"
  BY InvokeMessages DEF OnWay, ToSet
<1>3. task.request.call \in Calls /\ executed \in Seq(Calls)
  BY <1>2 DEF Task, RequestMessage, CallsInv
<1>4. task.request.call \notin Done
  BY <1>2 DEF ExecutionInv
<1>5. Done' = Done \cup {task.request.call} /\ IsInjective(executed')
  BY <1>2, <1>3, <1>4, AppendedCalls DEF Done, ToSet, ExecutionInv
<1>6. IsInjective(executed)'
  BY <1>5 DEF IsInjective
<1>7. \A q \in Route, c \in Brokers : \A m \in OnWay(q, c) : m.call # task.request.call
  BY DEF OneTokenInv, KindsApart
<1>8. \A c \in Brokers : \A x \in tasks'[c] : x = done \/ (x \in tasks[c] /\ x.request.call # task.request.call)
  BY <1>1 DEF OneTokenInv, TasksApart, TypeInv, MessagesOK
<1>9. \A c \in Brokers : \A x \in tasks'[c] : x.request.call \in Done' <=> x.answer # "none"
  BY <1>1, <1>5, <1>8 DEF ExecutionInv
<1> QED
  BY <1>2, <1>3, <1>4, <1>5, <1>6, <1>7, <1>9 DEF ExecutionInv

LEMMA RespondExecution ==
  ASSUME TypeInv, FlowInv, ExecutionInv, NEW b \in Brokers, NEW task \in tasks[b], Respond(b, task)
  PROVE  ExecutionInv'
<1>1. PICK m \in ResponseMessage :
        /\ m.call = task.request.call
        /\ \A q \in Route, c \in Brokers :
             \/ Coming(q, c)' = Coming(q, c)
             \/ Coming(q, c)' = Append(Coming(q, c), m)
  BY RespondMessages DEF FlowInv, WholeInv
<1>2. /\ tasks' = [tasks EXCEPT ![b] = @ \ {task}] /\ task.answer # "none"
      /\ UNCHANGED <<responses, executed>>
  BY RespondMessages DEF FlowInv, WholeInv
<1>3. \A q \in Route, c \in Brokers : OnWay(q, c)' \subseteq OnWay(q, c) \cup {m}
  BY <1>1, OnWayGrows DEF Message
<1>4. m.call \in Done /\ m.type = "response"
  BY <1>1, <1>2 DEF ExecutionInv, ResponseMessage
<1>5. \A c \in Brokers : tasks'[c] \subseteq tasks[c]
  BY <1>2 DEF TypeInv, MessagesOK
<1>6. Done' = Done /\ IsInjective(executed)' = IsInjective(executed)
  BY <1>2 DEF Done, ToSet, IsInjective
<1> QED
  BY <1>2, <1>3, <1>4, <1>5, <1>6 DEF ExecutionInv

LEMMA ExecutionNext ==
  ASSUME TypeInv, FlowInv, CallsInv, OneTokenInv, ExecutionInv, [BrokerNext]_brokerVars
  PROVE  ExecutionInv'
<1>1. ASSUME Untouched
      PROVE  ExecutionInv'
  <2>1. UNCHANGED <<wire, baos, tasks, responses, executed>>
    BY <1>1 DEF Untouched
  <2>2. \A r \in Route, b \in Brokers : OnWay(r, b)' = OnWay(r, b)
    BY <2>1, FlowsStay DEF OnWay, ToSet
  <2> QED
    BY <2>1, <2>2, LossKeepsExecution
<1>2. ASSUME NEW t \in Threads, TakeResponse(t) \/ NoResponse(t)
      PROVE  ExecutionInv'
  <2>1. /\ UNCHANGED <<tasks, executed>>
        /\ \A c \in Brokers : responses'[c] \subseteq responses[c]
        /\ \A q \in Route, c \in Brokers : OnWay(q, c)' = OnWay(q, c)
    BY <1>2, EndMessages
  <2> QED
    BY <2>1, LossKeepsExecution
<1>3. ASSUME RestartNameServer
      PROVE  ExecutionInv'
  <2>1. /\ \A r \in Route, b \in Brokers : OnWay(r, b)' \subseteq OnWay(r, b)
        /\ \A c \in Brokers : tasks'[c] \subseteq tasks[c] /\ responses'[c] \subseteq responses[c]
        /\ UNCHANGED executed
    BY <1>3, RestartMessages
  <2> QED
    BY <2>1, LossKeepsExecution
<1>4. ASSUME NEW t \in Threads, ThreadStep(t)
      PROVE  ExecutionInv'
  BY <1>1, <1>2, <1>4, UntouchedSteps, CallExecution DEF ThreadStep
<1>5. ASSUME NEW b \in Brokers, ListenerStep(b) \/ PoolStep(b)
      PROVE  ExecutionInv'
  BY <1>1, <1>5, UntouchedSteps, VisitExecution, InvokeExecution, RespondExecution
     DEF ListenerStep, PoolStep
<1> QED
  BY <1>1, <1>3, <1>4, <1>5, UntouchedSteps DEF BrokerNext

(***************************************************************************)
(* Every step keeps what has been executed, and executes one call at most. *)
(***************************************************************************)
LEMMA DoneNext ==
  ASSUME TypeInv, FlowInv, CallsInv, OneTokenInv, ExecutionInv, [BrokerNext]_brokerVars
  PROVE  \/ Done' = Done
         \/ \E b \in Brokers : \E task \in tasks[b] :
              /\ Invoke(b, task) /\ Done' = Done \cup {task.request.call}
              /\ task.request.call \in Calls \ Done
<1>1. CASE UNCHANGED executed
  BY <1>1 DEF Done, ToSet
<1>2. CASE \E b \in Brokers : \E task \in tasks[b] : Invoke(b, task)
  BY <1>2, InvokeExecution
<1> QED
  BY <1>1, <1>2, ExecutedNext

-----------------------------------------------------------------------------
(***************************************************************************)
(* A request that was sent arrives, unless the name service is restarted.  *)
(***************************************************************************)
Arrives(c, from, callee) ==
  \/ c \in Done
  \/ \E task \in tasks[callee] : task.request.call = c
  \/ \E m \in OnWay(<<from, callee>>, callee) : m.call = c

Reachable(callee) == callee = CalcServer \/ restarts = 0

ArriveInv ==
  \A t \in Threads : Waiting(t) /\ Reachable(Callee(t)) => Arrives(CallOf(t), Home(t), Callee(t))

(* A step that is not a restart of the name service does not lose a request. *)
LEMMA CalleeSide ==
  ASSUME TypeInv, FlowInv, NEW from \in Brokers, NEW callee \in Brokers, from # callee
  PROVE  /\ <<from, callee>> \in Route
         /\ \A m \in OnWay(<<from, callee>>, callee) : m.type = "request"
<1>1. <<from, callee>> \in Route
  BY DEF Route
<1>2. \A m \in OnWay(<<from, callee>>, callee) : Directed(<<from, callee>>, callee, m)
  BY <1>1 DEF FlowInv, DirectedInv
<1> QED
  BY <1>1, <1>2 DEF Directed

LEMMA VisitKeepsRequests ==
  ASSUME TypeInv, FlowInv, TypeInv', NEW b \in Brokers, NEW r \in todo[b], Visit(b, r),
         NEW from \in Brokers, NEW callee \in Brokers, from # callee, NEW c,
         Arrives(c, from, callee)
  PROVE  Arrives(c, from, callee)'
<1>1. PICK k \in Nat, handled \in Seq(Message) : Takes(b, r, k, handled)
  BY VisitTakes
<1>2. \A d \in Brokers : tasks[d] \subseteq tasks'[d]
  BY <1>1 DEF Takes, TypeInv, MessagesOK
<1>3. Done' = Done
  BY VisitMessages DEF Done, ToSet
<1>4. CASE c \in Done \/ \E task \in tasks[callee] : task.request.call = c
  BY <1>2, <1>3, <1>4 DEF Arrives
<1>5. ASSUME NEW m \in OnWay(<<from, callee>>, callee), m.call = c
      PROVE  Arrives(c, from, callee)'
  <2> DEFINE q == <<from, callee>>
  <2>0. q \in Route /\ \A x \in OnWay(q, callee) : x.type = "request"
    BY CalleeSide
  <2>1. CASE ~ (q = r /\ callee = b)
    <3>1. Coming(q, callee)' = Coming(q, callee)
      BY <2>0, <2>1, VisitTakes, NextFlow DEF Coming
    <3>2. m \in OnWay(q, callee)'
      BY <1>5, <3>1 DEF OnWay, ToSet
    <3> QED
      BY <1>5, <3>2 DEF Arrives
  <2>2. CASE q = r /\ callee = b
    <3> DEFINE before == Coming(r, b)
               after == Coming(r, b)'
    <3>1. before \in Seq(Message) /\ after \in Seq(Message)
      BY <2>0, <2>2, FlowType, NextFlowType
    <3>2. /\ OnWay(r, b) = {before[i] : i \in 1 .. Len(before)}
          /\ OnWay(r, b)' = {after[i] : i \in 1 .. Len(after)}
      BY <3>1 DEF OnWay, ToSet
    <3>3. \A i \in DOMAIN Coming(r, b) : Coming(r, b)[i].type # "response"
      BY <2>0, <2>2 DEF OnWay, ToSet
    <3>4. /\ Len(handled) = k /\ k <= Len(before)
          /\ \A i \in 1 .. Len(handled) : handled[i] = before[i]
          /\ Len(after) = Len(before) - k
          /\ \A i \in 1 .. Len(after) : after[i] = before[i + k]
          /\ tasks' = [tasks EXCEPT ![b] = @ \cup
               {[route |-> r, request |-> x, answer |-> "none"] : x \in Requests(handled)}]
      BY <1>1, <3>3 DEF Takes
    <3> HIDE DEF before, after
    <3>5. PICK i \in 1 .. Len(before) : m = before[i]
      BY <1>5, <2>2, <3>2
    <3>6. CASE i <= k
      <4>1. handled[i] = m /\ i \in 1 .. Len(handled)
        BY <3>1, <3>4, <3>5, <3>6
      <4>2. m \in Requests(handled)
        BY <1>5, <2>0, <4>1 DEF Requests, ToSet
      <4>3. \E x \in tasks'[b] : x.request = m
        <5> DEFINE new == [route |-> r, request |-> m, answer |-> "none"]
        <5>1. new \in tasks'[b]
          BY <3>4, <4>2 DEF TypeInv, MessagesOK
        <5> QED
          BY <5>1
      <4> QED
        BY <1>5, <2>2, <4>3 DEF Arrives
    <3>7. CASE ~ (i <= k)
      <4>1. i - k \in 1 .. Len(after) /\ (i - k) + k = i
        BY <3>1, <3>4, <3>5, <3>7
      <4>2. after[i - k] = m
        BY <3>4, <3>5, <4>1
      <4>3. m \in OnWay(r, b)'
        BY <3>2, <4>1, <4>2
      <4> QED
        BY <1>5, <2>2, <4>3 DEF Arrives
    <3> QED
      BY <3>6, <3>7
  <2> QED
    BY <2>1, <2>2
<1> QED
  BY <1>4, <1>5 DEF Arrives

LEMMA GrowthKeepsRequests ==
  ASSUME TypeInv, NEW from \in Brokers, NEW callee \in Brokers, NEW c,
         Done \subseteq Done', tasks[callee] \subseteq tasks'[callee],
         LET r == <<from, callee>>
         IN  Coming(r, callee)' = Coming(r, callee)
               \/ \E m \in Message : Coming(r, callee)' = Append(Coming(r, callee), m),
         Arrives(c, from, callee)
  PROVE  Arrives(c, from, callee)'
<1> DEFINE r == <<from, callee>>
<1>1. r \in Route /\ Coming(r, callee) \in Seq(Message)
  BY FlowType DEF Route
<1>2. OnWay(r, callee) \subseteq OnWay(r, callee)'
  <2>1. CASE Coming(r, callee)' = Coming(r, callee)
    BY <2>1 DEF OnWay, ToSet
  <2>2. ASSUME NEW m \in Message, Coming(r, callee)' = Append(Coming(r, callee), m)
        PROVE  OnWay(r, callee) \subseteq OnWay(r, callee)'
    <3>1. PICK s \in Seq(Message) : s = Coming(r, callee)
      BY <1>1
    <3>2. ToSet(Append(s, m)) = ToSet(s) \cup {m}
      BY AppendedToSet
    <3>3. OnWay(r, callee)' = ToSet(Coming(r, callee)')
      BY DEF OnWay, ToSet
    <3> QED
      BY <2>2, <3>1, <3>2, <3>3 DEF OnWay
  <2> QED
    BY <2>1, <2>2
<1> QED
  BY <1>2 DEF Arrives

LEMMA StepKeepsRequests ==
  ASSUME TypeInv, FlowInv, CallsInv, OneTokenInv, ExecutionInv, TypeInv',
         [BrokerNext]_brokerVars, ~ RestartNameServer,
         NEW from \in Brokers, NEW callee \in Brokers, from # callee, NEW c,
         Arrives(c, from, callee)
  PROVE  Arrives(c, from, callee)'
<1> DEFINE r == <<from, callee>>
<1>0. r \in Route /\ Coming(r, callee) \in Seq(Message)
  BY FlowType DEF Route
<1>1. Done \subseteq Done'
  BY DoneNext
<1>2. ASSUME Untouched
      PROVE  Arrives(c, from, callee)'
  <2>1. UNCHANGED <<wire, baos, tasks>>
    BY <1>2 DEF Untouched
  <2>2. Coming(r, callee)' = Coming(r, callee)
    BY <1>0, <2>1, FlowsStay
  <2> QED
    BY <1>1, <2>1, <2>2, GrowthKeepsRequests
<1>3. ASSUME NEW t \in Threads, TakeResponse(t) \/ NoResponse(t)
      PROVE  Arrives(c, from, callee)'
  <2>1. UNCHANGED tasks /\ Coming(r, callee)' = Coming(r, callee)
    BY <1>0, <1>3, EndMessages
  <2> QED
    BY <1>1, <2>1, GrowthKeepsRequests
<1>4. ASSUME NEW t \in Threads, call(t)
      PROVE  Arrives(c, from, callee)'
  <2>1. PICK to \in Brokers : to = Callee(t)
    BY BrokerAndThread
  <2>2. PICK q : q = <<Home(t), to>>
    OBVIOUS
  <2>3. PICK m \in Message : m = RequestOf(t)
    BY <1>4, RequestType DEF call, Message
  <2>4. /\ Coming(r, callee)' = Coming(r, callee)
             \/ Coming(r, callee)' = Append(Coming(r, callee), m)
        /\ UNCHANGED tasks
    BY <1>0, <1>4, <2>1, <2>2, <2>3, CallMessages DEF FlowInv, WholeInv
  <2> QED
    BY <1>1, <2>4, GrowthKeepsRequests
<1>5. ASSUME NEW t \in Threads, ThreadStep(t)
      PROVE  Arrives(c, from, callee)'
  BY <1>2, <1>3, <1>4, <1>5, UntouchedSteps DEF ThreadStep
<1>6. ASSUME NEW b \in Brokers, ListenerStep(b)
      PROVE  Arrives(c, from, callee)'
  BY <1>2, <1>6, UntouchedSteps, VisitKeepsRequests DEF ListenerStep
<1>7. ASSUME NEW b \in Brokers, NEW task \in tasks[b], Invoke(b, task)
      PROVE  Arrives(c, from, callee)'
  <2>1. PICK done \in Task :
          /\ done.request = task.request
          /\ tasks' = [tasks EXCEPT ![b] = (@ \ {task}) \cup {done}]
    BY <1>7, InvokeMessages
  <2>2. OnWay(r, callee)' = OnWay(r, callee)
    BY <1>0, <1>7, InvokeMessages DEF OnWay, ToSet
  <2>3. \A x \in tasks[callee] : \E y \in tasks'[callee] : y.request.call = x.request.call
    BY <2>1 DEF TypeInv, MessagesOK
  <2> QED
    BY <1>1, <2>2, <2>3 DEF Arrives
<1>8. ASSUME NEW b \in Brokers, NEW task \in tasks[b], Respond(b, task)
      PROVE  Arrives(c, from, callee)'
  <2>1. PICK m \in ResponseMessage :
          Coming(r, callee)' = Coming(r, callee) \/ Coming(r, callee)' = Append(Coming(r, callee), m)
    BY <1>0, <1>8, RespondMessages DEF FlowInv, WholeInv
  <2>2. tasks' = [tasks EXCEPT ![b] = @ \ {task}] /\ task.answer # "none"
    BY <1>8, RespondMessages DEF FlowInv, WholeInv
  <2>3. task.request.call \in Done
    BY <2>2 DEF ExecutionInv
  <2>4. CASE c \in Done
    BY <1>1, <2>4 DEF Arrives
  <2>5. CASE c \notin Done
    <3>1. \A x \in tasks[callee] : x.request.call = c => x \in tasks'[callee]
      BY <2>2, <2>3, <2>5 DEF TypeInv, MessagesOK
    <3>2. OnWay(r, callee) \subseteq OnWay(r, callee)'
      <4>1. Coming(r, callee)' = Coming(r, callee) => OnWay(r, callee)' = OnWay(r, callee)
        BY DEF OnWay, ToSet
      <4>2. PICK s \in Seq(Message) : s = Coming(r, callee)
        BY <1>0
      <4>3. m \in Message
        BY DEF Message
      <4>4. ToSet(Append(s, m)) = ToSet(s) \cup {m}
        BY <4>3, AppendedToSet
      <4>5. OnWay(r, callee)' = ToSet(Coming(r, callee)')
        BY DEF OnWay, ToSet
      <4> QED
        BY <2>1, <4>1, <4>2, <4>4, <4>5 DEF OnWay
    <3> QED
      BY <2>5, <3>1, <3>2 DEF Arrives
  <2> QED
    BY <2>4, <2>5
<1>9. ASSUME registerLocal \/ UNCHANGED brokerVars
      PROVE  Arrives(c, from, callee)'
  BY <1>2, <1>9, UntouchedSteps
<1> QED
  BY <1>5, <1>6, <1>7, <1>8, <1>9 DEF BrokerNext, PoolStep

LEMMA RestartKeepsRequests ==
  ASSUME TypeInv, RestartNameServer, NEW from \in Brokers, from # NameServer, NEW c,
         Arrives(c, from, CalcServer)
  PROVE  Arrives(c, from, CalcServer)'
<1> DEFINE r == <<from, CalcServer>>
<1>1. r \in Route /\ NameServer \notin {r[1], r[2]} /\ CalcServer \in Brokers /\ CalcServer # NameServer
  BY BrokerAssumption, BrokerAndThread DEF Route
<1>2. Flow(r, CalcServer)' = Flow(r, CalcServer)
  BY <1>1, RestartCuts
<1>3. OnWay(r, CalcServer)' = OnWay(r, CalcServer)
  BY <1>2, NextFlow DEF OnWay, ToSet, Coming
<1>4. tasks'[CalcServer] = tasks[CalcServer] /\ Done' = Done
  BY <1>1, RestartMessages DEF Done, ToSet
<1> QED
  BY <1>3, <1>4 DEF Arrives

LEMMA CallArrives ==
  ASSUME TypeInv, FlowInv, NEW t \in Threads, call(t), Reachable(Callee(t))
  PROVE  Arrives(CallOf(t), Home(t), Callee(t))'
<1>1. PICK callee \in Brokers : callee = Callee(t)
  BY BrokerAndThread
<1>2. PICK r : r = <<Home(t), callee>>
  OBVIOUS
<1>3. PICK m \in Message : m = RequestOf(t)
  BY RequestType DEF call, Message
<1>4. r \in Route /\ r[1] # NameServer /\ r[2] = callee
  BY <1>1, <1>2, BrokerAndThread DEF Route
<1>5. r \notin dead
  <2>1. CASE callee = CalcServer
    BY <1>4, <2>1, BrokerAssumption DEF FlowInv, DeadInv
  <2>2. CASE restarts = 0
    BY <2>2 DEF FlowInv, DeadInv
  <2> QED
    BY <1>1, <2>1, <2>2 DEF Reachable
<1>6. Coming(r, callee)' = Append(Coming(r, callee), m)
  BY <1>1, <1>2, <1>3, <1>5, CallMessages DEF FlowInv, WholeInv
<1>7. m \in OnWay(r, callee)'
  <2>1. PICK s \in Seq(Message) : s = Coming(r, callee)
    BY <1>1, <1>4, FlowType
  <2>2. ToSet(Append(s, m)) = ToSet(s) \cup {m}
    BY AppendedToSet
  <2>3. OnWay(r, callee)' = ToSet(Coming(r, callee)')
    BY DEF OnWay, ToSet
  <2> QED
    BY <1>6, <2>1, <2>2, <2>3
<1>8. m.call = CallOf(t)
  BY <1>3 DEF RequestOf, Request
<1>9. Arrives(m.call, Home(t), callee)'
  BY <1>2, <1>7 DEF Arrives
<1>10. Callee(t)' = Callee(t) /\ CallOf(t)' = CallOf(t)
  BY DEF call, Callee, CallOf
<1> QED
  BY <1>1, <1>8, <1>9, <1>10 DEF Arrives

(* Whoever waits after a step has just called, or has waited for the same call before. *)
LEMMA WaitersNext ==
  ASSUME TypeInv, [BrokerNext]_brokerVars, NEW t \in Threads, Waiting(t)', ~ call(t)
  PROVE  Waiting(t) /\ made'[t] = made[t] /\ ref'[t] = ref[t]
<1>0. /\ made \in [Threads -> 0 .. MaxCalls] /\ ref \in [Threads -> BOOLEAN]
      /\ pc \in [Threads -> {"start", "rebind", "idle", "entering", "inside", "calling",
                             "waiting", "end"}]
  BY DEF TypeInv, ThreadsOK
<1>1. ASSUME NEW u \in Threads, ThreadStep(u)
      PROVE  Waiting(t) /\ made'[t] = made[t] /\ ref'[t] = ref[t]
  <2>1. CASE ReadMonitor(u) \/ EnterMonitor(u) \/ IncrementRequestID(u)
    BY <1>0, <2>1 DEF ReadMonitor, EnterMonitor, IncrementRequestID, Waiting
  <2>2. CASE call(u)
    BY <1>0, <2>2 DEF call, Waiting
  <2>3. CASE TakeResponse(u) \/ NoResponse(u)
    <3>1. PICK resolved : ref' = [ref EXCEPT ![u] = ref[u] \/ resolved]
      BY <2>3 DEF TakeResponse, NoResponse, EndCall
    <3>2. pc' = [pc EXCEPT ![u] = IF u = Main THEN "end" ELSE "idle"] /\ UNCHANGED made
      BY <2>3, EndMessages
    <3> QED
      BY <1>0, <3>1, <3>2 DEF Waiting
  <2> QED
    BY <1>1, <2>1, <2>2, <2>3 DEF ThreadStep
<1>2. ASSUME NEW b \in Brokers, ListenerStep(b) \/ PoolStep(b)
      PROVE  UNCHANGED <<pc, made, ref>>
  BY <1>2 DEF ListenerStep, PoolStep, AcceptAndIterate, IteratorFails, Visit, Invoke, Respond,
              callerVars
<1>3. ASSUME RestartNameServer \/ UNCHANGED brokerVars
      PROVE  UNCHANGED <<pc, made, ref>>
  BY <1>3 DEF RestartNameServer, brokerVars, callerVars
<1>4. ASSUME registerLocal
      PROVE  Waiting(t) /\ made'[t] = made[t] /\ ref'[t] = ref[t]
  BY <1>0, <1>4 DEF registerLocal, Waiting
<1> QED
  BY <1>1, <1>2, <1>3, <1>4 DEF BrokerNext, Waiting

LEMMA ArriveInit == BrokerInit => ArriveInv
BY DEF BrokerInit, ArriveInv, Waiting

LEMMA ArriveNext ==
  ASSUME TypeInv, FlowInv, CallsInv, OneTokenInv, ExecutionInv, ArriveInv,
         [BrokerNext]_brokerVars, TypeInv'
  PROVE  ArriveInv'
<1> SUFFICES ASSUME NEW t \in Threads, Waiting(t)', Reachable(Callee(t))'
             PROVE  Arrives(CallOf(t), Home(t), Callee(t))'
  BY DEF ArriveInv
<1>1. CASE call(t)
  <2>1. Reachable(Callee(t))
    BY <1>1 DEF call, Reachable, Callee
  <2> QED
    BY <1>1, <2>1, CallArrives
<1>2. CASE ~ call(t)
  <2>1. Waiting(t) /\ made'[t] = made[t] /\ ref'[t] = ref[t]
    BY <1>2, WaitersNext
  <2>0. PICK c : c = CallOf(t)
    OBVIOUS
  <2>2. PICK callee \in Brokers, from \in Brokers :
          /\ callee = Callee(t) /\ from = Home(t)
          /\ from # callee /\ from # NameServer
    BY BrokerAndThread
  <2>3. Callee(t)' = callee /\ CallOf(t)' = c
    BY <2>0, <2>1, <2>2 DEF Callee, CallOf
  <2>4. Arrives(c, from, callee)'
    <3>1. CASE ~ RestartNameServer
      <4>1. UNCHANGED restarts
        BY <3>1, UntouchedSteps, EndMessages, CallMessages
           DEF BrokerNext, ThreadStep, ListenerStep, PoolStep, call, Visit, Invoke, Respond, Untouched
      <4>2. Reachable(Callee(t))
        BY <2>2, <2>3, <4>1 DEF Reachable
      <4>3. Arrives(c, from, callee)
        BY <2>0, <2>1, <2>2, <4>2 DEF ArriveInv
      <4> QED
        BY <2>2, <3>1, <4>3, StepKeepsRequests
    <3>2. CASE RestartNameServer
      <4>1. restarts' # 0
        BY <3>2 DEF RestartNameServer, TypeInv, ServicesOK
      <4>2. callee = CalcServer
        BY <2>3, <4>1 DEF Reachable
      <4>3. Arrives(c, from, callee)
        BY <2>0, <2>1, <2>2, <4>2 DEF ArriveInv, Reachable
      <4> QED
        BY <2>2, <3>2, <4>2, <4>3, RestartKeepsRequests
    <3> QED
      BY <3>1, <3>2
  <2> QED
    BY <2>2, <2>3, <2>4 DEF Arrives
<1> QED
  BY <1>1, <1>2

LEMMA ArriveImplies == TypeInv /\ FlowInv /\ ArriveInv => RequestsArrive
<1> SUFFICES ASSUME TypeInv, FlowInv, ArriveInv,
                    NEW t \in Threads, Waiting(t), Callee(t) = CalcServer \/ restarts = 0
             PROVE  LET callee == Callee(t)
                        r == <<Home(t), callee>>
                        bytes == baos[r][callee] \o wire[r][callee]
                    IN  \/ CallOf(t) \in ToSet(executed)
                        \/ \E task \in tasks[callee] : task.request.call = CallOf(t)
                        \/ \E i \in 1 .. Len(bytes) - 1 : i % 2 = 1 /\ AtUnit(bytes, CallOf(t), i)
  BY DEF RequestsArrive
<1> DEFINE callee == Callee(t)
           r == <<Home(t), callee>>
           bytes == baos[r][callee] \o wire[r][callee]
<1>1. Arrives(CallOf(t), Home(t), callee)
  BY DEF ArriveInv, Reachable
<1>2. CASE ~ (\E m \in OnWay(r, callee) : m.call = CallOf(t))
  BY <1>1, <1>2 DEF Arrives, Done
<1>3. ASSUME NEW m \in OnWay(r, callee), m.call = CallOf(t)
      PROVE  \E i \in 1 .. Len(bytes) - 1 : i % 2 = 1 /\ AtUnit(bytes, CallOf(t), i)
  <2>1. r \in Route /\ callee \in Brokers /\ r[1] # NameServer /\ r[2] = callee
    BY BrokerAndThread DEF Route
  <2>2. r \notin dead
    BY <2>1, BrokerAssumption DEF FlowInv, DeadInv
  <2>3. Flow(r, callee) = bytes
    BY DEF Flow
  <2>4. bytes \in Seq(Unit) /\ Whole(bytes)
    BY <2>1, <2>2, <2>3, FlowType DEF FlowInv, WholeInv
  <2> DEFINE n == Len(bytes) \div 2
  <2>5. Coming(r, callee) = decode(bytes).messages
    BY <2>3 DEF Coming
  <2> HIDE DEF bytes, callee, r
  <2>6. /\ Len(decode(bytes).messages) = n /\ decode(bytes).messages \in Seq(Message)
        /\ \A i \in 1 .. n : decode(bytes).messages[i] = bytes[2 * i].m
    BY <2>4, DecodedMessages
  <2>7. PICK i \in 1 .. n : m = bytes[2 * i].m
    <3> DEFINE messages == decode(bytes).messages
    <3>1. messages \in Seq(Message) /\ Len(messages) = n
      BY <2>6
    <3>2. OnWay(r, callee) = ToSet(messages)
      BY <2>5 DEF OnWay
    <3> HIDE DEF messages, n
    <3>3. PICK i \in 1 .. n : m = messages[i]
      BY <1>3, <3>1, <3>2 DEF ToSet
    <3> QED
      BY <2>6, <3>3 DEF messages
  <2>8. /\ Len(bytes) = 2 * n /\ n \in Nat
        /\ bytes[2 * i - 1] = [m |-> bytes[2 * i].m, unit |-> 1] /\ bytes[2 * i].unit = 2
    BY <2>4 DEF Whole
  <2> HIDE DEF n
  <2> DEFINE j == 2 * i - 1
  <2>9. j \in 1 .. Len(bytes) - 1 /\ j % 2 = 1 /\ j + 1 = 2 * i
    <3>1. i \in Int /\ 1 <= i /\ i <= n
      BY <2>8
    <3>2. (2 * i - 1) % 2 = 1
      BY <3>1
    <3> QED
      BY <2>8, <3>1, <3>2
  <2>10. AtUnit(bytes, CallOf(t), j)
    BY <1>3, <2>7, <2>8, <2>9 DEF AtUnit
  <2> HIDE DEF j
  <2> QED
    BY <2>9, <2>10
<1> QED
  BY <1>2, <1>3

RunInv == TypeInv /\ FlowInv /\ CallsInv /\ OneTokenInv /\ ExecutionInv /\ ArriveInv

LEMMA RunInvNext == RunInv /\ [BrokerNext]_brokerVars => RunInv'
<1> SUFFICES ASSUME RunInv, [BrokerNext]_brokerVars
             PROVE  RunInv'
  OBVIOUS
<1>1. TypeInv'
  BY TypeInvNext DEF RunInv
<1> QED
  BY <1>1, FlowNext, CallsInvNext, OneTokenNext, ExecutionNext, ArriveNext DEF RunInv

LEMMA RunInvHolds == BrokerSpec => []RunInv
<1>1. BrokerInit => RunInv
  BY TypeInvInit, FlowInit, CallsInit, OneTokenInit, ExecutionInit, ArriveInit DEF RunInv
<1> QED
  BY <1>1, RunInvNext, PTL DEF BrokerSpec

\* A request that was written is executed, waits in the pool or is still complete on its connection,
\* for any number of threads, calls and restarts, and however reads cut its bytes: a listener
\* that ends leaves requests unread but loses none, and an answer the caller does not find was lost, if
\* at all, on its way back.
THEOREM RequestsDoArrive == BrokerSpec => []RequestsArrive
<1>1. RunInv => RequestsArrive
  BY ArriveImplies DEF RunInv
<1> QED
  BY <1>1, RunInvHolds, PTL

-----------------------------------------------------------------------------
(***************************************************************************)
(* The numbers of calls.  The monitor of getRequestID is the object the    *)
(* counter refers to, which the increment replaces, so that two threads of *)
(* one broker may be inside at once and get one number.  As long as that   *)
(* does not happen, a number belongs to one call.                          *)
(***************************************************************************)
NumbersApart ==
  \A t, u \in Threads : pc[t] = "inside" /\ pc[u] = "inside" /\ Home(t) = Home(u) => t = u

Numbered(t) == pc[t] \in {"calling", "waiting"}

LabelsNumbered ==
  /\ \A l \in Labels : l.requestID < requestID[Home(l.call[1])]
  /\ \A l, m \in Labels :
       Home(l.call[1]) = Home(m.call[1]) /\ l.requestID = m.requestID => l.call = m.call

ThreadsNumbered ==
  /\ \A t \in Threads : pc[t] = "inside" => key[t] = requestID[Home(t)]
  /\ \A t \in Threads : Numbered(t) => key[t] < requestID[Home(t)]
  /\ \A t, u \in Threads :
       Numbered(t) /\ Numbered(u) /\ Home(t) = Home(u) /\ key[t] = key[u] => t = u

NumbersMatch ==
  \A t \in Threads, l \in Labels :
    Numbered(t) /\ Home(l.call[1]) = Home(t) /\ l.requestID = key[t] => l.call = CallOf(t)

NumbersInv == LabelsNumbered /\ ThreadsNumbered /\ NumbersMatch

LEMMA NumbersInit == BrokerInit => NumbersInv
<1> SUFFICES ASSUME BrokerInit
             PROVE  NumbersInv
  OBVIOUS
<1>1. \A t \in Threads : pc[t] \in {"start", "idle"}
  BY DEF BrokerInit
<1> QED
  BY <1>1, EmptyInit DEF NumbersInv, LabelsNumbered, ThreadsNumbered, NumbersMatch, Numbered

LEMMA LabelFields ==
  ASSUME TypeInv, NEW l \in Labels
  PROVE  l.call \in Calls /\ l.requestID \in Nat /\ l.call[1] \in Threads /\ Home(l.call[1]) \in Brokers
<1>1. l.call \in Calls /\ l.requestID \in Nat
  BY LabelsType
<1> QED
  BY <1>1, CallsType, BrokerAndThread

(* The steps that neither number a call nor send it.                       *)
LEMMA NumbersStay ==
  ASSUME TypeInv, NumbersInv, Labels' \subseteq Labels,
         UNCHANGED <<requestID, key>>,
         \A t \in Threads : pc'[t] = "inside" => pc[t] = "inside",
         \A t \in Threads : Numbered(t)' => Numbered(t) /\ made'[t] = made[t]
  PROVE  NumbersInv'
<1>1. LabelsNumbered'
  BY DEF NumbersInv, LabelsNumbered
<1>2. ThreadsNumbered'
  BY DEF NumbersInv, ThreadsNumbered
<1>3. NumbersMatch'
  BY DEF NumbersInv, NumbersMatch, CallOf
<1> QED
  BY <1>1, <1>2, <1>3 DEF NumbersInv

LEMMA EnterNumbers ==
  ASSUME TypeInv, NumbersInv, Labels' \subseteq Labels, NEW t \in Threads, EnterMonitor(t)
  PROVE  NumbersInv'
<1>1. /\ pc[t] = "entering" /\ UNCHANGED <<requestID, made>>
      /\ \A u \in Threads : pc'[u] = IF u = t THEN "inside" ELSE pc[u]
      /\ \A u \in Threads : key'[u] = IF u = t THEN requestID[Home(t)] ELSE key[u]
  BY DEF EnterMonitor, TypeInv, ThreadsOK
<1>2. \A u \in Threads : Numbered(u)' <=> Numbered(u) /\ u # t
  BY <1>1 DEF Numbered
<1>3. LabelsNumbered'
  BY <1>1 DEF NumbersInv, LabelsNumbered
<1>4. ThreadsNumbered'
  BY <1>1, <1>2 DEF NumbersInv, ThreadsNumbered
<1>5. NumbersMatch'
  BY <1>1, <1>2 DEF NumbersInv, NumbersMatch, CallOf
<1> QED
  BY <1>3, <1>4, <1>5 DEF NumbersInv

LEMMA IncrementNumbers ==
  ASSUME TypeInv, NumbersInv, NumbersApart, Labels' \subseteq Labels,
         NEW t \in Threads, IncrementRequestID(t)
  PROVE  NumbersInv'
<1>0. Home(t) \in Brokers /\ \A u \in Threads : Home(u) \in Brokers /\ key[u] \in Nat
  BY BrokerAndThread DEF TypeInv, ThreadsOK
<1>1. /\ pc[t] = "inside" /\ UNCHANGED <<key, made>>
      /\ \A u \in Threads : pc'[u] = IF u = t THEN "calling" ELSE pc[u]
      /\ \A b \in Brokers : requestID'[b] = IF b = Home(t) THEN key[t] + 1 ELSE requestID[b]
      /\ \A b \in Brokers : requestID[b] \in Nat
  BY DEF IncrementRequestID, TypeInv, ThreadsOK
<1>2. key[t] = requestID[Home(t)]
  BY <1>1 DEF NumbersInv, ThreadsNumbered
<1>3. \A u \in Threads : Numbered(u)' <=> Numbered(u) \/ u = t
  BY <1>1 DEF Numbered
<1>4. LabelsNumbered'
  <2>1. \A l \in Labels : l.requestID \in Nat /\ Home(l.call[1]) \in Brokers
    BY LabelFields
  <2>2. \A l \in Labels : l.requestID < requestID'[Home(l.call[1])]
    BY <1>0, <1>1, <1>2, <2>1 DEF NumbersInv, LabelsNumbered
  <2> QED
    BY <2>2 DEF NumbersInv, LabelsNumbered
<1>5. ThreadsNumbered'
  <2>1. \A u \in Threads : pc'[u] = "inside" => Home(u) # Home(t)
    BY <1>1 DEF NumbersApart
  <2>2. \A u \in Threads : pc'[u] = "inside" => key'[u] = requestID'[Home(u)]
    BY <1>0, <1>1, <2>1 DEF NumbersInv, ThreadsNumbered
  <2>3. \A u \in Threads : Numbered(u)' => key'[u] < requestID'[Home(u)]
    BY <1>0, <1>1, <1>2, <1>3 DEF NumbersInv, ThreadsNumbered
  <2>4. \A u \in Threads : Numbered(u) /\ Home(u) = Home(t) => key[u] # key[t]
    BY <1>0, <1>2 DEF NumbersInv, ThreadsNumbered
  <2>5. \A u, v \in Threads :
          Numbered(u)' /\ Numbered(v)' /\ Home(u) = Home(v) /\ key'[u] = key'[v] => u = v
    BY <1>1, <1>3, <2>4 DEF NumbersInv, ThreadsNumbered
  <2> QED
    BY <2>2, <2>3, <2>5 DEF ThreadsNumbered
<1>6. NumbersMatch'
  <2> SUFFICES ASSUME NEW u \in Threads, NEW l \in Labels, Numbered(u)', Home(l.call[1]) = Home(u),
                      l.requestID = key'[u]
               PROVE  l.call = CallOf(u)'
    BY DEF NumbersMatch
  <2>1. CASE u = t
    <3>1. l.requestID < requestID[Home(t)] /\ l.requestID \in Nat
      BY <2>1, LabelFields DEF NumbersInv, LabelsNumbered
    <3> QED
      BY <1>0, <1>1, <1>2, <2>1, <3>1
  <2>2. CASE u # t
    BY <1>1, <1>3, <2>2 DEF NumbersInv, NumbersMatch, CallOf
  <2> QED
    BY <2>1, <2>2
<1> QED
  BY <1>4, <1>5, <1>6 DEF NumbersInv

LEMMA CallNumbers ==
  ASSUME TypeInv, NumbersInv, NEW t \in Threads, call(t),
         Labels' \subseteq Labels \cup {[call |-> CallOf(t), requestID |-> key[t]]}
  PROVE  NumbersInv'
<1>1. /\ pc[t] = "calling" /\ UNCHANGED <<requestID, key, made>>
      /\ \A u \in Threads : pc'[u] = IF u = t THEN "waiting" ELSE pc[u]
  BY DEF call, TypeInv, ThreadsOK
<1>2. Numbered(t) /\ \A u \in Threads : Numbered(u)' <=> Numbered(u)
  BY <1>1 DEF Numbered
<1> DEFINE new == [call |-> CallOf(t), requestID |-> key[t]]
<1>3. new.call = CallOf(t) /\ new.requestID = key[t] /\ new.call[1] = t
  BY DEF CallOf
<1> HIDE DEF new
<1>4. LabelsNumbered'
  <2>1. \A l \in Labels \cup {new} : l.requestID < requestID[Home(l.call[1])]
    BY <1>2, <1>3 DEF NumbersInv, LabelsNumbered, ThreadsNumbered
  <2>2. \A l \in Labels : Home(l.call[1]) = Home(t) /\ l.requestID = key[t] => l.call = CallOf(t)
    BY <1>2 DEF NumbersInv, NumbersMatch
  <2>3. \A l, m \in Labels \cup {new} :
          Home(l.call[1]) = Home(m.call[1]) /\ l.requestID = m.requestID => l.call = m.call
    BY <1>3, <2>2 DEF NumbersInv, LabelsNumbered
  <2>4. Labels' \subseteq Labels \cup {new}
    BY DEF new
  <2> QED
    BY <1>1, <2>1, <2>3, <2>4 DEF LabelsNumbered
<1>5. ThreadsNumbered'
  BY <1>1, <1>2 DEF NumbersInv, ThreadsNumbered
<1>6. NumbersMatch'
  <2>1. \A u \in Threads : Numbered(u) /\ Home(t) = Home(u) /\ key[t] = key[u] => CallOf(t) = CallOf(u)
    BY <1>2 DEF NumbersInv, ThreadsNumbered
  <2>2. \A u \in Threads, l \in Labels \cup {new} :
          Numbered(u) /\ Home(l.call[1]) = Home(u) /\ l.requestID = key[u] => l.call = CallOf(u)
    BY <1>3, <2>1 DEF NumbersInv, NumbersMatch
  <2>3. Labels' \subseteq Labels \cup {new} /\ \A u : CallOf(u)' = CallOf(u)
    BY <1>1 DEF new, CallOf
  <2> QED
    BY <1>1, <1>2, <2>2, <2>3 DEF NumbersMatch
<1> QED
  BY <1>4, <1>5, <1>6 DEF NumbersInv

LEMMA NumbersNext ==
  ASSUME TypeInv, FlowInv, NumbersInv, NumbersApart, [BrokerNext]_brokerVars
  PROVE  NumbersInv'
<1>0. /\ pc \in [Threads -> {"start", "rebind", "idle", "entering", "inside", "calling",
                             "waiting", "end"}]
      /\ made \in [Threads -> 0 .. MaxCalls]
  BY DEF TypeInv, ThreadsOK
<1>1. (\A t \in Threads : ~ call(t)) => Labels' \subseteq Labels
  BY LabelsNext
<1>2. ASSUME NEW t \in Threads, ThreadStep(t)
      PROVE  NumbersInv'
  <2>1. CASE ReadMonitor(t)
    <3>1. \A u \in Threads : ~ call(u)
      BY <1>0, <2>1 DEF ReadMonitor, call, netVars
    <3>2. UNCHANGED <<requestID, key>> /\ pc' = [pc EXCEPT ![t] = "entering"]
            /\ made' = [made EXCEPT ![t] = @ + 1]
      BY <2>1 DEF ReadMonitor
    <3> QED
      BY <1>0, <1>1, <3>1, <3>2, NumbersStay DEF Numbered
  <2>2. CASE EnterMonitor(t)
    <3>1. \A u \in Threads : ~ call(u)
      BY <1>0, <2>2 DEF EnterMonitor, call
    <3> QED
      BY <1>1, <2>2, <3>1, EnterNumbers
  <2>3. CASE IncrementRequestID(t)
    <3>1. \A u \in Threads : ~ call(u)
      BY <1>0, <2>3 DEF IncrementRequestID, call
    <3> QED
      BY <1>1, <2>3, <3>1, IncrementNumbers
  <2>4. CASE call(t)
    BY <2>4, CallLabels, CallNumbers
  <2>5. CASE TakeResponse(t) \/ NoResponse(t)
    <3>1. /\ UNCHANGED <<requestID, key, made>>
          /\ pc' = [pc EXCEPT ![t] = IF t = Main THEN "end" ELSE "idle"]
      BY <2>5, EndMessages
    <3>2. Labels' \subseteq Labels
      BY <2>5, EndMessages, LossKeepsLabels
    <3> QED
      BY <1>0, <3>1, <3>2, NumbersStay DEF Numbered
  <2> QED
    BY <1>2, <2>1, <2>2, <2>3, <2>4, <2>5 DEF ThreadStep
<1>3. ASSUME UNCHANGED <<pc, made, requestID, key>>
      PROVE  NumbersInv'
  <2>1. \A u \in Threads : ~ call(u)
    BY <1>0, <1>3 DEF call
  <2> QED
    BY <1>1, <1>3, <2>1, NumbersStay DEF Numbered
<1>4. ASSUME NEW b \in Brokers, ListenerStep(b) \/ PoolStep(b)
      PROVE  UNCHANGED <<pc, made, requestID, key>>
  BY <1>4 DEF ListenerStep, PoolStep, AcceptAndIterate, IteratorFails, Visit, Invoke, Respond,
              callerVars
<1>5. ASSUME RestartNameServer \/ UNCHANGED brokerVars
      PROVE  UNCHANGED <<pc, made, requestID, key>>
  BY <1>5 DEF RestartNameServer, brokerVars, callerVars
<1>6. CASE registerLocal
  <2>1. \A u \in Threads : ~ call(u)
    BY <1>0, <1>6 DEF registerLocal, call
  <2>2. UNCHANGED <<requestID, key, made>> /\ pc' = [pc EXCEPT ![Main] = "rebind"]
    BY <1>6 DEF registerLocal
  <2> QED
    BY <1>0, <1>1, <2>1, <2>2, NumbersStay DEF Numbered
<1> QED
  BY <1>2, <1>3, <1>4, <1>5, <1>6 DEF BrokerNext

(***************************************************************************)
(* An answer is taken by the call it belongs to, and nothing of an         *)
(* answered call is left anywhere.                                         *)
(***************************************************************************)
TakenInv ==
  /\ \A c \in Calls : result[c].end = "answer" => result[c].call = c
  /\ \A l \in Labels : result[l.call].end # "answer"

LEMMA TakenInit == BrokerInit => TakenInv
BY EmptyInit DEF TakenInv, BrokerInit

LEMMA TakenFits ==
  ASSUME TypeInv, FlowInv, OneTokenInv, NumbersInv, NEW t \in Threads, TakeResponse(t)
  PROVE  \E m \in responses[Home(t)] :
           /\ m.call = CallOf(t) /\ m.value \in Answers
           /\ EndCall(t, "answer", CallOf(t), m.value = "address")
           /\ \A l \in Labels' : l \in Labels /\ l.call # CallOf(t)
<1>1. PICK m \in responses[Home(t)] :
        /\ pc[t] = "waiting" /\ m.requestID = key[t]
        /\ responses' = [responses EXCEPT ![Home(t)] = @ \ {m}]
        /\ EndCall(t, "answer", m.call, m.value = "address")
  BY DEF TakeResponse
<1>2. m.call = CallOf(t)
  <2> DEFINE l == [call |-> m.call, requestID |-> m.requestID]
  <2>1. l \in Labels /\ Home(t) = Home(m.call[1])
    BY BrokerAndThread, LabelsType DEF FlowInv, DirectedInv
  <2>2. l.call = m.call /\ l.requestID = key[t] /\ Home(l.call[1]) = Home(t)
    BY <1>1, <2>1
  <2> HIDE DEF l
  <2> QED
    BY <1>1, <2>1, <2>2 DEF NumbersInv, NumbersMatch, Numbered
<1>3. Labels' \subseteq Labels
  BY EndMessages, LossKeepsLabels
<1>4. ASSUME NEW l \in Labels'
      PROVE  l.call # CallOf(t)
  <2>1. PICK x \in Message : InTransit(x)' /\ l = [call |-> x.call, requestID |-> x.requestID]
    BY DEF Labels
  <2>2. /\ \A q \in Route, c \in Brokers : OnWay(q, c)' = OnWay(q, c)
        /\ UNCHANGED tasks
        /\ \A c \in Brokers : responses'[c] \subseteq responses[c]
    BY EndMessages
  <2>3. CASE \E q \in Route, c \in Brokers : x \in OnWay(q, c)
    BY <1>2, <2>1, <2>3, BrokerAndThread DEF OneTokenInv, KindsApart
  <2>4. CASE \E c \in Brokers : \E task \in tasks[c] : x = task.request
    BY <1>2, <2>1, <2>4, BrokerAndThread DEF OneTokenInv, KindsApart
  <2>5. ASSUME NEW c \in Brokers, x \in responses'[c]
        PROVE  x.call # CallOf(t)
    <3>1. x \in responses[c] /\ c = Home(x.call[1])
      BY <2>2, <2>5 DEF FlowInv, DirectedInv
    <3>2. CASE c = Home(t)
      <4>1. x # m
        BY <1>1, <2>5, <3>2, BrokerAndThread DEF TypeInv, MessagesOK
      <4> QED
        BY <1>2, <3>1, <4>1, BrokerAndThread DEF OneTokenInv, ResponsesApart
    <3>3. CASE c # Home(t)
      BY <3>1, <3>3 DEF CallOf
    <3> QED
      BY <3>2, <3>3
  <2> QED
    BY <2>1, <2>2, <2>3, <2>4, <2>5 DEF InTransit
<1>5. m.value \in Answers
  BY BrokerAndThread DEF TypeInv, MessagesOK, ResponseMessage
<1> QED
  BY <1>1, <1>2, <1>3, <1>4, <1>5

LEMMA TakenNext ==
  ASSUME TypeInv, FlowInv, CallsInv, OneTokenInv, NumbersInv, TakenInv, [BrokerNext]_brokerVars
  PROVE  TakenInv'
<1>0. result \in [Calls -> [end : {"none", "answer", "NoResponse"}, call : Calls]]
  BY DEF TypeInv, ThreadsOK
<1>1. ASSUME UNCHANGED result, Labels' \subseteq Labels
      PROVE  TakenInv'
  BY <1>1 DEF TakenInv
<1>2. ASSUME NEW t \in Threads, call(t)
      PROVE  TakenInv'
  <2>1. UNCHANGED result /\ CallOf(t) \in Calls
    BY <1>2, CallOfType DEF call, TypeInv
  <2>2. result[CallOf(t)].end = "none"
    <3>1. ~ Ended(CallOf(t))
      BY <1>2 DEF call, Ended, CallOf, Ahead, TypeInv, ThreadsOK
    <3> QED
      BY <2>1, <3>1 DEF CallsInv
  <2>3. Labels' \subseteq Labels \cup {[call |-> CallOf(t), requestID |-> key[t]]}
    BY <1>2, CallLabels
  <2> QED
    BY <2>1, <2>2, <2>3 DEF TakenInv
<1>3. ASSUME NEW t \in Threads, TakeResponse(t)
      PROVE  TakenInv'
  <2>1. /\ result' = [result EXCEPT ![CallOf(t)] = [end |-> "answer", call |-> CallOf(t)]]
        /\ \A l \in Labels' : l \in Labels /\ l.call # CallOf(t)
    BY <1>3, TakenFits DEF EndCall
  <2>2. \A l \in Labels : l.call \in Calls
    BY LabelFields
  <2>3. \A c \in Calls : result'[c] =
          IF c = CallOf(t) THEN [end |-> "answer", call |-> CallOf(t)] ELSE result[c]
    BY <1>0, <2>1
  <2> QED
    BY <2>1, <2>2, <2>3 DEF TakenInv
<1>4. ASSUME NEW t \in Threads, NoResponse(t)
      PROVE  TakenInv'
  <2>1. result' = [result EXCEPT ![CallOf(t)] = [end |-> "NoResponse", call |-> CallOf(t)]]
    BY <1>4 DEF NoResponse, EndCall
  <2>2. \A l \in Labels : l.call \in Calls
    BY LabelFields
  <2>3. \A c \in Calls : result'[c] =
          IF c = CallOf(t) THEN [end |-> "NoResponse", call |-> CallOf(t)] ELSE result[c]
    BY <1>0, <2>1
  <2>4. Labels' \subseteq Labels
    BY <1>4, EndMessages, LossKeepsLabels
  <2> QED
    BY <2>2, <2>3, <2>4 DEF TakenInv
<1>5. CASE UNCHANGED result /\ ~ (\E t \in Threads : call(t))
  BY <1>1, <1>5, LabelsNext
<1> QED
  BY <1>2, <1>3, <1>4, <1>5, CallsNext

-----------------------------------------------------------------------------
(***************************************************************************)
(* The broker is RemoteCall.                                               *)
(***************************************************************************)
LEMMA StateOfCall ==
  ASSUME TypeInv, CallsInv, NEW c \in Calls
  PROVE  /\ result[c].end = "NoResponse" => CallState(c) = "givenUp"
         /\ result[c].end = "answer" => CallState(c) = IF result[c].call = c THEN "answered" ELSE "wrong"
         /\ result[c].end = "none" => CallState(c) = IF Started(c) THEN "open" ELSE "new"
         /\ Started(c) <=> CallState(c) # "new"
<1>0. c[1] \in Threads /\ c[2] \in 1 .. MaxCalls /\ MaxCalls \in Nat
  BY CallsType, BrokerAssumption
<1>1. /\ result[c].end \in {"none", "answer", "NoResponse"}
      /\ result[c].end # "none" <=> Ended(c)
      /\ made[c[1]] \in Nat /\ c[2] \in Nat
      /\ pc[c[1]] \in {"start", "rebind", "idle", "entering", "inside", "calling", "waiting", "end"}
  <2>1. result[c].end \in {"none", "answer", "NoResponse"}
    BY DEF TypeInv, ThreadsOK
  <2>2. result[c].end # "none" <=> Ended(c)
    BY DEF CallsInv
  <2>3. made[c[1]] \in 0 .. MaxCalls
    BY <1>0 DEF TypeInv, ThreadsOK
  <2>4. pc[c[1]] \in {"start", "rebind", "idle", "entering", "inside", "calling", "waiting", "end"}
    BY <1>0 DEF TypeInv, ThreadsOK
  <2> QED
    BY <1>0, <2>1, <2>2, <2>3, <2>4
<1>2. ~ Ended(c) => (made[c[1]] = c[2] /\ pc[c[1]] = "waiting" <=> Started(c))
  BY <1>1 DEF Started, Ended, Ahead
<1>3. Ended(c) => Started(c)
  BY DEF Started, Ended
<1>4. result[c].end = "none" => CallState(c) = IF Started(c) THEN "open" ELSE "new"
  BY <1>1, <1>2 DEF CallState
<1>5. result[c].end = "NoResponse" => CallState(c) = "givenUp"
  BY DEF CallState
<1>6. result[c].end = "answer" => CallState(c) = IF result[c].call = c THEN "answered" ELSE "wrong"
  BY DEF CallState
<1> QED
  BY <1>1, <1>3, <1>4, <1>5, <1>6

(* A call without a result changes its state only when it starts.          *)
LEMMA NextStateOfCall ==
  ASSUME TypeInv', CallsInv', NEW c \in Calls
  PROVE  /\ result'[c].end = "NoResponse" => CallState(c)' = "givenUp"
         /\ result'[c].end = "answer" =>
              CallState(c)' = IF result'[c].call = c THEN "answered" ELSE "wrong"
         /\ result'[c].end = "none" => CallState(c)' = IF Started(c)' THEN "open" ELSE "new"
<1>0. c[1] \in Threads /\ c[2] \in 1 .. MaxCalls /\ MaxCalls \in Nat
  BY CallsType, BrokerAssumption
<1>1. /\ result'[c].end \in {"none", "answer", "NoResponse"}
      /\ result'[c].end # "none" <=> Ended(c)'
      /\ made'[c[1]] \in Nat /\ c[2] \in Nat
      /\ pc'[c[1]] \in {"start", "rebind", "idle", "entering", "inside", "calling", "waiting", "end"}
  <2>1. result'[c].end \in {"none", "answer", "NoResponse"}
    BY DEF TypeInv, ThreadsOK
  <2>2. result'[c].end # "none" <=> Ended(c)'
    BY DEF CallsInv
  <2>3. made'[c[1]] \in 0 .. MaxCalls
    BY <1>0 DEF TypeInv, ThreadsOK
  <2>4. pc'[c[1]] \in {"start", "rebind", "idle", "entering", "inside", "calling", "waiting", "end"}
    BY <1>0 DEF TypeInv, ThreadsOK
  <2> QED
    BY <1>0, <2>1, <2>2, <2>3, <2>4
<1>2. ~ Ended(c)' => (made'[c[1]] = c[2] /\ pc'[c[1]] = "waiting" <=> Started(c)')
  BY <1>1 DEF Started, Ended, Ahead
<1>3. result'[c].end = "none" => CallState(c)' = IF Started(c)' THEN "open" ELSE "new"
  BY <1>1, <1>2 DEF CallState
<1>4. result'[c].end = "NoResponse" => CallState(c)' = "givenUp"
  BY DEF CallState
<1>5. result'[c].end = "answer" =>
        CallState(c)' = IF result'[c].call = c THEN "answered" ELSE "wrong"
  BY DEF CallState
<1> QED
  BY <1>3, <1>4, <1>5

LEMMA OncePerCall ==
  \A s \in Seq(Calls) : IsInjective(s) =>
    {c \in Calls : Cardinality({i \in DOMAIN s : s[i] = c}) = 1} = ToSet(s)
<1> SUFFICES ASSUME NEW s \in Seq(Calls), IsInjective(s)
             PROVE  {c \in Calls : Cardinality({i \in DOMAIN s : s[i] = c}) = 1} = ToSet(s)
  OBVIOUS
<1>1. ToSet(s) \subseteq Calls
  BY DEF ToSet
<1>2. ASSUME NEW c \in Calls, c \in ToSet(s)
      PROVE  Cardinality({i \in DOMAIN s : s[i] = c}) = 1
  <2>1. PICK i \in DOMAIN s : s[i] = c
    BY <1>2 DEF ToSet
  <2>2. {j \in DOMAIN s : s[j] = c} = {i}
    BY <2>1 DEF IsInjective
  <2> QED
    BY <2>2, FS_Singleton
<1>3. ASSUME NEW c \in Calls, c \notin ToSet(s)
      PROVE  Cardinality({i \in DOMAIN s : s[i] = c}) # 1
  <2>1. {j \in DOMAIN s : s[j] = c} = {}
    BY <1>3 DEF ToSet
  <2> QED
    BY <2>1, FS_EmptySet
<1> QED
  BY <1>1, <1>2, <1>3

LEMMA ExecutedIsDone ==
  ASSUME CallsInv, ExecutionInv
  PROVE  ExecutedOnce = Done
BY OncePerCall DEF CallsInv, ExecutionInv, ExecutedOnce, Done

LEMMA NextExecutedIsDone ==
  ASSUME CallsInv', ExecutionInv'
  PROVE  ExecutedOnce' = Done'
<1>1. executed' \in Seq(Calls) /\ IsInjective(executed')
  BY DEF CallsInv, ExecutionInv, IsInjective
<1>2. Done' = ToSet(executed')
  BY DEF Done, ToSet
<1> QED
  BY <1>1, <1>2, OncePerCall DEF ExecutedOnce

Abstract == <<[c \in Calls |-> CallState(c)], ExecutedOnce>>

LEMMA RemoteInitially == BrokerInit => Remote!RemoteInit
<1> SUFFICES ASSUME BrokerInit
             PROVE  Remote!RemoteInit
  OBVIOUS
<1>1. TypeInv /\ CallsInv /\ ExecutionInv
  BY TypeInvInit, CallsInit, ExecutionInit
<1>2. \A c \in Calls : CallState(c) = "new"
  <2> TAKE c \in Calls
  <2>1. result[c].end = "none" /\ ~ Started(c)
    <3>1. c[1] \in Threads /\ c[2] \in Nat /\ c[2] > 0
      BY CallsType, BrokerAssumption
    <3> QED
      BY <3>1 DEF BrokerInit, Started
  <2> QED
    BY <1>1, <2>1, StateOfCall
<1>3. ExecutedOnce = {}
  BY <1>1, ExecutedIsDone DEF BrokerInit, Done, ToSet
<1> QED
  BY <1>2, <1>3 DEF Remote!RemoteInit

LEMMA RemoteStep ==
  ASSUME RunInv, RunInv', NumbersInv, TakenInv, TakenInv', [BrokerNext]_brokerVars
  PROVE  Remote!RemoteNext \/ UNCHANGED Abstract
<1> DEFINE state == [c \in Calls |-> CallState(c)]
           newState == [c \in Calls |-> CallState(c)']
<1>0. TypeInv /\ FlowInv /\ CallsInv /\ OneTokenInv /\ ExecutionInv /\ TypeInv' /\ CallsInv' /\ ExecutionInv'
  BY DEF RunInv
<1>1. ExecutedOnce = Done /\ ExecutedOnce' = Done'
  BY <1>0, ExecutedIsDone, NextExecutedIsDone
<1>2. state' = newState
  OBVIOUS
<1>3. \A c \in Calls : c \in Done => Started(c)
  BY <1>0 DEF CallsInv, Done
<1>4. ASSUME NEW c \in Calls, result'[c] = result[c], Started(c)' <=> Started(c)
      PROVE  CallState(c)' = CallState(c)
  <2>1. result[c].end \in {"none", "answer", "NoResponse"}
    BY <1>0 DEF TypeInv, ThreadsOK
  <2> QED
    BY <1>0, <1>4, <2>1, StateOfCall, NextStateOfCall
<1>5. CASE UNCHANGED result /\ \A c \in Calls : (Started(c)' <=> Started(c))
  <2>1. newState = state
    BY <1>4, <1>5
  <2>2. CASE Done' = Done
    BY <1>1, <1>2, <2>1, <2>2 DEF Abstract
  <2>3. ASSUME NEW b \in Brokers, NEW task \in tasks[b],
               Done' = Done \cup {task.request.call}, task.request.call \in Calls \ Done
        PROVE  Remote!RemoteNext
    <3>1. PICK c \in Calls : c = task.request.call
      BY <2>3
    <3>2. Started(c)
      <4>1. [call |-> task.request.call, requestID |-> task.request.requestID] \in Labels
        BY <1>0, LabelsType
      <4> QED
        BY <1>0, <3>1, <4>1 DEF CallsInv
    <3>3. state[c] # "new"
      BY <1>0, <3>2, StateOfCall
    <3>4. Remote!Execute(c)
      BY <1>1, <1>2, <2>1, <2>3, <3>1, <3>3 DEF Remote!Execute
    <3> QED
      BY <3>4 DEF Remote!RemoteNext
  <2> QED
    BY <1>0, <2>2, <2>3, DoneNext
<1>6. ASSUME NEW t \in Threads, call(t), UNCHANGED result, CallOf(t) \in Calls, ~ Started(CallOf(t)),
             \A c \in Calls : Started(c)' <=> Started(c) \/ c = CallOf(t)
      PROVE  Remote!RemoteNext
  <2>1. PICK c \in Calls : c = CallOf(t)
    BY <1>6
  <2>2. Done' = Done
    BY <1>6 DEF call, Done, ToSet
  <2>3. state[c] = "new" /\ CallState(c)' = "open"
    <3>1. result[c].end = "none"
      BY <1>0, <1>6, <2>1 DEF CallsInv, Started, Ended
    <3> QED
      BY <1>0, <1>6, <2>1, <3>1, StateOfCall, NextStateOfCall
  <2>4. \A d \in Calls : d # c => CallState(d)' = CallState(d)
    BY <1>4, <1>6, <2>1
  <2>5. newState = [state EXCEPT ![c] = "open"]
    BY <2>3, <2>4
  <2>6. Remote!Open(c)
    BY <1>1, <1>2, <2>2, <2>3, <2>5 DEF Remote!Open, Remote!Move
  <2> QED
    BY <2>6 DEF Remote!RemoteNext
<1>7. ASSUME NEW t \in Threads, TakeResponse(t) \/ NoResponse(t), CallOf(t) \in Calls,
             Started(CallOf(t)), ~ Ended(CallOf(t)),
             \A c \in Calls : Started(c)' <=> Started(c)
      PROVE  Remote!RemoteNext
  <2>1. PICK c \in Calls : c = CallOf(t)
    BY <1>7
  <2>2. Done' = Done
    BY <1>0, <1>7, EndMessages DEF Done, ToSet
  <2>3. state[c] = "open"
    BY <1>0, <1>7, <2>1, StateOfCall DEF CallsInv
  <2>4. result \in [Calls -> [end : {"none", "answer", "NoResponse"}, call : Calls]]
    BY <1>0 DEF TypeInv, ThreadsOK
  <2>5. CASE TakeResponse(t)
    <3>1. PICK m \in responses[Home(t)] :
            m.call = CallOf(t) /\ EndCall(t, "answer", CallOf(t), m.value = "address")
      BY <1>0, <2>5, TakenFits
    <3>2. result' = [result EXCEPT ![c] = [end |-> "answer", call |-> c]]
      BY <2>1, <3>1 DEF EndCall
    <3>3. c \in Done
      BY <1>0, <2>1, <3>1, BrokerAndThread DEF ExecutionInv
    <3>4. result'[c].end = "answer" /\ result'[c].call = c
            /\ \A d \in Calls : d # c => result'[d] = result[d]
      BY <2>4, <3>2
    <3>5. newState = [state EXCEPT ![c] = "answered"]
      BY <1>0, <1>4, <1>7, <3>4, NextStateOfCall
    <3>6. Remote!Answer(c)
      BY <1>1, <1>2, <2>2, <2>3, <3>3, <3>5 DEF Remote!Answer, Remote!Move
    <3> QED
      BY <3>6 DEF Remote!RemoteNext
  <2>6. CASE NoResponse(t)
    <3>1. result' = [result EXCEPT ![c] = [end |-> "NoResponse", call |-> c]]
      BY <2>1, <2>6 DEF NoResponse, EndCall
    <3>2. result'[c].end = "NoResponse" /\ \A d \in Calls : d # c => result'[d] = result[d]
      BY <2>4, <3>1
    <3>3. newState = [state EXCEPT ![c] = "givenUp"]
      BY <1>0, <1>4, <1>7, <3>2, NextStateOfCall
    <3>4. Remote!GiveUp(c)
      BY <1>1, <1>2, <2>2, <2>3, <3>3 DEF Remote!GiveUp, Remote!Move
    <3> QED
      BY <3>4 DEF Remote!RemoteNext
  <2> QED
    BY <1>7, <2>5, <2>6
<1> QED
  BY <1>0, <1>5, <1>6, <1>7, CallsNext

LEMMA UntakenImplies ==
  ASSUME RunInv, TakenInv
  PROVE  OnlyUntakenResponses
<1> SUFFICES ASSUME NEW b \in Brokers, NEW m \in responses[b]
             PROVE  CallState(m.call) \in {"open", "givenUp"}
  BY DEF OnlyUntakenResponses
<1> DEFINE l == [call |-> m.call, requestID |-> m.requestID]
<1>0. TypeInv /\ CallsInv
  BY DEF RunInv
<1>1. l \in Labels /\ l.call = m.call
  BY <1>0, LabelsType
<1> HIDE DEF l
<1>2. m.call \in Calls /\ Started(m.call) /\ result[m.call].end # "answer"
  BY <1>0, <1>1, LabelFields DEF CallsInv, TakenInv
<1>3. result[m.call].end \in {"none", "answer", "NoResponse"}
  BY <1>0, <1>2 DEF TypeInv, ThreadsOK
<1> QED
  BY <1>0, <1>2, <1>3, StateOfCall

LEMMA NumbersHold == BrokerSpec /\ []NumbersApart => [](NumbersInv /\ TakenInv)
<1>1. BrokerInit => NumbersInv /\ TakenInv
  BY NumbersInit, TakenInit
<1>2. RunInv /\ NumbersApart /\ NumbersInv /\ TakenInv /\ [BrokerNext]_brokerVars
        => (NumbersInv /\ TakenInv)'
  BY NumbersNext, TakenNext DEF RunInv
<1> QED
  BY <1>1, <1>2, RunInvHolds, PTL DEF BrokerSpec

\* As long as getRequestID keeps the threads of a broker apart, the object broker is RemoteCall: cut
\* messages, late answers, dead listeners and restarts of the name service never make a method run
\* twice for a call or give a call the answer of another one.
THEOREM BrokerIsRemoteCall == BrokerSpec /\ []NumbersApart => ImplementsRemoteCall
<1>1. RunInv /\ RunInv' /\ NumbersInv /\ TakenInv /\ TakenInv' /\ [BrokerNext]_brokerVars
        => [Remote!RemoteNext]_(Remote!remoteVars)
  BY RemoteStep DEF Abstract, Remote!remoteVars
<1> QED
  BY <1>1, RemoteInitially, RunInvHolds, NumbersHold, PTL
     DEF BrokerSpec, ImplementsRemoteCall, Remote!RemoteSpec

\* Under the same condition the maps hold responses only for calls that wait or have given up.
THEOREM MapsHoldUntaken == BrokerSpec /\ []NumbersApart => []OnlyUntakenResponses
<1>1. RunInv /\ TakenInv => OnlyUntakenResponses
  BY UntakenImplies
<1> QED
  BY <1>1, RunInvHolds, NumbersHold, PTL

\* Under the same condition every caller gets its own answer; what is wrong with AnswersAreRight is
\* the monitor of getRequestID and nothing else.
THEOREM AnswersAreOwn == BrokerSpec /\ []NumbersApart => []AnswersAreRight
<1>1. TakenInv => AnswersAreRight
  BY DEF TakenInv, AnswersAreRight
<1> QED
  BY <1>1, NumbersHold, PTL

(***************************************************************************)
(* A client whose calls come from one thread is never inside twice.        *)
(***************************************************************************)
OneCaller == \A t, u \in ClientThreads : t = u

LEMMA OneCallerApart == OneCaller => NumbersApart
<1>1. \A t, u \in Threads : OneCaller /\ Home(t) = Home(u) => t = u
  BY BrokerAssumption DEF OneCaller, Threads, Home
<1> QED
  BY <1>1 DEF NumbersApart

\* A client with one calling thread needs no condition: its broker is RemoteCall.
THEOREM OneCallerIsRemoteCall ==
  ASSUME OneCaller
  PROVE  BrokerSpec => ImplementsRemoteCall
<1>1. NumbersApart
  BY OneCallerApart
<1> QED
  BY <1>1, BrokerIsRemoteCall, PTL

\* The maps of a client with one calling thread hold nothing for a call that has its answer.
THEOREM OneCallerMapsUntaken ==
  ASSUME OneCaller
  PROVE  BrokerSpec => []OnlyUntakenResponses
<1>1. NumbersApart
  BY OneCallerApart
<1> QED
  BY <1>1, MapsHoldUntaken, PTL
=============================================================================
