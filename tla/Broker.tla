------------------------------- MODULE Broker -------------------------------
(***************************************************************************)
(* The object broker of Termin 4: SpezialObjectBroker, Kommunikationsmodul *)
(* and Decoder, in the three programs that use it: the name service, the   *)
(* server of the calculators and a client whose threads share one broker.  *)
(*                                                                         *)
(* Every broker listens with one thread (Kommunikationsmodul.run), which   *)
(* accepts connections and visits its sockets one after the other, calls   *)
(* with the threads of the application, and serves each request with a     *)
(* thread of a pool.  A message is two units long on the wire, so that it  *)
(* may arrive in two reads.                                                *)
(***************************************************************************)
EXTENDS Integers, Sequences, FiniteSets, SequencesExt

CONSTANTS
  NameServer, CalcServer, Client,   \* the three brokers
  Main,                             \* the main thread of the calculators' server
  ClientThreads,                    \* the threads of the client that call
  MaxCalls,                         \* bound: calls of a thread
  MaxRestarts,                      \* bound: restarts of the name service
  Outcomes                          \* how a calculator's method may end

ASSUME BrokerAssumption ==
  /\ NameServer # CalcServer /\ NameServer # Client /\ CalcServer # Client
  /\ Main \notin ClientThreads
  /\ MaxCalls \in Nat \ {0} /\ MaxRestarts \in Nat
  /\ Outcomes \subseteq {"value", "exception", "mute", "foreign"}

Brokers == {NameServer, CalcServer, Client}
Threads == ClientThreads \cup {Main}
Home(t) == IF t = Main THEN CalcServer ELSE Client
Calls == Threads \X (1 .. MaxCalls)         \* the k-th call of a thread
Route == Brokers \X Brokers                 \* a connection: who opened it, to whom

VARIABLES
  \* SpezialObjectBroker
  requestID,    \* the counter of each broker, whose value is also its monitor
  responses,    \* the map of each broker: the responses not yet taken
  registered,   \* registeredObjects: the names each broker serves
  tasks,        \* the CallTasks each broker's pool has not finished
  \* the threads that call
  pc, made,     \* where each thread is, and its calls so far
  monitor, key, \* the monitor it has read, and the number it has got
  ref,          \* whether it has resolved the name
  result,       \* what each call has come to
  \* Kommunikationsmodul and Decoder
  sockets,      \* the connections in each broker's map
  backlog,      \* connections not yet accepted
  listener,     \* the thread run: "polling", "iterating" or "dead"
  todo,         \* what its iterator has still to visit
  modified,     \* whether the map has changed since the iterator was made
  wire,         \* the units on their way on each connection, to each side
  baos,         \* the units read that are not yet a message
  \* the name service
  services,     \* the names it knows
  restarts,     \* how often it has been started again
  dead,         \* connections whose other side has gone
  \* history
  executed      \* the calls whose method was invoked, in this order

callerVars == <<pc, made, monitor, key, ref, result>>
netVars == <<sockets, backlog, listener, todo, modified, wire, baos, dead>>
brokerVars == <<requestID, responses, registered, tasks, callerVars, netVars,
                services, restarts, executed>>

Other(r, b) == IF r[1] = b THEN r[2] ELSE r[1]
CallOf(t) == <<t, made[t]>>
Waiting(t) == pc[t] = "waiting"

BrokerInit ==
  /\ requestID = [b \in Brokers |-> 0]
  /\ responses = [b \in Brokers |-> {}]
  /\ registered = [b \in Brokers |-> IF b = NameServer THEN {"ns"} ELSE {}]
  /\ tasks = [b \in Brokers |-> {}]
  /\ pc = [t \in Threads |-> IF t = Main THEN "start" ELSE "idle"]
  /\ made = [t \in Threads |-> 0]
  /\ monitor = [t \in Threads |-> 0]
  /\ key = [t \in Threads |-> 0]
  /\ ref = [t \in Threads |-> FALSE]
  /\ result = [c \in Calls |-> [end |-> "none", call |-> c]]
  /\ sockets = [b \in Brokers |-> {}]
  /\ backlog = [b \in Brokers |-> {}]
  /\ listener = [b \in Brokers |-> "polling"]
  /\ todo = [b \in Brokers |-> {}]
  /\ modified = [b \in Brokers |-> FALSE]
  /\ wire = [r \in Route |-> [b \in Brokers |-> <<>>]]
  /\ baos = [r \in Route |-> [b \in Brokers |-> <<>>]]
  /\ services = {}
  /\ restarts = 0
  /\ dead = {}
  /\ executed = <<>>

-----------------------------------------------------------------------------
(***************************************************************************)
(* Messages.  A request carries its number, the object and the method; a   *)
(* response its number and the value.  call names the call a message       *)
(* belongs to, which the program does not transmit.                        *)
(***************************************************************************)
Request(id, c, obj, methode) ==
  [type |-> "request", requestID |-> id, call |-> c, obj |-> obj, methode |-> methode]
Response(id, c, value) ==
  [type |-> "response", requestID |-> id, call |-> c, value |-> value]

request2Bytes(m) == <<[m |-> m, unit |-> 1], [m |-> m, unit |-> 2]>>

(***************************************************************************)
(* decode takes the messages that are complete from what has been read and *)
(* leaves the rest for the next read.                                      *)
(***************************************************************************)
decodeDropsRest(bytes) ==   \* mutant: the rest is not written back
  [messages |-> [i \in 1 .. Len(bytes) \div 2 |-> bytes[2 * i].m], rest |-> <<>>]

decode(bytes) ==
  LET complete == Len(bytes) \div 2
  IN  [messages |-> [i \in 1 .. complete |-> bytes[2 * i].m],
       rest |-> SubSeq(bytes, 2 * complete + 1, Len(bytes))]

-----------------------------------------------------------------------------
(***************************************************************************)
(* getRequestID: the monitor is the object the counter refers to now; by   *)
(* the time a thread has it, the counter may refer to another.             *)
(***************************************************************************)
ReadMonitor(t) ==
  /\ \/ pc[t] = "idle" /\ made[t] < MaxCalls
     \/ pc[t] = "rebind"
  /\ pc' = [pc EXCEPT ![t] = "entering"]
  /\ made' = [made EXCEPT ![t] = @ + 1]
  /\ monitor' = [monitor EXCEPT ![t] = requestID[Home(t)]]
  /\ UNCHANGED <<requestID, responses, registered, tasks, key, ref, result, netVars,
                 services, restarts, executed>>

EnterMonitor(t) ==
  /\ pc[t] = "entering"
  /\ \A u \in Threads : ~ (pc[u] = "inside" /\ Home(u) = Home(t) /\ monitor[u] = monitor[t])
  /\ pc' = [pc EXCEPT ![t] = "inside"]
  /\ key' = [key EXCEPT ![t] = requestID[Home(t)]]
  /\ UNCHANGED <<requestID, responses, registered, tasks, made, monitor, ref, result, netVars,
                 services, restarts, executed>>

IncrementRequestID(t) ==
  /\ pc[t] = "inside"
  /\ pc' = [pc EXCEPT ![t] = "calling"]
  /\ requestID' = [requestID EXCEPT ![Home(t)] = key[t] + 1]
  /\ UNCHANGED <<responses, registered, tasks, made, monitor, key, ref, result, netVars,
                 services, restarts, executed>>

(***************************************************************************)
(* Kommunikationsmodul.call: opens a connection unless the map has one to  *)
(* this address, and writes the request.  A connection whose other side is *)
(* gone is not closed here: it stays in the map and what is written to it  *)
(* is lost, with at most a stack trace on the screen.                      *)
(***************************************************************************)
Callee(t) == IF t = Main \/ ~ ref[t] THEN NameServer ELSE CalcServer

RequestOf(t) ==
  IF Callee(t) = CalcServer THEN Request(key[t], CallOf(t), "calc", "add")
  ELSE Request(key[t], CallOf(t), "ns", IF t = Main THEN "rebind" ELSE "getService")

call(t) ==
  LET here == Home(t)
      r == <<here, Callee(t)>>
      new == r \notin sockets[here]
  IN  /\ pc[t] = "calling"
      /\ pc' = [pc EXCEPT ![t] = "waiting"]
      /\ sockets' = [sockets EXCEPT ![here] = @ \cup {r}]
      /\ modified' = [modified EXCEPT ![here] = @ \/ new]
      /\ backlog' = IF new THEN [backlog EXCEPT ![Callee(t)] = @ \cup {r}] ELSE backlog
      /\ wire' = IF r \in dead THEN wire
                 ELSE [wire EXCEPT ![r][Callee(t)] = @ \o request2Bytes(RequestOf(t))]
      /\ UNCHANGED <<requestID, responses, registered, tasks, made, monitor, key, ref, result,
                     listener, todo, baos, dead, services, restarts, executed>>

(***************************************************************************)
(* syncCall ends: with the response under its number, which getResponse    *)
(* removes, or with a NoResponseException once the time is over and there  *)
(* is no response.  The proxy throws an exception it gets as a value.  A   *)
(* client that got the address goes on with the calculator's methods.      *)
(***************************************************************************)
EndCall(t, end, of, resolved) ==
  /\ result' = [result EXCEPT ![CallOf(t)] = [end |-> end, call |-> of]]
  /\ ref' = [ref EXCEPT ![t] = @ \/ resolved]
  /\ pc' = [pc EXCEPT ![t] = IF t = Main THEN "end" ELSE "idle"]
  /\ UNCHANGED <<requestID, registered, tasks, made, monitor, key, netVars, services, restarts,
                 executed>>

keepResponse(t) ==   \* mutant: the response stays in the map
  \E r \in responses[Home(t)] :
    /\ pc[t] = "waiting"
    /\ r.requestID = key[t]
    /\ UNCHANGED responses
    /\ EndCall(t, "answer", r.call, r.value = "address")

TakeResponse(t) ==
  \E r \in responses[Home(t)] :
    /\ pc[t] = "waiting"
    /\ r.requestID = key[t]
    /\ responses' = [responses EXCEPT ![Home(t)] = @ \ {r}]
    /\ EndCall(t, "answer", r.call, r.value = "address")

waitForEver(t) == FALSE   \* mutant: no timeout

NoResponse(t) ==
  /\ pc[t] = "waiting"
  /\ \A r \in responses[Home(t)] : r.requestID # key[t]
  /\ UNCHANGED responses
  /\ EndCall(t, "NoResponse", CallOf(t), FALSE)

-----------------------------------------------------------------------------
(***************************************************************************)
(* Kommunikationsmodul.run.  One round: accept a connection if one is      *)
(* there, then visit the sockets of the map.  call puts its new connection *)
(* under the lock of the map, but run iterates without it: the next step   *)
(* of an iterator older than the change throws, and the thread ends.       *)
(***************************************************************************)
acceptAgain(b) ==   \* mutant: an accepted connection stays in the backlog
  /\ listener[b] = "polling"
  /\ \E accepted \in IF backlog[b] = {} THEN {{}} ELSE {{r} : r \in backlog[b]} :
       /\ sockets' = [sockets EXCEPT ![b] = @ \cup accepted]
       /\ sockets'[b] # {}
       /\ todo' = [todo EXCEPT ![b] = sockets'[b]]
  /\ modified' = [modified EXCEPT ![b] = FALSE]
  /\ listener' = [listener EXCEPT ![b] = "iterating"]
  /\ UNCHANGED <<requestID, responses, registered, tasks, callerVars, backlog, wire, baos, dead,
                 services, restarts, executed>>

AcceptAndIterate(b) ==
  /\ listener[b] = "polling"
  /\ \E accepted \in IF backlog[b] = {} THEN {{}} ELSE {{r} : r \in backlog[b]} :
       /\ backlog' = [backlog EXCEPT ![b] = @ \ accepted]
       /\ sockets' = [sockets EXCEPT ![b] = @ \cup accepted]
       /\ sockets'[b] # {}
       /\ todo' = [todo EXCEPT ![b] = sockets'[b]]
  /\ modified' = [modified EXCEPT ![b] = FALSE]
  /\ listener' = [listener EXCEPT ![b] = "iterating"]
  /\ UNCHANGED <<requestID, responses, registered, tasks, callerVars, wire, baos, dead,
                 services, restarts, executed>>

IteratorFails(b) ==
  /\ listener[b] = "iterating"
  /\ modified[b]
  /\ listener' = [listener EXCEPT ![b] = "dead"]
  /\ todo' = [todo EXCEPT ![b] = {}]
  /\ UNCHANGED <<requestID, responses, registered, tasks, callerVars, sockets, backlog,
                 modified, wire, baos, dead, services, restarts, executed>>

(***************************************************************************)
(* SpezialObjectBroker.call and response for the messages decoded: a       *)
(* request becomes a task of the pool, a response replaces what the map    *)
(* has under its number.  A response whose exception this side cannot make *)
(* ("foreign") ends the thread; what came before it has been handled.      *)
(***************************************************************************)
Handled(messages) ==
  LET bad == {i \in DOMAIN messages :
                messages[i].type = "response" /\ messages[i].value = "foreign"}
  IN  IF bad = {} THEN messages
      ELSE SubSeq(messages, 1, Min(bad) - 1)

Requests(messages) == {m \in ToSet(messages) : m.type = "request"}

PutResponses(map, messages) ==
  LET answers == {i \in DOMAIN messages : messages[i].type = "response"}
      latest == {i \in answers : \A j \in answers :
                   j > i => messages[j].requestID # messages[i].requestID}
  IN  {r \in map : \A i \in answers : messages[i].requestID # r.requestID}
        \cup {messages[i] : i \in latest}

Visit(b, r) ==
  /\ listener[b] = "iterating"
  /\ ~ modified[b]
  /\ r \in todo[b]
  /\ \E n \in IF wire[r][b] = <<>> THEN {0} ELSE 1 .. Len(wire[r][b]) :
       LET decoded == decode(baos[r][b] \o SubSeq(wire[r][b], 1, n))
           handled == Handled(decoded.messages)
       IN  /\ wire' = [wire EXCEPT ![r][b] = SubSeq(@, n + 1, Len(@))]
           /\ baos' = [baos EXCEPT ![r][b] = decoded.rest]
           /\ tasks' = [tasks EXCEPT ![b] = @ \cup
                 {[route |-> r, request |-> m, answer |-> "none"] : m \in Requests(handled)}]
           /\ responses' = [responses EXCEPT ![b] = PutResponses(@, handled)]
           /\ todo' = [todo EXCEPT ![b] = @ \ {r}]
           /\ listener' = [listener EXCEPT ![b] =
                 IF handled # decoded.messages THEN "dead"
                 ELSE IF todo'[b] = {} THEN "polling" ELSE "iterating"]
  /\ UNCHANGED <<requestID, registered, callerVars, sockets, backlog, modified, dead,
                 services, restarts, executed>>

-----------------------------------------------------------------------------
(***************************************************************************)
(* CallTask.run: the method is invoked, then the answer is written.  An    *)
(* object that is not registered gives an exception.  The name service     *)
(* knows names; a calculator's method ends as Outcomes says.               *)
(***************************************************************************)
MethodEnds(b, m) ==
  IF m.obj \notin registered[b] THEN {"exception"}
  ELSE IF m.methode = "getService" THEN {IF "calc" \in services THEN "address" ELSE "exception"}
  ELSE IF m.methode = "rebind" THEN {"value"}
  ELSE Outcomes

Invoke(b, task) ==
  /\ task \in tasks[b]
  /\ task.answer = "none"
  /\ \E outcome \in MethodEnds(b, task.request) :
       tasks' = [tasks EXCEPT ![b] = (@ \ {task}) \cup {[task EXCEPT !.answer = outcome]}]
  /\ services' = IF task.request.methode = "rebind" THEN services \cup {"calc"} ELSE services
  /\ executed' = Append(executed, task.request.call)
  /\ UNCHANGED <<requestID, responses, registered, callerVars, netVars, restarts>>

(***************************************************************************)
(* The answer goes back on the connection the request came from.  toByteArray *)
(* has no bytes for a value of another type ("mute"): response2Bytes       *)
(* throws, the task ends and nothing is sent.                              *)
(***************************************************************************)
answerFirst(b, task) ==   \* mutant: the number is that of another request
  /\ task \in tasks[b]
  /\ task.answer # "none"
  /\ tasks' = [tasks EXCEPT ![b] = @ \ {task}]
  /\ wire' = IF task.answer = "mute" \/ task.route \in dead THEN wire
             ELSE [wire EXCEPT ![task.route][Other(task.route, b)] = @ \o
                     request2Bytes(Response(1, task.request.call, task.answer))]
  /\ UNCHANGED <<requestID, responses, registered, callerVars, sockets, backlog, listener, todo,
                 modified, baos, dead, services, restarts, executed>>

Respond(b, task) ==
  /\ task \in tasks[b]
  /\ task.answer # "none"
  /\ tasks' = [tasks EXCEPT ![b] = @ \ {task}]
  /\ wire' = IF task.answer = "mute" \/ task.route \in dead THEN wire
             ELSE [wire EXCEPT ![task.route][Other(task.route, b)] = @ \o
                     request2Bytes(Response(task.request.requestID, task.request.call,
                                            task.answer))]
  /\ UNCHANGED <<requestID, responses, registered, callerVars, sockets, backlog, listener, todo,
                 modified, baos, dead, services, restarts, executed>>

(***************************************************************************)
(* SimpleNameService.rebind: the object is registered here first, then the *)
(* name service is called.                                                 *)
(***************************************************************************)
announceFirst ==   \* mutant: the call comes first
  \/ /\ pc[Main] = "start"
     /\ pc' = [pc EXCEPT ![Main] = "rebind"]
     /\ UNCHANGED registered
     /\ UNCHANGED <<requestID, responses, tasks, made, monitor, key, ref, result, netVars,
                    services, restarts, executed>>
  \/ /\ pc[Main] = "end"
     /\ "calc" \notin registered[CalcServer]
     /\ registered' = [registered EXCEPT ![CalcServer] = @ \cup {"calc"}]
     /\ UNCHANGED <<requestID, responses, tasks, callerVars, netVars, services, restarts,
                    executed>>

registerLocal ==
  /\ pc[Main] = "start"
  /\ pc' = [pc EXCEPT ![Main] = "rebind"]
  /\ registered' = [registered EXCEPT ![CalcServer] = @ \cup {"calc"}]
  /\ UNCHANGED <<requestID, responses, tasks, made, monitor, key, ref, result, netVars,
                 services, restarts, executed>>

(***************************************************************************)
(* The name service is killed and started again at its address: a new      *)
(* process with empty maps.  Its old connections are gone, and the other   *)
(* side is not told before it writes.                                      *)
(***************************************************************************)
RestartNameServer ==
  LET old == {r \in Route : NameServer \in {r[1], r[2]}}
  IN  /\ restarts < MaxRestarts
      /\ restarts' = restarts + 1
      /\ services' = {}
      /\ tasks' = [tasks EXCEPT ![NameServer] = {}]
      /\ sockets' = [sockets EXCEPT ![NameServer] = {}]
      /\ backlog' = [backlog EXCEPT ![NameServer] = {}]
      /\ listener' = [listener EXCEPT ![NameServer] = "polling"]
      /\ todo' = [todo EXCEPT ![NameServer] = {}]
      /\ modified' = [modified EXCEPT ![NameServer] = FALSE]
      /\ dead' = dead \cup {r \in old : r \in sockets[r[1]]}
      /\ wire' = [r \in Route |-> IF r \in old THEN [b \in Brokers |-> <<>>] ELSE wire[r]]
      /\ baos' = [baos EXCEPT ![<<CalcServer, NameServer>>][NameServer] = <<>>,
                              ![<<Client, NameServer>>][NameServer] = <<>>]
      /\ UNCHANGED <<requestID, responses, registered, callerVars, executed>>

-----------------------------------------------------------------------------
ThreadStep(t) ==
  ReadMonitor(t) \/ EnterMonitor(t) \/ IncrementRequestID(t) \/ call(t)
    \/ TakeResponse(t) \/ NoResponse(t)

ListenerStep(b) == AcceptAndIterate(b) \/ IteratorFails(b) \/ \E r \in todo[b] : Visit(b, r)

PoolStep(b) == \E task \in tasks[b] : Invoke(b, task) \/ Respond(b, task)

BrokerNext ==
  \/ \E t \in Threads : ThreadStep(t)
  \/ \E b \in Brokers : ListenerStep(b) \/ PoolStep(b)
  \/ registerLocal
  \/ RestartNameServer

BrokerSpec == BrokerInit /\ [][BrokerNext]_brokerVars

(***************************************************************************)
(* A calling thread that can run does, and its wait ends with its time.    *)
(* Nothing is assumed of the listeners, the pools and the name service.    *)
(***************************************************************************)
BrokerFairness == \A t \in ClientThreads : WF_brokerVars(ThreadStep(t))

FairBrokerSpec == BrokerSpec /\ BrokerFairness

-----------------------------------------------------------------------------
(***************************************************************************)
(* Properties.                                                             *)
(***************************************************************************)

\* The state has its types.
BrokerTypeOK ==
  /\ requestID \in [Brokers -> Nat]
  /\ \A b \in Brokers : \A r \in responses[b] : r.requestID \in Nat /\ r.call \in Calls
  /\ registered \in [Brokers -> SUBSET {"ns", "calc"}]
  /\ \A b \in Brokers : \A task \in tasks[b] : b \in {task.route[1], task.route[2]}
  /\ pc \in [Threads -> {"start", "rebind", "idle", "entering", "inside", "calling", "waiting",
                         "end"}]
  /\ made \in [Threads -> 0 .. MaxCalls]
  /\ monitor \in [Threads -> Nat] /\ key \in [Threads -> Nat] /\ ref \in [Threads -> BOOLEAN]
  /\ result \in [Calls -> [end : {"none", "answer", "NoResponse"}, call : Calls]]
  /\ \A b \in Brokers : todo[b] \subseteq sockets[b] /\ backlog[b] \cap sockets[b] = {}
  /\ listener \in [Brokers -> {"polling", "iterating", "dead"}]
  /\ services \subseteq {"calc"} /\ restarts \in 0 .. MaxRestarts

\* Whatever a caller gets as its answer was returned by the method it called, for this call.
AnswersAreRight == \A c \in Calls : result[c].end = "answer" => result[c].call = c

\* As long as no two calls of a broker share a number, the broker is RemoteCall: messages cut in
\* two, late answers, a restart of the name service or a listener that has ended never make a method
\* run twice for a call, or give a call the answer of another one.
CallState(c) ==
  CASE result[c].end = "NoResponse" -> "givenUp"
    [] result[c].end = "answer" -> IF result[c].call = c THEN "answered" ELSE "wrong"
    [] result[c].end = "none" ->
         IF made[c[1]] = c[2] /\ pc[c[1]] = "waiting" THEN "open" ELSE "new"

ExecutedOnce == {c \in Calls : Cardinality({i \in DOMAIN executed : executed[i] = c}) = 1}

Remote == INSTANCE RemoteCall WITH
  state <- [c \in Calls |-> CallState(c)], executions <- ExecutedOnce
ImplementsRemoteCall == Remote!RemoteSpec

\* A name that can be resolved is served: rebind announces an object after it is registered, so no
\* call of a resolved name meets a broker that does not know the object, even if calls overtake.
ResolvedIsServed ==
  /\ services \subseteq registered[CalcServer]
  /\ \A task \in tasks[CalcServer] : task.request.obj \in registered[CalcServer]

\* The map of responses holds nothing for a call that has taken its answer: what is left there
\* belongs to a call that still waits or has given up.
OnlyUntakenResponses ==
  \A b \in Brokers : \A r \in responses[b] : CallState(r.call) \in {"open", "givenUp"}

\* A request is executed, or waits in the pool, or is still completely there for the callee to read,
\* however its bytes are cut into reads and whatever has ended the callee's listener: only a
\* restart of the name service loses requests.
AtUnit(bytes, c, i) == /\ bytes[i].m.call = c /\ bytes[i].unit = 1
                       /\ bytes[i + 1].m.call = c /\ bytes[i + 1].unit = 2

RequestsArrive ==
  \A t \in {u \in Threads : Waiting(u) /\ (Callee(u) = CalcServer \/ restarts = 0)} :
    LET callee == Callee(t)
        r == <<Home(t), callee>>
        bytes == baos[r][callee] \o wire[r][callee]
    IN  \/ CallOf(t) \in ToSet(executed)
        \/ \E task \in tasks[callee] : task.request.call = CallOf(t)
        \/ \E i \in 1 .. Len(bytes) - 1 : i % 2 = 1 /\ AtUnit(bytes, CallOf(t), i)

\* Every call of a client ends, even if the listener is dead, the answer cannot be encoded or the
\* other side has gone: nobody waits longer than the timeout.
CallsEnd == \A t \in ClientThreads : pc[t] = "entering" ~> pc[t] \in {"idle", "end"}
=============================================================================
