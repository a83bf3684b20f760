---------------------------- MODULE KafkaPortal ----------------------------
(***************************************************************************)
(* The Kafka portal: between a Kafka client's TCP inlet and a broker's TCP *)
(* outlet stand two pairs of workers, one on the client's node and one on  *)
(* the outlet node.  Each pair has a worker for requests and one for       *)
(* responses; they share an interceptor, which remembers by correlation id *)
(* what each request asked (`request_map`), and a flag saying that one of  *)
(* them has seen the Disconnect.                                           *)
(*                                                                         *)
(* All the connections of a node share the controller that opens one inlet *)
(* (on the client's node) or one outlet (on the outlet node) for each      *)
(* broker a response names, and the table of topic ids.                    *)
(***************************************************************************)
EXTENDS Integers, Sequences, FiniteSets

CONSTANTS Conns,        \* connections of Kafka clients to the bootstrap inlet
          Brokers,      \* broker ids
          Apis,         \* the API keys the clients use
          MaxRequests,  \* bound: requests of a connection
          Start, End,   \* the port range of the inlets
          PortModulus,  \* 2^16 in the code: `current_port` is a u16
          Refusals,     \* bound: creations the node manager may refuse
          LinkFails     \* TRUE when the link between the nodes may go away

VARIABLES
  wire,        \* the six legs of each connection, FIFO
  requestMap,  \* what each pair remembers: correlation id -> API key
  todo,        \* brokers of a response its worker has still to look up
  pc,          \* "run", "stopping" (the other one first) or "gone"
  flag,        \* disconnect_received of each pair
  inlets,      \* broker_map of KafkaInletController: port, or 0
  currentPort, \* its current_port
  outlets,     \* broker_map of KafkaOutletController
  topicKnown,  \* uuid_to_name has the topic
  forwarder,   \* a forwarder was started for the topic
  told,        \* addresses the clients have been told: <<api, broker, port>>
  asked,       \* requests sent so far, by connection
  refused,     \* creations refused so far
  cut          \* the link of the connection is gone

shared == <<inlets, currentPort, outlets, topicKnown, forwarder, refused>>
vars == <<wire, requestMap, todo, pc, flag, shared, told, asked, cut>>

\* The legs: client - requests (client node) - requests (outlet node) - broker,
\* broker - responses (outlet node) - responses (client node) - client.
Legs == 1..6
Workers == {"inReq", "outReq", "outRes", "inRes"}
Leg(w) == CASE w = "inReq" -> 1 [] w = "outReq" -> 2 [] w = "outRes" -> 4 [] w = "inRes" -> 5
Side(w) == IF w \in {"inReq", "inRes"} THEN "in" ELSE "out"
Other(w) == CASE w = "inReq" -> "inRes" [] w = "inRes" -> "inReq"
              [] w = "outReq" -> "outRes" [] w = "outRes" -> "outReq"

Message(k, id, api, bs, addr) == [kind |-> k, id |-> id, api |-> api, brokers |-> bs, addr |-> addr]
Disconnect == Message("disconnect", 0, "none", {}, "none")
Messages == [kind : {"request", "response", "disconnect"}, id : 0..MaxRequests,
             api : Apis \cup {"none"}, brokers : SUBSET Brokers, addr : {"none", "broker", "inlet"}]

Head1(c, w) == wire[c][Leg(w)] # <<>> /\ pc[c][w] = "run" /\ todo[c][w] = {}
Msg(c, w) == Head(wire[c][Leg(w)])

\* The message leaves its leg and `m` goes on the next, unless the first hop
\* of the onward route is gone: then `context.forward` fails and m is lost.
Broken(c, w) == cut[c] /\ w \in {"inReq", "outRes"}
Passed(c, w, m) ==
  [wire EXCEPT ![c][Leg(w)] = Tail(@), ![c][Leg(w) + 1] = IF Broken(c, w) THEN @ ELSE Append(@, m)]
\* The interceptor fails: the handler returns the error and the message is lost.
Lost(c, w) == [wire EXCEPT ![c][Leg(w)] = Tail(@)]

Init ==
  /\ wire = [c \in Conns |-> [l \in Legs |-> <<>>]]
  /\ requestMap = [c \in Conns |-> [s \in {"in", "out"} |-> [i \in 1..MaxRequests |-> "none"]]]
  /\ todo = [c \in Conns |-> [w \in Workers |-> {}]]
  /\ pc = [c \in Conns |-> [w \in Workers |-> "run"]]
  /\ flag = [c \in Conns |-> [s \in {"in", "out"} |-> FALSE]]
  /\ inlets = [b \in Brokers |-> 0] /\ currentPort = Start
  /\ outlets = {} /\ topicKnown = FALSE /\ forwarder = FALSE
  /\ told = {} /\ asked = [c \in Conns |-> 0] /\ refused = 0 /\ cut = [c \in Conns |-> FALSE]

----------------------------------------------------------------------------
(* The Kafka client and the broker. *)

ClientRequest(c) == \E api \in Apis :
  /\ asked[c] < MaxRequests
  /\ asked' = [asked EXCEPT ![c] = @ + 1]
  /\ wire' = [wire EXCEPT ![c][1] = Append(@, Message("request", asked[c] + 1, api, {}, "none"))]
  /\ UNCHANGED <<requestMap, todo, pc, flag, shared, told, cut>>

\* The client closes its socket: its inlet sends a Disconnect and asks no more.
ClientClose(c) ==
  /\ asked[c] < MaxRequests
  /\ asked' = [asked EXCEPT ![c] = MaxRequests]
  /\ wire' = [wire EXCEPT ![c][1] = Append(@, Disconnect)]
  /\ UNCHANGED <<requestMap, todo, pc, flag, shared, told, cut>>

\* The broker answers: metadata names some brokers, a coordinator is one.
BrokerAnswer(c) == LET m == Head(wire[c][3]) IN
  /\ wire[c][3] # <<>> /\ m.kind = "request"
  /\ \E bs \in (SUBSET Brokers \ {{}}) :
       /\ m.api = "coordinator" => Cardinality(bs) = 1
       /\ m.api \notin {"metadata", "coordinator"} => bs = Brokers
       /\ wire' = [wire EXCEPT ![c][3] = Tail(@),
                               ![c][4] = Append(@, Message("response", m.id, m.api, bs, "broker"))]
  /\ UNCHANGED <<requestMap, todo, pc, flag, shared, told, asked, cut>>

\* The outlet's connection ends: at the Disconnect it receives, or because the
\* broker closes it instead of answering, and then the outlet sends one.
BrokerEnds(c) ==
  /\ wire[c][3] # <<>>
  /\ wire' = [wire EXCEPT ![c][3] = <<>>,
                          ![c][4] = IF Head(wire[c][3]).kind = "request" THEN Append(@, Disconnect) ELSE @]
  /\ UNCHANGED <<requestMap, todo, pc, flag, shared, told, asked, cut>>

ClientReceive(c) == LET m == Head(wire[c][6]) IN
  /\ wire[c][6] # <<>>
  /\ wire' = [wire EXCEPT ![c][6] = Tail(@)]
  /\ told' = IF m.api \in {"metadata", "coordinator"}
             THEN told \cup {<<m.api, b, IF m.addr = "inlet" THEN inlets[b] ELSE -1>> : b \in m.brokers}
             ELSE told
  /\ UNCHANGED <<requestMap, todo, pc, flag, shared, asked, cut>>

LinkGoes(c) ==
  /\ LinkFails /\ ~cut[c]
  /\ cut' = [cut EXCEPT ![c] = TRUE]
  /\ UNCHANGED <<wire, requestMap, todo, pc, flag, shared, told, asked>>

----------------------------------------------------------------------------
(* Requests. *)

Remembered(s, api) == IF s = "in" THEN api \in {"metadata", "coordinator", "fetch", "fetchById"}
                                  ELSE api = "metadata"

\* intercept_request on the client's node: a fetch by topic id needs the name,
\* and starts the topic's forwarder before it is remembered and sent on;
\* the requests of brokers among themselves are refused.
InterceptsRequest(api) == api # "internal" /\ (api = "fetchById" => topicKnown)

HandleRequest(c, w) == LET m == Msg(c, w) IN
  /\ w \in {"inReq", "outReq"} /\ Head1(c, w) /\ m.kind = "request"
  /\ IF w = "outReq" \/ InterceptsRequest(m.api)
     THEN /\ wire' = Passed(c, w, m)
          /\ requestMap' = IF Remembered(Side(w), m.api)
                           THEN [requestMap EXCEPT ![c][Side(w)][m.id] = m.api] ELSE requestMap
          /\ forwarder' = (forwarder \/ (w = "inReq" /\ m.api \in {"fetch", "fetchById"}))
     ELSE wire' = Lost(c, w) /\ UNCHANGED <<requestMap, forwarder>>
  /\ UNCHANGED <<todo, pc, flag, inlets, currentPort, outlets, topicKnown, told, asked, refused, cut>>

----------------------------------------------------------------------------
(* Responses.  The loop over the brokers of a response awaits the shared   *)
(* controller for each of them, so the loops of two connections interleave. *)

\* What the response answers, as its pair remembers it.
Answers(c, w) == requestMap[c][Side(w)][Msg(c, w).id]

HasBrokers(w, api) == IF w = "inRes" THEN api \in {"metadata", "coordinator"} ELSE api = "metadata"

PassResponse(c, w) ==
  /\ w \in {"outRes", "inRes"} /\ Head1(c, w) /\ Msg(c, w).kind = "response"
  /\ ~HasBrokers(w, Answers(c, w))
  /\ wire' = Passed(c, w, Msg(c, w))
  /\ UNCHANGED <<requestMap, todo, pc, flag, shared, told, asked, cut>>

BeginBrokers(c, w) ==
  /\ w \in {"outRes", "inRes"} /\ Head1(c, w) /\ Msg(c, w).kind = "response"
  /\ HasBrokers(w, Answers(c, w))
  /\ todo' = [todo EXCEPT ![c][w] = Msg(c, w).brokers]
  /\ topicKnown' = (topicKnown \/ (w = "inRes" /\ Answers(c, w) = "metadata"))
  /\ UNCHANGED <<wire, requestMap, pc, flag, inlets, currentPort, outlets, forwarder, told, asked, refused, cut>>

\* One broker is done; after the last one the response, rewritten on the
\* client's node, goes on.
Advance(c, w, b) ==
  /\ todo' = [todo EXCEPT ![c][w] = @ \ {b}]
  /\ wire' = IF todo[c][w] = {b}
             THEN Passed(c, w, IF w = "inRes" THEN [Msg(c, w) EXCEPT !.addr = "inlet"] ELSE Msg(c, w))
             ELSE wire

\* assert_outlet_for_broker.
AssertOutlet(c, b) ==
  /\ b \in todo[c]["outRes"]
  /\ outlets' = outlets \cup {b}
  /\ Advance(c, "outRes", b)
  /\ UNCHANGED <<requestMap, pc, flag, inlets, currentPort, topicKnown, forwarder, told, asked, refused, cut>>

\* assert_inlet_for_broker: a new inlet takes the current port, and the
\* port is advanced once the node manager has created it.
AssertInlet(c, b) ==
  /\ b \in todo[c]["inRes"]
  /\ \/ inlets[b] # 0 /\ UNCHANGED <<inlets, currentPort>>
     \/ /\ inlets[b] = 0 /\ currentPort <= End
        /\ inlets' = [inlets EXCEPT ![b] = IF currentPort = 0 THEN PortModulus ELSE currentPort]
        /\ currentPort' = (currentPort + 1) % PortModulus
  /\ Advance(c, "inRes", b)
  /\ UNCHANGED <<requestMap, pc, flag, outlets, topicKnown, forwarder, told, asked, refused, cut>>

\* The controller fails (the range is used up, or the node manager refuses):
\* the whole response is lost, what was opened for it stays open.
ControllerFails(c, w) ==
  /\ todo[c][w] # {}
  /\ \/ /\ w = "inRes" /\ currentPort > End /\ \E b \in todo[c][w] : inlets[b] = 0
        /\ UNCHANGED refused
     \/ /\ refused < Refusals /\ refused' = refused + 1
        /\ \E b \in todo[c][w] : IF w = "inRes" THEN inlets[b] = 0 ELSE b \notin outlets
  /\ todo' = [todo EXCEPT ![c][w] = {}]
  /\ wire' = Lost(c, w)
  /\ UNCHANGED <<requestMap, pc, flag, inlets, currentPort, outlets, topicKnown, forwarder, told, asked, cut>>

\* A record of a fetch response does not decrypt: the response is lost.
FetchFails(c) ==
  /\ Head1(c, "inRes") /\ Msg(c, "inRes").kind = "response" /\ refused < Refusals
  /\ Answers(c, "inRes") \in {"fetch", "fetchById"}
  /\ refused' = refused + 1 /\ wire' = Lost(c, "inRes")
  /\ UNCHANGED <<requestMap, todo, pc, flag, inlets, currentPort, outlets, topicKnown, forwarder, told, asked, cut>>

----------------------------------------------------------------------------
(* Disconnection. *)

\* The Disconnect is forwarded first; an error there ends the handler.  The
\* first of the pair to get past it stops both.
HandleDisconnect(c, w) ==
  /\ Head1(c, w) /\ Msg(c, w).kind = "disconnect"
  /\ wire' = Passed(c, w, Disconnect)
  /\ IF Broken(c, w) THEN UNCHANGED <<flag, pc>>
     ELSE /\ flag' = [flag EXCEPT ![c][Side(w)] = TRUE]
          /\ pc' = IF flag[c][Side(w)] THEN pc ELSE [pc EXCEPT ![c][w] = "stopping"]
  /\ UNCHANGED <<requestMap, todo, shared, told, asked, cut>>

\* stop_worker of the other, which finishes what it is doing, then of itself.
StopPair(c, w) ==
  /\ pc[c][w] = "stopping" /\ todo[c][Other(w)] = {}
  /\ pc' = [pc EXCEPT ![c][w] = "gone", ![c][Other(w)] = "gone"]
  /\ wire' = [wire EXCEPT ![c][Leg(w)] = <<>>, ![c][Leg(Other(w))] = <<>>]
  /\ UNCHANGED <<requestMap, todo, flag, shared, told, asked, cut>>

\* What is sent to a worker that is gone goes nowhere.
DropUndeliverable(c, w) ==
  /\ pc[c][w] = "gone" /\ wire[c][Leg(w)] # <<>>
  /\ wire' = Lost(c, w)
  /\ UNCHANGED <<requestMap, todo, pc, flag, shared, told, asked, cut>>

WorkerStep(c, w) ==
  \/ HandleRequest(c, w) \/ PassResponse(c, w) \/ BeginBrokers(c, w) \/ HandleDisconnect(c, w)
  \/ StopPair(c, w)
  \/ \E b \in Brokers : (w = "outRes" /\ AssertOutlet(c, b)) \/ (w = "inRes" /\ AssertInlet(c, b))
  \/ ControllerFails(c, w)

Next == \E c \in Conns :
  \/ ClientRequest(c) \/ ClientClose(c) \/ BrokerAnswer(c) \/ BrokerEnds(c)
  \/ ClientReceive(c) \/ LinkGoes(c)
  \/ FetchFails(c)
  \/ \E w \in Workers : WorkerStep(c, w) \/ DropUndeliverable(c, w)

Spec == Init /\ [][Next]_vars
\* Each worker runs on its own task and handles what its mailbox holds.
FairSpec == Spec /\ \A c \in Conns, w \in Workers : WF_vars(WorkerStep(c, w))

----------------------------------------------------------------------------
\* What the workers of a connection hold is of its type.
TypeOK ==
  /\ wire \in [Conns -> [Legs -> Seq(Messages)]]
  /\ todo \in [Conns -> [Workers -> SUBSET Brokers]]
  /\ pc \in [Conns -> [Workers -> {"run", "stopping", "gone"}]]
  /\ inlets \in [Brokers -> 0..PortModulus] /\ currentPort \in 0..(PortModulus - 1)

\* Every address a client learns, from metadata or as a coordinator, is the
\* broker's inlet on the client's own node, whatever the other connections did
\* meanwhile: no client is ever given the broker's real address (handle_metadata_response,
\* handle_find_coordinator_response).
ToldTheInlet == \A t \in told : t[3] # -1 /\ t[3] = inlets[t[2]]

\* The inlet of a broker that metadata named leads to an outlet that exists:
\* the outlet node opens it before the client's node opens the inlet
\* (OutletInterceptorImpl::intercept_response runs first on the way back).
LeadsToOutlet == \A t \in told : t[1] = "metadata" => t[2] \in outlets

\* Two brokers never share an inlet, and every inlet is in the configured range,
\* even when creations fail and connections race (assert_inlet_for_broker).
OnePortPerBroker ==
  \A b \in Brokers : inlets[b] # 0 =>
    /\ inlets[b] \in Start..End
    /\ \A d \in Brokers \ {b} : inlets[d] # inlets[b]

\* No fetch reaches the broker before the topic's forwarder was started, so
\* that a producer can reach the consumer for what it will fetch
\* (handle_fetch_request starts the forwarders before the request goes on).
FetchAfterForwarder ==
  \A c \in Conns, l \in 2..3 : \A i \in 1..Len(wire[c][l]) :
    wire[c][l][i].api \in {"fetch", "fetchById"} => forwarder

\* While one worker of a pair is running after the Disconnect was handled, the
\* other is too: they go together (the code stops the other, then itself).
PairStaysTogether == \A c \in Conns, w \in Workers : (pc[c][w] = "gone") = (pc[c][Other(w)] = "gone")

============================================================================
