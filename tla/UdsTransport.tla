---------------------------- MODULE UdsTransport ----------------------------
(***************************************************************************)
(* The transport over Unix domain sockets: its router                      *)
(* (router/uds_router.rs, router/handle.rs), the sender and receiver of a  *)
(* connection (workers/sender.rs, workers/receiver.rs) and the listener    *)
(* (workers/listener.rs).                                                  *)
(*                                                                         *)
(* The router handles one request at a time.  It starts the sender of a    *)
(* connection and registers it; the sender connects, and asks the router   *)
(* to be unregistered before it stops.                                     *)
(***************************************************************************)
EXTENDS Integers, Sequences, FiniteSets

CONSTANTS Peers,      \* sockets of others
          Own,        \* the socket this node listens on
          MaxSenders, MaxRoutes, MaxBreaks  \* bounds

Paths == Peers \cup {Own}
Ids == 1..MaxSenders

VARIABLES map,       \* the router's map: path -> sender or 0
          snd,       \* senders
          listening, \* peers that accept connections
          accepted,  \* the pair the listener has registered and not yet started, or 0
          unreg,     \* Unregister requests to the router
          routed, breaks

vars == <<map, snd, listening, accepted, unreg, routed, breaks>>

NoSender == [st |-> "none", peer |-> Own, rx |-> "none", rxStop |-> TRUE, mail |-> 0, told |-> FALSE]

Init ==
    /\ map = [p \in Paths |-> 0] /\ snd = [i \in Ids |-> NoSender]
    /\ listening \in SUBSET Peers
    /\ accepted = 0 /\ unreg = {} /\ routed = 0 /\ breaks = 0

Fresh == {i \in Ids : snd[i].st = "none" /\ \A j \in 1..(i - 1) : snd[j].st # "none"}

----------------------------------------------------------------------------
(* The router. *)
\* handle_register: the addresses already in the map are compared with the map itself.
RegisterOk(p) == \A q \in Paths : map[q] = 0
HandleRegister(p, i) ==
    map' = IF RegisterOk(p) THEN [map EXCEPT ![p] = i] ELSE map

\* handle_connect: the pair is started, then registered; it stays when that fails.
HandleConnect(p, i, mail) ==
    /\ i \in Fresh
    /\ HandleRegister(p, i)
    /\ snd' = [snd EXCEPT ![i] = [NoSender EXCEPT !.st = "init", !.peer = p, !.mail = IF RegisterOk(p) THEN mail ELSE 0]]

Connect(p) ==
    /\ \E i \in Fresh : HandleConnect(p, i, 0)
    /\ UNCHANGED <<listening, accepted, unreg, routed, breaks>>

\* handle_route and resolve_route: a message to a path without a connection makes one.
Route(p) ==
    /\ routed < MaxRoutes /\ routed' = routed + 1
    /\ IF map[p] # 0
       THEN /\ snd' = [snd EXCEPT ![map[p]].mail = IF snd[map[p]].st = "accepted" THEN @ ELSE @ + 1]
            /\ UNCHANGED map
       ELSE \E i \in Fresh : HandleConnect(p, i, 1)
    /\ UNCHANGED <<listening, accepted, unreg, breaks>>

\* shutdown of the sender: its receiver stops unless it has ended already.
Shutdown(s) == [s EXCEPT !.st = "stopped", !.rx = IF s.rxStop /\ @ = "run" THEN "done" ELSE @]

\* handle_disconnect
Disconnect(p) ==
    /\ map[p] # 0 /\ snd[map[p]].st \in {"init", "up"}
    /\ map' = [q \in Paths |-> IF map[q] = map[p] THEN 0 ELSE map[q]]
    /\ snd' = [snd EXCEPT ![map[p]] = Shutdown(@)]
    /\ UNCHANGED <<listening, accepted, unreg, routed, breaks>>

\* handle_unregister, and the sender goes on to stop.
HandleUnregister(i) ==
    /\ i \in unreg /\ unreg' = unreg \ {i}
    /\ map' = [q \in Paths |-> IF map[q] = i THEN 0 ELSE map[q]]
    /\ snd' = [snd EXCEPT ![i] = IF @.st = "leaving" THEN Shutdown(@) ELSE @]
    /\ UNCHANGED <<listening, accepted, routed, breaks>>

----------------------------------------------------------------------------
(* Senders and receivers. *)
StopFirst(i, s) == snd' = [snd EXCEPT ![i] = Shutdown(s)] /\ unreg' = unreg \cup {i}
\* stop_and_unregister: the sender waits for the router's answer.
StopAndUnregister(i, s) == snd' = [snd EXCEPT ![i] = [s EXCEPT !.st = "leaving"]] /\ unreg' = unreg \cup {i}

\* initialize of the sender
Initialize(i) ==
    /\ snd[i].st = "init"
    /\ IF snd[i].peer \in listening
       THEN snd' = [snd EXCEPT ![i].st = "up", ![i].rx = "run"] /\ UNCHANGED unreg
       ELSE StopAndUnregister(i, snd[i])
    /\ UNCHANGED <<map, listening, accepted, routed, breaks>>

\* handle_message of the sender
HandleMessage(i) ==
    /\ snd[i].st = "up" /\ snd[i].mail > 0
    /\ LET s == [snd[i] EXCEPT !.mail = @ - 1] IN
       \/ snd[i].rx # "broken" /\ snd' = [snd EXCEPT ![i] = s] /\ UNCHANGED unreg
       \/ snd[i].rx = "broken" /\ StopAndUnregister(i, s)
    /\ UNCHANGED <<map, listening, accepted, routed, breaks>>

\* The peer closes the connection or goes away.
Break(i) ==
    /\ snd[i].rx = "run" /\ breaks < MaxBreaks /\ breaks' = breaks + 1
    /\ snd' = [snd EXCEPT ![i].rx = "broken"]
    /\ listening' \in {listening, listening \ {snd[i].peer}}
    /\ UNCHANGED <<map, accepted, unreg, routed>>

\* process of the receiver: it tells the sender that the connection is closed and ends.
ReceiverEnds(i) ==
    /\ snd[i].rx = "broken" /\ ~snd[i].told
    /\ snd' = [snd EXCEPT ![i].told = TRUE]
    /\ UNCHANGED <<map, listening, accepted, unreg, routed, breaks>>

ConnectionClosed(i) ==
    /\ snd[i].st = "up" /\ snd[i].told
    /\ StopAndUnregister(i, [snd[i] EXCEPT !.rxStop = FALSE, !.rx = "done", !.told = FALSE])
    /\ UNCHANGED <<map, listening, accepted, routed, breaks>>

----------------------------------------------------------------------------
(* The listener registers a pair under the path it listens on, then starts it. *)
Accept ==
    /\ accepted = 0
    /\ \E i \in Fresh :
         /\ HandleRegister(Own, i)
         /\ IF RegisterOk(Own)
            THEN accepted' = i /\ snd' = [snd EXCEPT ![i] = [NoSender EXCEPT !.st = "accepted", !.peer = Own]]
            ELSE UNCHANGED <<accepted, snd>>
    /\ UNCHANGED <<listening, unreg, routed, breaks>>

StartAccepted ==
    /\ accepted # 0 /\ accepted' = 0
    /\ snd' = [snd EXCEPT ![accepted].st = "up", ![accepted].rx = "run"]
    /\ UNCHANGED <<map, listening, unreg, routed, breaks>>

Next ==
    \/ \E p \in Peers : Connect(p)
    \/ \E p \in Paths : Route(p) \/ Disconnect(p)
    \/ \E i \in Ids : HandleUnregister(i) \/ Initialize(i) \/ HandleMessage(i) \/ Break(i) \/ ReceiverEnds(i) \/ ConnectionClosed(i)
    \/ Accept \/ StartAccepted

Spec == Init /\ [][Next]_vars
FairSpec ==
    Spec /\ WF_vars(StartAccepted)
         /\ \A i \in Ids : /\ WF_vars(HandleUnregister(i)) /\ WF_vars(Initialize(i)) /\ WF_vars(HandleMessage(i))
                           /\ WF_vars(ReceiverEnds(i)) /\ WF_vars(ConnectionClosed(i))

----------------------------------------------------------------------------
\* stop_and_unregister, handle_disconnect: a path never leads to a sender that has
\* stopped, and always to one that was made for it.
MapLive == \A p \in Paths : map[p] # 0 => snd[map[p]].peer = p /\ snd[map[p]].st \notin {"none", "stopped"}

\* shutdown, rx_should_be_stopped: no receiver goes on without its sender.
NoLoneReceiver == \A i \in Ids : snd[i].st = "stopped" => snd[i].rx # "run"

\* A connection that was closed leaves the map, so that the next message makes another.
Leads(p, i) == map[p] = i
LeadsToClosed(p, i) == Leads(p, i) /\ snd[i].rx \in {"broken", "done"}
ClosedForgotten == \A p \in Paths, i \in Ids : LeadsToClosed(p, i) ~> ~Leads(p, i)

=============================================================================
