------------------------------- MODULE Portal -------------------------------
(***************************************************************************)
(* A TCP portal (ockam_transport_tcp/src/portal): a connection accepted by *)
(* an inlet is carried, as routed messages, to an outlet which connects to *)
(* its target.  On each side a TcpPortalWorker writes what arrives to the  *)
(* local socket and a TcpPortalRecvProcessor forwards what it reads.       *)
(*                                                                         *)
(* The route between the two delivers messages in order and loses none     *)
(* (TCP transport, secure channel); a chunk of payload is a number.  The   *)
(* local peer of a side (the client of the inlet, the target of the        *)
(* outlet) sends chunks, closes its connection or resets it.               *)
(***************************************************************************)
EXTENDS Naturals, Sequences

CONSTANTS MaxChunks,  \* chunks each local peer sends
          Resets      \* sides whose local peer may reset the connection

Sides == {"inlet", "outlet"}
Other(s) == IF s = "inlet" THEN "outlet" ELSE "inlet"

VARIABLES
  peer,      \* local peer: "none", "open", "closed" (FIN sent), "reset"
  sent,      \* number of chunks the local peer has sent
  read,      \* number of chunks the receiver has read
  received,  \* chunks written to the local peer
  worker,    \* state of the portal worker
  reason,    \* DisconnectionReason, once disconnecting
  remote,    \* remote_route is set
  receiver,  \* state of the receiver
  net,       \* messages on their way to this side
  internal   \* PortalInternalMessage::Disconnect in the worker's mailbox

vars == <<peer, sent, read, received, worker, reason, remote, receiver, net, internal>>

Payload(n) == <<"Payload", n>>
Ping == <<"Ping">>
Pong == <<"Pong">>
Disconnect == <<"Disconnect">>

Send(s, msg) == [net EXCEPT ![Other(s)] = Append(@, msg)]
TakeAndSend(s, msgs) == [net EXCEPT ![s] = Tail(@), ![Other(s)] = @ \o msgs]
Took(s) == [net EXCEPT ![s] = Tail(@)]

Init ==
    /\ peer = [s \in Sides |-> IF s = "inlet" THEN "open" ELSE "none"]
    /\ sent = [s \in Sides |-> 0] /\ read = [s \in Sides |-> 0]
    /\ received = [s \in Sides |-> <<>>]
    /\ worker = [s \in Sides |-> "none"]
    /\ reason = [s \in Sides |-> "none"]
    /\ remote = [s \in Sides |-> FALSE]
    /\ receiver = [s \in Sides |-> "none"]
    /\ net = [s \in Sides |-> <<>>]
    /\ internal = [s \in Sides |-> FALSE]

\* What the local peer does.  After the worker has dropped its write half the
\* peer sees the end of the stream, and may still send.
PeerSends(s) ==
    /\ peer[s] = "open" /\ sent[s] < MaxChunks
    /\ sent' = [sent EXCEPT ![s] = @ + 1]
    /\ UNCHANGED <<peer, read, received, worker, reason, remote, receiver, net, internal>>

PeerCloses(s) ==
    /\ peer[s] = "open"
    /\ peer' = [peer EXCEPT ![s] = "closed"]
    /\ UNCHANGED <<sent, read, received, worker, reason, remote, receiver, net, internal>>

PeerResets(s) ==
    /\ s \in Resets /\ peer[s] \in {"open", "closed"}
    /\ peer' = [peer EXCEPT ![s] = "reset"]
    /\ UNCHANGED <<sent, read, received, worker, reason, remote, receiver, net, internal>>

\* TcpInletListenProcessor::process, then initialize and handle_send_ping.
InletAccept ==
    /\ worker["inlet"] = "none"
    /\ net' = Send("inlet", Ping)
    /\ worker' = [worker EXCEPT !["inlet"] = "ReceivePong"]
    /\ UNCHANGED <<peer, sent, read, received, reason, remote, receiver, internal>>

\* TcpOutletListenWorker::handle_message starts the outlet worker, and the
\* first half of handle_send_pong: Pong is sent before the outlet connects.
OutletListen ==
    /\ worker["outlet"] = "none"
    /\ net["outlet"] # <<>> /\ Head(net["outlet"]) = Ping
    /\ net' = TakeAndSend("outlet", <<Pong>>)
    /\ worker' = [worker EXCEPT !["outlet"] = "Connecting"]
    /\ UNCHANGED <<peer, sent, read, received, reason, remote, receiver, internal>>

\* The second half: connect to the target and start the receiver.
OutletConnects ==
    /\ worker["outlet"] = "Connecting"
    /\ peer' = [peer EXCEPT !["outlet"] = "open"]
    /\ receiver' = [receiver EXCEPT !["outlet"] = "running"]
    /\ remote' = [remote EXCEPT !["outlet"] = TRUE]
    /\ worker' = [worker EXCEPT !["outlet"] = "Initialized"]
    /\ UNCHANGED <<sent, read, received, reason, net, internal>>

\* A failed connect ends initialize with an error, which is logged: the worker
\* stays in state SendPong, without a remote route.
OutletFailsToConnect ==
    /\ worker["outlet"] = "Connecting"
    /\ worker' = [worker EXCEPT !["outlet"] = "SendPong"]
    /\ UNCHANGED <<peer, sent, read, received, reason, remote, receiver, net, internal>>

\* Mutant: the buffer is not cleared, the chunk is forwarded again.
ForwardChunkTwice(s) ==
    /\ receiver[s] = "running"
    /\ peer[s] # "reset" /\ read[s] < sent[s]
    /\ read' = [read EXCEPT ![s] = @ + 1]
    /\ net' = [net EXCEPT ![Other(s)] = @ \o <<Payload(read[s] + 1), Payload(read[s] + 1)>>]
    /\ UNCHANGED <<peer, sent, received, worker, reason, remote, receiver, internal>>

\* TcpPortalRecvProcessor::process: read and forward a chunk.
ForwardChunk(s) ==
    /\ receiver[s] = "running"
    /\ peer[s] # "reset" /\ read[s] < sent[s]
    /\ read' = [read EXCEPT ![s] = @ + 1]
    /\ net' = Send(s, Payload(read[s] + 1))
    /\ UNCHANGED <<peer, sent, received, worker, reason, remote, receiver, internal>>

\* The end of the stream: tell the worker, then the other side, and stop.
ReadEnd(s) ==
    /\ receiver[s] = "running"
    /\ peer[s] = "closed" /\ read[s] = sent[s]
    /\ receiver' = [receiver EXCEPT ![s] = "stopped"]
    /\ internal' = [internal EXCEPT ![s] = worker[s] # "stopped"]
    /\ net' = Send(s, Disconnect)
    /\ UNCHANGED <<peer, sent, read, received, worker, reason, remote>>

\* A read error: the receiver stops and tells nobody.
ReadError(s) ==
    /\ receiver[s] = "running" /\ peer[s] = "reset"
    /\ receiver' = [receiver EXCEPT ![s] = "stopped"]
    /\ UNCHANGED <<peer, sent, read, received, worker, reason, remote, net, internal>>

(***************************************************************************)
(* TcpPortalWorker::handle_message.  A disconnecting worker is inside      *)
(* start_disconnection, so it handles nothing.                             *)
(***************************************************************************)
HandlePong ==
    /\ worker["inlet"] = "ReceivePong"
    /\ net["inlet"] # <<>> /\ Head(net["inlet"]) = Pong
    /\ receiver' = [receiver EXCEPT !["inlet"] = "running"]
    /\ remote' = [remote EXCEPT !["inlet"] = TRUE]
    /\ worker' = [worker EXCEPT !["inlet"] = "Initialized"]
    /\ net' = Took("inlet")
    /\ UNCHANGED <<peer, sent, read, received, reason, internal>>

HandlePayload(s) ==
    /\ worker[s] = "Initialized"
    /\ net[s] # <<>> /\ Head(net[s])[1] = "Payload"
    /\ peer[s] # "reset"
    /\ received' = [received EXCEPT ![s] = Append(@, Head(net[s])[2])]
    /\ net' = Took(s)
    /\ UNCHANGED <<peer, sent, read, worker, reason, remote, receiver, internal>>

\* start_disconnection, up to the point where it sleeps.
\* notify_remote_about_disconnection takes the remote route.
StartDisconnection(s, why) ==
    /\ worker' = [worker EXCEPT ![s] = "disconnecting"]
    /\ reason' = [reason EXCEPT ![s] = why]
    /\ remote' = [remote EXCEPT ![s] = @ /\ why = "Remote"]

Notice(s, why) == IF remote[s] /\ why # "Remote" THEN <<Disconnect>> ELSE <<>>

\* The write fails: the local peer is gone.
FailedTx(s) ==
    /\ worker[s] = "Initialized"
    /\ net[s] # <<>> /\ Head(net[s])[1] = "Payload"
    /\ peer[s] \in {"closed", "reset"}
    /\ StartDisconnection(s, "FailedTx")
    /\ net' = TakeAndSend(s, Notice(s, "FailedTx"))
    /\ UNCHANGED <<peer, sent, read, received, receiver, internal>>

FailedRx(s) ==
    /\ worker[s] = "Initialized"
    /\ internal[s]
    /\ internal' = [internal EXCEPT ![s] = FALSE]
    /\ StartDisconnection(s, "FailedRx")
    /\ net' = [net EXCEPT ![Other(s)] = @ \o Notice(s, "FailedRx")]
    /\ UNCHANGED <<peer, sent, read, received, receiver>>

\* Mutant: Disconnect is read and nothing is done about it.
RemoteDisconnectIgnored(s) ==
    /\ worker[s] = "Initialized"
    /\ net[s] # <<>> /\ Head(net[s]) = Disconnect
    /\ net' = Took(s)
    /\ UNCHANGED <<peer, sent, read, received, worker, reason, remote, receiver, internal>>

RemoteDisconnect(s) ==
    /\ worker[s] = "Initialized"
    /\ net[s] # <<>> /\ Head(net[s]) = Disconnect
    /\ StartDisconnection(s, "Remote")
    /\ net' = Took(s)
    /\ UNCHANGED <<peer, sent, read, received, receiver, internal>>

\* The end of start_disconnection: stop_receiver unless the write failed, then
\* stop the worker, which drops its write half.
FinishDisconnection(s) ==
    /\ worker[s] = "disconnecting"
    /\ worker' = [worker EXCEPT ![s] = "stopped"]
    /\ receiver' = IF reason[s] # "FailedTx"
                   THEN [receiver EXCEPT ![s] = "stopped"] ELSE receiver
    /\ internal' = [internal EXCEPT ![s] = FALSE]
    /\ UNCHANGED <<peer, sent, read, received, reason, remote, net>>

\* A message nobody can use: the worker is stopped, or its state does not
\* allow the message and handle_message returns an error.
Discard(s) ==
    /\ net[s] # <<>>
    /\ worker[s] \in {"stopped", "SendPong"}
    /\ net' = Took(s)
    /\ UNCHANGED <<peer, sent, read, received, worker, reason, remote, receiver, internal>>

\* Once the worker has closed its half, the local peer closes its own.
PeerAnswersClose(s) ==
    /\ worker[s] = "stopped" /\ peer[s] = "open"
    /\ peer' = [peer EXCEPT ![s] = "closed"]
    /\ UNCHANGED <<sent, read, received, worker, reason, remote, receiver, net, internal>>

WorkerStep(s) ==
    \/ HandlePayload(s) \/ FailedTx(s) \/ FailedRx(s) \/ RemoteDisconnect(s)
    \/ FinishDisconnection(s) \/ Discard(s)
    \/ s = "inlet" /\ (InletAccept \/ HandlePong)
    \/ s = "outlet" /\ (OutletListen \/ OutletConnects \/ OutletFailsToConnect)

ReceiverStep(s) == ForwardChunk(s) \/ ReadEnd(s) \/ ReadError(s)

Next ==
    \E s \in Sides :
        \/ PeerSends(s) \/ PeerCloses(s) \/ PeerResets(s) \/ PeerAnswersClose(s)
        \/ WorkerStep(s) \/ ReceiverStep(s)

Spec == Init /\ [][Next]_vars

(***************************************************************************)
(* Properties.                                                             *)
(***************************************************************************)
Chunks(n) == [i \in 1..n |-> i]

\* Workers and receivers are in the states the code names, and a read never
\* runs ahead of what was sent.
TypeOK ==
    /\ \A s \in Sides :
        /\ worker[s] \in {"none", "ReceivePong", "Connecting", "SendPong",
                          "Initialized", "disconnecting", "stopped"}
        /\ receiver[s] \in {"none", "running", "stopped"}
        /\ read[s] \in 0..sent[s]
        /\ sent[s] \in 0..MaxChunks

\* The portal is a pipe: what a local peer gets is a prefix of what the other
\* one sent, in the same order, with nothing missing in between.
InOrder == \A s \in Sides : \E n \in 0..sent[Other(s)] : received[s] = Chunks(n)

\* An orderly close loses nothing: a side that disconnects because the other
\* side's stream ended has delivered all of that stream.  (A worker whose own
\* write failed may announce the disconnection earlier.)
CloseDeliversAll ==
    \A s \in Sides :
        /\ reason[s] = "Remote"
        /\ reason[Other(s)] # "FailedTx"
        => received[s] = Chunks(sent[Other(s)])

\* The receiver runs only while the portal is established, and no payload is
\* on its way to an inlet that still waits for Pong: Pong travels first.
PongFirst ==
    worker["inlet"] = "ReceivePong" /\ net["inlet"] # <<>> => Head(net["inlet"]) = Pong

\* When a local peer closes an established portal, both workers and both
\* receivers stop: nothing is left behind on either side.
PeerClosed(s) == peer[s] = "closed" /\ \A t \in Sides : worker[t] = "Initialized"
AllStopped == \A t \in Sides : worker[t] = "stopped" /\ receiver[t] = "stopped"
CloseReachesOther == \A s \in Sides : PeerClosed(s) ~> AllStopped

=============================================================================
