---------------------------- MODULE FlowControls ----------------------------
(***************************************************************************)
(* Flow controls of a node (ockam_core/src/flow_control): which worker may *)
(* get the messages that come in over which connection or secure channel.  *)
(* A TCP listener accepts connections, a secure channel listener accepts   *)
(* channels over them, channels and connections are opened, receivers      *)
(* (portals, requests, remote forwarders) are added to a channel, and a    *)
(* forwarder joins two channels.  The router cleans up after the primary   *)
(* address of every worker that stopped.                                   *)
(*                                                                         *)
(* The maps have one lock each: a set-up looks a flow control up and adds  *)
(* to it later, and the clean-up checks and removes in separate steps.     *)
(***************************************************************************)
EXTENDS Naturals, Sequences, FiniteSets, TLC

CONSTANTS Conns,      \* TCP connections
          Chans,      \* secure channels
          Receivers,  \* workers added as consumers of a channel
          MaxQueue    \* bound: addresses waiting to be cleaned up when another worker stops

ASSUME FlowControlsAssumption == Chans \cap Receivers = {} /\ MaxQueue \in Nat

\* For TLC: connections are alike, and so are channels
Symmetry == Permutations(Conns) \cup Permutations(Chans)

\* Addresses.  decryptor_internal ("internal") is an additional address of the
\* worker at decryptor_remote ("remote"), the "remote" mailbox of a receiver one
\* of the worker at its own address.
Address == {<<k, c>> : k \in {"receiver", "sender"}, c \in Conns}
           \cup {<<k, c>> : k \in {"remote", "internal", "encryptor"}, c \in Chans}
           \cup {<<k, r>> : k \in {"main", "mailbox"}, r \in Receivers}
           \cup {<<k, "node">> : k \in {"tcp_listener", "channel_listener", "service", "forwarder"}}
TcpListener == <<"tcp_listener", "node">>
ChannelListener == <<"channel_listener", "node">>
Service == <<"service", "node">>
Forwarder == <<"forwarder", "node">>

\* Every flow control id is drawn at random for one producer or spawner: it is
\* named by that.
NoFlow == <<"none", "node">>
Flow == {a \in Address : a[1] \in {"receiver", "internal", "tcp_listener", "channel_listener"}}

VARIABLES
  consumers, producers, producers_additional_addresses, spawners,  \* FlowControls
  listening,   \* the TCP listener: "running", "removed" (cleaned up, not yet stopped) or "stopped"
  conn,        \* connections: "none", "in", "late" (accepted after "removed"), "out" or "stopped"
  chan,        \* channels: "none", "setup", "live" or "stopped"
  over,        \* the connection a channel was made over, NoFlow before
  accepted,    \* made by the channel listener
  recv,        \* receivers: "none", "setup", "live" or "stopped"
  on,          \* the channel a receiver was added to, NoFlow before
  joined,      \* pairs of channels the forwarder has joined
  found,       \* what a set-up in progress has looked up
  toClean,     \* addresses the router has to clean up after
  stage, doomed, info   \* the clean-up in progress: next step, id to remove, producer removed

vars == <<consumers, producers, producers_additional_addresses, spawners, listening, conn, chan,
          over, accepted, recv, on, joined, found, toClean, stage, doomed, info>>
maps == <<consumers, producers, producers_additional_addresses, spawners>>
cleanup == <<toClean, stage, doomed, info>>
workers == <<listening, conn, chan, over, accepted, recv, on, joined>>

NoProducer == [flow |-> NoFlow, spawner |-> NoFlow]
NoAddress == NoFlow

Init ==
    /\ consumers = [f \in Flow |-> IF f = TcpListener THEN {ChannelListener}
                                   ELSE IF f = ChannelListener THEN {Service, Forwarder} ELSE {}]
    /\ producers = [a \in Address |-> NoProducer]
    /\ producers_additional_addresses = [a \in Address |-> NoAddress]
    /\ spawners = [a \in Address |-> IF a \in {TcpListener, ChannelListener} THEN a ELSE NoFlow]
    /\ listening = "running"
    /\ conn = [c \in Conns |-> "none"]
    /\ chan = [k \in Chans |-> "none"]
    /\ over = [k \in Chans |-> NoFlow]
    /\ accepted = [k \in Chans |-> FALSE]
    /\ recv = [r \in Receivers |-> "none"]
    /\ on = [r \in Receivers |-> NoFlow]
    /\ joined = {}
    /\ found = [a \in Chans \cup Receivers |-> NoFlow]
    /\ toClean = <<>>
    /\ stage = "idle"
    /\ doomed = NoFlow
    /\ info = NoProducer

(***************************************************************************)
(* FlowControls: adding and looking up.                                    *)
(***************************************************************************)
add_consumer(cs, a, f) == IF f = NoFlow THEN cs ELSE [cs EXCEPT ![f] = @ \cup {a}]

add_producer(a, f, s, more) ==
    /\ producers' = [producers EXCEPT ![a] = [flow |-> f, spawner |-> s]]
    /\ producers_additional_addresses' =
          [x \in Address |-> IF x \in more \cup {a} THEN a ELSE producers_additional_addresses[x]]

get_flow_control_with_producer(a) == producers[a].flow

find_flow_control_with_producer_address(a) ==
    LET main == producers_additional_addresses[a]
    IN IF main = NoAddress THEN NoFlow ELSE producers[main].flow

\* FlowControlOutgoingAccessControl::is_authorized of the mailbox a producer
\* sends from, which holds the ids it was made with.
FlowOf(p) == IF p[1] = "main" THEN <<"internal", on[p[2]]>> ELSE p
SpawnerOf(p) ==
    CASE p[1] = "receiver" -> IF conn[p[2]] = "out" THEN NoFlow ELSE TcpListener
      [] p[1] = "internal" -> IF accepted[p[2]] THEN ChannelListener ELSE NoFlow
      [] OTHER -> NoFlow
is_consumer(a, f) == f # NoFlow /\ a \in consumers[f]
is_authorized(p, next) == is_consumer(next, FlowOf(p)) \/ is_consumer(next, SpawnerOf(p))

(***************************************************************************)
(* Set-up by the transports, secure channels and workers.                  *)
(***************************************************************************)
\* TcpListenProcessor::process: stop_processor cleans up before the processor has
\* stopped, which may accept once more.
Accept(c) ==
    /\ conn[c] = "none"
    /\ listening \in {"running", "removed"}
    /\ conn' = [conn EXCEPT ![c] = IF listening = "running" THEN "in" ELSE "late"]
    /\ add_producer(<<"receiver", c>>, <<"receiver", c>>, TcpListener, {<<"sender", c>>})
    /\ UNCHANGED <<consumers, spawners, listening, chan, over, accepted, recv, on, joined, found, cleanup>>

Connect(c) ==
    /\ conn[c] = "none"
    /\ conn' = [conn EXCEPT ![c] = "out"]
    /\ add_producer(<<"receiver", c>>, <<"receiver", c>>, NoFlow, {<<"sender", c>>})
    /\ UNCHANGED <<consumers, spawners, listening, chan, over, accepted, recv, on, joined, found, cleanup>>

\* A channel is begun: the listener looks up the producer that sent it the first
\* message, the initiator the next hop of its route.
ChannelSetup(k, c) ==
    /\ chan[k] = "none"
    /\ conn[c] \in {"in", "late", "out"}
    /\ chan' = [chan EXCEPT ![k] = "setup"]
    /\ over' = [over EXCEPT ![k] = c]
    /\ \/ /\ is_authorized(<<"receiver", c>>, ChannelListener)
          /\ accepted' = [accepted EXCEPT ![k] = TRUE]
          /\ found' = [found EXCEPT ![k] = get_flow_control_with_producer(<<"receiver", c>>)]
       \/ /\ accepted' = accepted
          /\ found' = [found EXCEPT ![k] = find_flow_control_with_producer_address(<<"sender", c>>)]
    /\ UNCHANGED <<maps, listening, conn, recv, on, joined, cleanup>>

ChannelStartOpen(k) ==
    /\ chan[k] = "setup"
    /\ chan' = [chan EXCEPT ![k] = "live"]
    /\ consumers' = add_consumer(add_consumer(consumers, <<"remote", k>>, found[k]),
                                 <<"encryptor", k>>, ChannelListener)
    /\ add_producer(<<"internal", k>>, <<"internal", k>>,
                    IF accepted[k] THEN ChannelListener ELSE NoFlow, {<<"encryptor", k>>})
    /\ UNCHANGED <<spawners, listening, conn, over, accepted, recv, on, joined, found, cleanup>>

\* The decryptor is added to the flow control found, its internal address becomes
\* the producer of a new one, and the worker starts.
ChannelStart(k) ==
    /\ chan[k] = "setup"
    /\ chan' = [chan EXCEPT ![k] = "live"]
    /\ consumers' = add_consumer(consumers, <<"remote", k>>, found[k])
    /\ add_producer(<<"internal", k>>, <<"internal", k>>,
                    IF accepted[k] THEN ChannelListener ELSE NoFlow, {<<"encryptor", k>>})
    /\ UNCHANGED <<spawners, listening, conn, over, accepted, recv, on, joined, found, cleanup>>

\* A receiver is set up for a channel: portals, send_and_receive and remote
\* forwarders look up the channel's flow control ...
ReceiverSetup(r, k) ==
    /\ recv[r] = "none"
    /\ chan[k] = "live"
    /\ recv' = [recv EXCEPT ![r] = "setup"]
    /\ on' = [on EXCEPT ![r] = k]
    /\ found' = [found EXCEPT ![r] = find_flow_control_with_producer_address(<<"encryptor", k>>)]
    /\ UNCHANGED <<maps, listening, conn, chan, over, accepted, joined, cleanup>>

\* ... and add the receiver's mailbox to it; a remote forwarder is a producer of
\* it too.
ReceiverStart(r) ==
    /\ recv[r] = "setup"
    /\ recv' = [recv EXCEPT ![r] = "live"]
    /\ consumers' = add_consumer(consumers, <<"mailbox", r>>, found[r])
    /\ \/ /\ found[r] # NoFlow
          /\ add_producer(<<"main", r>>, found[r], NoFlow, {})
       \/ UNCHANGED <<producers, producers_additional_addresses>>
    /\ UNCHANGED <<spawners, listening, conn, chan, over, accepted, on, joined, found, cleanup>>

\* Forwarder::handle_message passes a message of channel i on to channel j: each
\* encryptor becomes a consumer of the other channel.
Forward(i, j) ==
    /\ i # j
    /\ chan[i] = "live" /\ chan[j] = "live"
    /\ is_authorized(<<"internal", i>>, Forwarder)
    /\ consumers' = add_consumer(
          add_consumer(consumers, <<"encryptor", i>>, find_flow_control_with_producer_address(<<"encryptor", j>>)),
          <<"encryptor", j>>, find_flow_control_with_producer_address(<<"encryptor", i>>))
    /\ joined' = joined \cup {{i, j}}
    /\ UNCHANGED <<producers, producers_additional_addresses, spawners, listening, conn, chan, over,
                   accepted, recv, on, found, cleanup>>

(***************************************************************************)
(* Workers stop; the router cleans up after their primary addresses.       *)
(***************************************************************************)
Stop(addrs) ==
    /\ Len(toClean) <= MaxQueue
    /\ toClean' = toClean \o addrs
    /\ UNCHANGED <<stage, doomed, info>>

StopConnection(c) ==
    /\ conn[c] \in {"in", "late", "out"}
    /\ conn' = [conn EXCEPT ![c] = "stopped"]
    /\ Stop(<< <<"receiver", c>>, <<"sender", c>> >>)
    /\ UNCHANGED <<maps, listening, chan, over, accepted, recv, on, joined, found>>

StopChannel(k) ==
    /\ chan[k] = "live"
    /\ chan' = [chan EXCEPT ![k] = "stopped"]
    /\ Stop(<< <<"remote", k>>, <<"encryptor", k>> >>)
    /\ UNCHANGED <<maps, listening, conn, over, accepted, recv, on, joined, found>>

StopReceiver(r) ==
    /\ recv[r] = "live"
    /\ recv' = [recv EXCEPT ![r] = "stopped"]
    /\ Stop(<< <<"main", r>> >>)
    /\ UNCHANGED <<maps, listening, conn, chan, over, accepted, on, joined, found>>

\* stop_processor of the TCP listener: first the clean-up, then the stop.
RemoveListener ==
    /\ listening = "running"
    /\ stage = "idle"
    /\ listening' = "removed"
    /\ Stop(<<TcpListener>>)
    /\ UNCHANGED <<maps, conn, chan, over, accepted, recv, on, joined, found>>

StopListener ==
    /\ listening = "removed"
    /\ listening' = "stopped"
    /\ UNCHANGED <<maps, conn, chan, over, accepted, recv, on, joined, found, cleanup>>

Goto(s) == stage' = s
Remove(f) == consumers' = [consumers EXCEPT ![f] = {}]
SpawnedBy(f) == \E a \in Address : producers[a].spawner = f
ProducedIn(f) == \E a \in Address : producers[a].flow = f
Spawning(f) == \E a \in Address : spawners[a] = f

\* cleanup_spawner: remove it, then look whether its id is still in use ...
cleanup_spawner ==
    /\ stage = "idle"
    /\ toClean # <<>>
    /\ spawners' = [spawners EXCEPT ![Head(toClean)] = NoFlow]
    /\ doomed' = spawners[Head(toClean)]
    /\ Goto(IF spawners[Head(toClean)] = NoFlow THEN "producer" ELSE "spawner")
    /\ UNCHANGED <<consumers, producers, producers_additional_addresses, workers, found, toClean, info>>

cleanup_spawner_check_spawners ==
    /\ stage \in {"spawner", "producers_spawner"}
    /\ doomed' = IF Spawning(doomed) THEN NoFlow ELSE doomed
    /\ Goto(IF stage = "spawner" THEN "spawner_remove" ELSE "producers_spawner_remove")
    /\ UNCHANGED <<maps, workers, found, toClean, info>>

cleanup_spawner_check ==
    /\ stage \in {"spawner", "producers_spawner"}
    /\ doomed' = IF Spawning(doomed) \/ SpawnedBy(doomed) THEN NoFlow ELSE doomed
    /\ Goto(IF stage = "spawner" THEN "spawner_remove" ELSE "producers_spawner_remove")
    /\ UNCHANGED <<maps, workers, found, toClean, info>>

\* ... and remove its consumers if not.
cleanup_spawner_remove ==
    /\ stage \in {"spawner_remove", "producers_spawner_remove", "flow_remove"}
    /\ IF doomed # NoFlow THEN Remove(doomed) ELSE UNCHANGED consumers
    /\ doomed' = NoFlow
    /\ Goto(CASE stage = "spawner_remove" -> "producer"
              [] stage = "producers_spawner_remove" -> "flow"
              [] OTHER -> "consumer")
    /\ UNCHANGED <<producers, producers_additional_addresses, spawners, workers, found, toClean, info>>

\* cleanup_producer: the same for the spawner's id, then for its own.
cleanup_producer ==
    /\ stage = "producer"
    /\ LET a == Head(toClean) IN
         /\ info' = producers[a]
         /\ producers' = [producers EXCEPT ![a] = NoProducer]
         /\ producers_additional_addresses' =
               [x \in Address |-> IF producers[a] # NoProducer /\ producers_additional_addresses[x] = a
                                    THEN NoAddress ELSE producers_additional_addresses[x]]
         /\ doomed' = producers[a].spawner
         /\ Goto(IF producers[a] = NoProducer THEN "consumer"
                 ELSE IF producers[a].spawner = NoFlow THEN "flow" ELSE "producers_spawner")
    /\ UNCHANGED <<consumers, spawners, workers, found, toClean>>

cleanup_producer_check ==
    /\ stage = "flow"
    /\ doomed' = IF ProducedIn(info.flow) THEN NoFlow ELSE info.flow
    /\ info' = NoProducer
    /\ Goto("flow_remove")
    /\ UNCHANGED <<maps, workers, found, toClean>>

cleanup_consumer ==
    /\ stage = "consumer"
    /\ consumers' = [f \in Flow |-> consumers[f] \ {Head(toClean)}]
    /\ toClean' = Tail(toClean)
    /\ Goto("idle")
    /\ UNCHANGED <<producers, producers_additional_addresses, spawners, workers, found, doomed, info>>

Next ==
    \/ \E c \in Conns : Accept(c) \/ Connect(c) \/ StopConnection(c)
    \/ \E k \in Chans : \/ \E c \in Conns : ChannelSetup(k, c)
                        \/ ChannelStart(k) \/ StopChannel(k)
                        \/ \E j \in Chans : Forward(k, j)
                        \/ \E r \in Receivers : ReceiverSetup(r, k)
    \/ \E r \in Receivers : ReceiverStart(r) \/ StopReceiver(r)
    \/ RemoveListener \/ StopListener
    \/ cleanup_spawner \/ cleanup_spawner_check \/ cleanup_spawner_remove
    \/ cleanup_producer \/ cleanup_producer_check \/ cleanup_consumer

Spec == Init /\ [][Next]_vars

(***************************************************************************)
(* Properties.                                                             *)
(***************************************************************************)
\* Types of the maps, of the workers and of the clean-up.
TypeOK ==
    /\ consumers \in [Flow -> SUBSET Address]
    /\ producers \in [Address -> [flow : Flow \cup {NoFlow}, spawner : Flow \cup {NoFlow}]]
    /\ producers_additional_addresses \in [Address -> Address \cup {NoAddress}]
    /\ spawners \in [Address -> Flow \cup {NoFlow}]
    /\ listening \in {"running", "removed", "stopped"}
    /\ conn \in [Conns -> {"none", "in", "late", "out", "stopped"}]
    /\ chan \in [Chans -> {"none", "setup", "live", "stopped"}]
    /\ over \in [Chans -> Conns \cup {NoFlow}] /\ \A k \in Chans : chan[k] # "none" => over[k] \in Conns
    /\ accepted \in [Chans -> BOOLEAN]
    /\ recv \in [Receivers -> {"none", "setup", "live", "stopped"}]
    /\ on \in [Receivers -> Chans \cup {NoFlow}] /\ \A r \in Receivers : recv[r] # "none" => on[r] \in Chans
    /\ joined \subseteq SUBSET Chans
    /\ found \in [Chans \cup Receivers -> Flow \cup {NoFlow}]
    /\ toClean \in Seq(Address)
    /\ stage \in {"idle", "spawner", "spawner_remove", "producer", "producers_spawner",
                  "producers_spawner_remove", "flow", "flow_remove", "consumer"}
    /\ doomed \in Flow \cup {NoFlow}
    /\ info \in [flow : Flow \cup {NoFlow}, spawner : Flow \cup {NoFlow}]

Connected(c) == conn[c] \in {"in", "late", "out"}

\* What comes in over a TCP connection reaches the secure channel listener and the
\* decryptors of channels made over that connection, and nothing else: no service,
\* and no channel of another connection, whatever was stopped and cleaned up
\* between (FlowControlOutgoingAccessControl of the TCP receiver).
OnlyOwnChannels ==
    \A c \in Conns, a \in Address : Connected(c) /\ is_authorized(<<"receiver", c>>, a) =>
        \/ a = ChannelListener /\ conn[c] # "out"
        \/ \E k \in Chans : a = <<"remote", k>> /\ over[k] = c

\* What comes in through a secure channel reaches the services of the listener that
\* accepted it, the receivers added to it and the channels the forwarder joined it
\* with.
OnlyOwnReceivers ==
    \A k \in Chans, a \in Address : chan[k] = "live" /\ is_authorized(<<"internal", k>>, a) =>
        \/ a \in {Service, Forwarder} /\ accepted[k]
        \/ \E r \in Receivers : a = <<"mailbox", r>> /\ on[r] = k
        \/ \E j \in Chans : a = <<"encryptor", j>> /\ {j, k} \in joined

\* The clean-up after one worker never cuts off another: a channel still gets the
\* messages of its connection, a connection and a channel still reach what the
\* listener that accepted them is open to, receivers and joined channels still get
\* theirs, as long as both ends live.
NotCutOff ==
    /\ \A k \in Chans : chan[k] = "live" /\ Connected(over[k]) =>
          is_authorized(<<"receiver", over[k]>>, <<"remote", k>>)
    /\ \A c \in Conns : conn[c] = "in" => is_authorized(<<"receiver", c>>, ChannelListener)
    /\ \A k \in Chans : chan[k] = "live" /\ accepted[k] => is_authorized(<<"internal", k>>, Service)
    /\ \A r \in Receivers : recv[r] = "live" /\ chan[on[r]] = "live" =>
          is_authorized(<<"internal", on[r]>>, <<"mailbox", r>>)
    /\ \A i, j \in Chans : {i, j} \in joined /\ i # j /\ chan[i] = "live" /\ chan[j] = "live" =>
          is_authorized(<<"internal", i>>, <<"encryptor", j>>)

\* Why messages stay in their own channel: what a flow control lists was added for
\* its own connection or channel.
OwnInv ==
    /\ consumers[TcpListener] \subseteq {ChannelListener}
    /\ consumers[ChannelListener] \subseteq {Service, Forwarder}
    /\ \A c \in Conns : \A a \in consumers[<<"receiver", c>>] :
          \E k \in Chans : a = <<"remote", k>> /\ chan[k] # "none" /\ over[k] = c
    /\ \A k \in Chans : \A a \in consumers[<<"internal", k>>] :
          \/ \E r \in Receivers : a = <<"mailbox", r>> /\ recv[r] # "none" /\ on[r] = k
          \/ \E j \in Chans : a = <<"encryptor", j>> /\ {j, k} \in joined

\* Who is known: live connections and channels are producers, listeners are spawners,
\* and a set-up in progress has found the flow control of its own.
Opened(k) == chan[k] \in {"live", "stopped"}
KnownInv ==
    /\ \A c \in Conns : Connected(c) =>
          /\ producers[<<"receiver", c>>].flow = <<"receiver", c>>
          /\ conn[c] # "out" => producers[<<"receiver", c>>].spawner = TcpListener
          /\ producers_additional_addresses[<<"sender", c>>] = <<"receiver", c>>
    /\ \A k \in Chans : Opened(k) =>
          /\ producers[<<"internal", k>>].flow = <<"internal", k>>
          /\ producers_additional_addresses[<<"encryptor", k>>] = <<"internal", k>>
    /\ spawners[ChannelListener] = ChannelListener
    /\ listening = "running" => spawners[TcpListener] = TcpListener
    /\ \A k \in Chans : chan[k] # "none" => conn[over[k]] # "none"
    /\ \A k \in Chans : chan[k] = "setup" => found[k] = <<"receiver", over[k]>>
    /\ \A r \in Receivers : recv[r] = "setup" => found[r] = <<"internal", on[r]>>
    /\ \A r \in Receivers : recv[r] # "none" => Opened(on[r])

\* What is cleaned up is gone: only stopped workers wait for the clean-up, and no
\* flow control that the clean-up is about to remove is in use.
Gone(a) ==
    \/ \E c \in Conns : a \in {<<"receiver", c>>, <<"sender", c>>} /\ conn[c] = "stopped"
    \/ \E k \in Chans : a \in {<<"remote", k>>, <<"encryptor", k>>} /\ chan[k] = "stopped"
    \/ \E r \in Receivers : a = <<"main", r>> /\ recv[r] = "stopped"
    \/ a = TcpListener /\ listening # "running"
Listeners == {TcpListener, ChannelListener}
Unused(f) ==
    \/ f = NoFlow
    \/ \E c \in Conns : f = <<"receiver", c>> /\ conn[c] = "stopped"
    \/ f = TcpListener /\ listening # "running" /\ \A c \in Conns : conn[c] # "in"
GoneInv ==
    /\ \A n \in 1 .. Len(toClean) : Gone(toClean[n])
    /\ stage # "idle" => toClean # <<>>
    /\ \A a \in Address : spawners[a] \in Listeners \cup {NoFlow} /\ producers[a].spawner \in Listeners \cup {NoFlow}
    /\ \A a \in Address : \/ producers[a].flow \in {a, NoFlow} \ Listeners
                          \/ \E k \in Chans : producers[a].flow = <<"internal", k>> /\ Opened(k)
    /\ stage \in {"spawner", "producers_spawner"} => doomed \in Listeners \cup {NoFlow}
    /\ stage \in {"spawner_remove", "producers_spawner_remove", "flow_remove"} => Unused(doomed)
    /\ stage \in {"producers_spawner", "producers_spawner_remove", "flow"} =>
          Unused(info.flow) \/ \E k \in Chans : info.flow = <<"internal", k>> /\ Opened(k)
    /\ info.flow \notin Listeners

\* Nothing that is in use is missing.
ReachInv ==
    /\ \A k \in Chans : chan[k] = "live" /\ Connected(over[k]) => <<"remote", k>> \in consumers[<<"receiver", over[k]>>]
    /\ listening = "running" \/ (\E c \in Conns : conn[c] = "in") => ChannelListener \in consumers[TcpListener]
    /\ Service \in consumers[ChannelListener]
    /\ \A r \in Receivers : recv[r] = "live" => <<"mailbox", r>> \in consumers[<<"internal", on[r]>>]
    /\ \A i, j \in Chans : {i, j} \in joined /\ i # j =>
          Opened(j) /\ (chan[j] = "live" => <<"encryptor", j>> \in consumers[<<"internal", i>>])

\* The invariant of the flow controls.
FlowInv == TypeOK /\ OwnInv /\ KnownInv /\ GoneInv /\ ReachInv

=============================================================================
