------------------------------ MODULE NodeApi -------------------------------
(***************************************************************************)
(* The part of a node manager that serves the commands on TCP connections, *)
(* TCP listeners, TCP outlets, secure channel listeners and policies       *)
(* (ockam_api/src/nodes/service), with the TCP transport and its registry. *)
(*                                                                         *)
(* A request is handled by one worker, so requests do not overlap; the     *)
(* workers of the node start and stop on their own between them.           *)
(* Context::stop_worker answers before the worker has stopped: it is       *)
(* "stopping" until its shutdown has run.  A command of the CLI is a       *)
(* sequence of requests, and commands interleave.                          *)
(***************************************************************************)
EXTENDS Integers, Sequences, SequencesExt, FiniteSets

CONSTANTS Clients,       \* processes of the CLI
          Commands,      \* the commands they run
          Lookup,        \* host -> what to_socket_addrs returns: a sequence of <<family, socket>>
          Remotes,       \* peers that connect to the listeners
          Aliases, Names, \* aliases of outlets; addresses a command may choose
          Checked,       \* enable_credential_checks
          HasTrust,      \* the node has a trust context
          Project,       \* the node's setup names a project
          MaxConns, MaxCommands, MaxStops  \* bounds

VARIABLES node, client,
          commands, stops  \* counters, for the bounds

vars == <<node, client, commands, stops>>

Resources == Aliases \cup {"tcp-outlet"}
None == "none"
NoAlias == "random"       \* the request names no alias: random_alias()
Api == <<"api">>          \* flow control of the API transport
Spawned(w) == <<"listener", w>> \* flow control of the secure channel listener w

\* A node as it starts: only the policies are on disk.
Started(policies) ==
              [up |-> TRUE,
               conns |-> <<>>,             \* connections: index = address
               senders |-> <<>>, receivers |-> <<>>, \* registry of the transport, in order
               lsts |-> <<>>, listeners |-> <<>>,    \* TCP listeners and their registry
               worker |-> [w \in Names |-> <<None>>],
               outlets |-> <<>>,           \* registry.outlets: <<alias, worker>>
               scl |-> {},                 \* registry.secure_channel_listeners
               policy |-> policies,
               consumers |-> {}]

Init ==
    /\ node = Started([r \in Resources |-> <<None>>])
    /\ client = [c \in Clients |-> [todo |-> <<>>, cmd |-> <<None>>, saw |-> FALSE, out |-> "ok"]]
    /\ commands = 0 /\ stops = 0

Ok(n) == {[n |-> n, out |-> "ok", saw |-> FALSE]}
Error(n) == {[n |-> n, out |-> "error", saw |-> FALSE]}
Saw(n, b) == {[n |-> n, out |-> "ok", saw |-> b]}

----------------------------------------------------------------------------
(* The TCP transport. *)
Found(s, P(_)) == SelectInSeq(s, P) \* position of the first, 0 if none

\* resolve_peer: `find` consumes the iterator, so the second search starts
\* where the first has stopped.
ResolvePeer(addrs) ==
    LET V4(x) == x[1] = "ip4"
        V6(x) == x[1] = "ip6"
        i == Found(addrs, V4)
        rest == IF i = 0 THEN <<>> ELSE SubSeq(addrs, i + 1, Len(addrs))
    IN  IF i # 0 THEN addrs[i][2]
        ELSE IF Found(rest, V6) # 0 THEN rest[Found(rest, V6)][2] ELSE None

\* TcpSendWorker::start, TcpRecvProcessor::start: each adds itself to the registry.
StartConnection(n, sock, mode, parent) ==
    LET i == Len(n.conns) + 1
    IN  [n EXCEPT !.conns = Append(@, [sock |-> sock, mode |-> mode, parent |-> parent,
                                       snd |-> "up", rcv |-> "up"]),
                  !.senders = Append(@, i), !.receivers = Append(@, i)]

Without(s, i) == SelectSeq(s, LAMBDA x : x # i)

\* TcpSendWorker::shutdown stops the receiver (rx_should_be_stopped).
SenderShutdown(n, i) ==
    [n EXCEPT !.senders = Without(@, i),
              !.conns[i].snd = "down",
              !.conns[i].rcv = IF @ = "up" THEN "stopping" ELSE @]

ReceiverShutdown(n, i) == [n EXCEPT !.receivers = Without(@, i), !.conns[i].rcv = "down"]

\* The peer closes the connection: the receiver tells the sender.
ReceiverEnds(n, i) ==
    [ReceiverShutdown(n, i) EXCEPT !.conns[i].snd = IF @ = "up" THEN "stopping" ELSE @]

Accept(n, l, sock) == StartConnection(n, sock, "incoming", l)


ListenerShutdown(n, l) ==
    [n EXCEPT !.listeners = Without(@, l), !.lsts[l].st = "down"]

\* Context::stop_worker on the address of a sender.
Disconnect(n, i) ==
    IF n.conns[i].snd = "down" THEN Error(n)
    ELSE Ok([n EXCEPT !.conns[i].snd = "stopping"])

----------------------------------------------------------------------------
(* Requests on TCP connections and listeners (transport.rs).  Hop workers  *)
(* are not modelled.                                                       *)
CreateTcpConnection(n, host) ==
    LET sock == ResolvePeer(Lookup[host])
    IN  IF sock = None THEN {[n |-> n, out |-> "unresolved", saw |-> FALSE]}
        ELSE Error(n) \cup IF Len(n.conns) = MaxConns THEN {}
                           ELSE Ok(StartConnection(n, sock, "outgoing", 0))

\* The first connection with that socket address.
SenderAt(n, sock) ==
    LET P(i) == n.conns[i].sock = sock
    IN  Found(n.senders, P)

\* The address of a receiver stands for its sender, if the receiver still runs.
FindConnection(n, what) ==
    IF what[1] = "socket"
    THEN LET k == SenderAt(n, what[2]) IN IF k = 0 THEN 0 ELSE n.senders[k]
    ELSE LET i == what[2]
         IN  IF i \in 1..Len(n.conns) /\ i \in Range(n.senders)
                /\ (what[1] = "receiver" => i \in Range(n.receivers))
             THEN i ELSE 0

GetTcpConnection(n, what) == IF FindConnection(n, what) = 0 THEN Error(n) ELSE Ok(n)

\* By socket address through the registry, by worker address directly.
DeleteTcpConnection(n, what) ==
    IF what[1] = "socket"
    THEN LET k == SenderAt(n, what[2])
         IN  IF k = 0 THEN Error(n) ELSE Disconnect(n, n.senders[k])
    ELSE IF what[2] \in 1..Len(n.conns) THEN Disconnect(n, what[2]) ELSE Error(n)

Bound(n, sock) == \E l \in 1..Len(n.lsts) : n.lsts[l].sock = sock /\ n.lsts[l].st # "down"

CreateTcpListener(n, sock) ==
    IF Bound(n, sock) \/ Len(n.lsts) = MaxConns THEN Error(n)
    ELSE LET l == Len(n.lsts) + 1
         IN  Ok([n EXCEPT !.lsts = Append(@, [sock |-> sock, st |-> "up"]),
                          !.listeners = Append(@, l)])

ListenerAt(n, sock) ==
    LET P(l) == n.lsts[l].sock = sock IN Found(n.listeners, P)

GetTcpListener(n, sock) == IF ListenerAt(n, sock) = 0 THEN Error(n) ELSE Ok(n)

\* stop_processor: the record is gone at once, so a second stop is an error.
DeleteTcpListener(n, sock) ==
    LET k == ListenerAt(n, sock)
    IN  IF k = 0 \/ n.lsts[n.listeners[k]].st # "up" THEN Error(n)
        ELSE Ok([n EXCEPT !.lsts[n.listeners[k]].st = "stopping"])

----------------------------------------------------------------------------
(* Policies (policy.rs).                                                   *)
AddPolicy(n, r, expr) == [n EXCEPT !.policy[r] = expr]
DelPolicy(n, r) == [n EXCEPT !.policy[r] = <<None>>]
HasPolicy(n, r) == n.policy[r] # <<None>>

\* PolicyAccessControl::is_authorized, which reads the policy on each message;
\* the subject is a member of the project or a stranger.
Allows(n, r, subject) ==
    LET e == n.policy[r]
    IN  CASE e[1] = "none" -> FALSE
          [] e[1] = "bool" -> e[2]
          [] OTHER -> subject = e[1]


\* NodeManager::access_control: a default policy where there is none.
AccessControl(n, r) ==
    IF ~Checked THEN <<n, None>>
    ELSE IF HasPolicy(n, r) THEN <<n, r>>
    ELSE <<AddPolicy(n, r, <<"project">>), r>>

----------------------------------------------------------------------------
(* Outlets (portals.rs).                                                   *)
Outlet(n, alias) ==
    LET P(o) == o[1] = alias IN Found(n.outlets, P)

\* The alias the request gets: its own, or one that is not in use.
AliasOf(n, alias) == IF alias = NoAlias THEN <<"random", Len(n.outlets)>> ELSE <<alias>>

\* create_outlet: the flow controls and the policy are set up before the
\* worker is started, which fails when its address is taken.
CreateOutlet(n, alias, w) ==
    LET r == IF alias = NoAlias THEN "tcp-outlet" ELSE alias
        guard == AccessControl(n, r)
        reach == (IF Checked THEN {} ELSE {<<w, Api>>})
                 \cup (IF <<"scl", "up", None>> = n.worker["api"] THEN {<<w, Spawned("api")>>} ELSE {})
        m == [guard[1] EXCEPT !.consumers = @ \cup reach]
    IN  IF Outlet(n, AliasOf(n, alias)) # 0 THEN Error(n)
        ELSE IF Checked /\ ~HasTrust THEN Error(n)
        ELSE IF n.worker[w] # <<None>> THEN Error(m)
        ELSE Ok([m EXCEPT !.worker[w] = <<"outlet", "up", guard[2]>>,
                          !.outlets = Append(@, <<AliasOf(n, alias), w>>)])

\* delete_outlet: the entry is removed, then the worker is stopped.
DeleteOutlet(n, alias) ==
    LET k == Outlet(n, <<alias>>)
        w == n.outlets[k][2]
        m == [n EXCEPT !.outlets = Without(@, n.outlets[k])]
    IN  IF k = 0 THEN Error(n)
        ELSE IF n.worker[w] = <<None>> THEN Error(m)
        ELSE Ok([m EXCEPT !.worker[w] = [@ EXCEPT ![2] = "stopping"]])

ShowOutlet(n, alias) == IF Outlet(n, <<alias>>) = 0 THEN Error(n) ELSE Ok(n)

----------------------------------------------------------------------------
(* Secure channel listeners (secure_channel.rs).                           *)
CreateSecureChannelListener(n, w) ==
    LET m == [n EXCEPT !.consumers = @ \cup {<<w, Api>>}]
    IN  IF n.worker[w] # <<None>> THEN Error(m)
        ELSE Ok([m EXCEPT !.worker[w] = <<"scl", "up", None>>,
                          !.scl = @ \cup {w}])

\* delete_secure_channel_listener_impl removes the entry of the registry only.
DeleteSecureChannelListener(n, w) ==
    IF w \in n.scl THEN Ok([n EXCEPT !.scl = @ \ {w}]) ELSE Error(n)

ShowSecureChannelListener(n, w) == IF w \in n.scl THEN Ok(n) ELSE Error(n)

----------------------------------------------------------------------------
(* handle_request.                                                         *)
Handle(n, q, saw) ==
    CASE q[1] = "confirm"        -> Ok(n) \cup {[n |-> n, out |-> "declined", saw |-> FALSE]}
      [] ~n.up                   -> Error(n)
      [] q[1] \in {"running", "list", "listListeners", "listOutlets", "scList"} -> Ok(n)
      [] q[1] = "connect"        -> CreateTcpConnection(n, q[2])
      [] q[1] = "show"           -> GetTcpConnection(n, q[2])
      [] q[1] = "disconnect"     -> DeleteTcpConnection(n, q[2])
      [] q[1] = "listen"         -> CreateTcpListener(n, q[2])
      [] q[1] = "showListener"   -> GetTcpListener(n, q[2])
      [] q[1] = "unlisten"       -> DeleteTcpListener(n, q[2])
      [] q[1] = "outlet"         -> CreateOutlet(n, q[2], q[3])
      [] q[1] = "deleteOutlet"   -> DeleteOutlet(n, q[2])
      [] q[1] = "showOutlet"     -> ShowOutlet(n, q[2])
      [] q[1] = "scListen"       -> CreateSecureChannelListener(n, q[2])
      [] q[1] = "scDelete"       -> DeleteSecureChannelListener(n, q[2])
      [] q[1] = "scShow"         -> ShowSecureChannelListener(n, q[2])
      [] q[1] = "policy"         -> Ok(AddPolicy(n, q[2], q[3]))
      [] q[1] = "deletePolicy"   -> Ok(DelPolicy(n, q[2]))
      [] q[1] = "hasPolicy"      -> Saw(n, HasPolicy(n, q[2]))
      [] q[1] = "defaultPolicy"  -> IF saw THEN Ok(n) ELSE Ok(AddPolicy(n, q[2], <<"project">>))

\* `ockam tcp-outlet create`: a default policy for "tcp-outlet", if the node
\* has a project and no such policy, then the outlet.
OutletCommand(cmd) ==
    (IF Project THEN << <<"hasPolicy", "tcp-outlet">>, <<"defaultPolicy", "tcp-outlet">> >> ELSE <<>>)
    \o << cmd >>

\* Deletions ask the user first, lists look whether the node runs, the other
\* commands are one request.
Confirmed(cmd) == << <<"confirm">>, cmd >>
WhileRunning(cmd) == << <<"running">>, cmd >>

ConnectionCreate(cmd) == <<cmd>>
ConnectionDelete(cmd) == Confirmed(cmd)
ConnectionShow(cmd) == <<cmd>>
ConnectionList(cmd) == WhileRunning(cmd)
ListenerCreate(cmd) == <<cmd>>
ListenerDelete(cmd) == Confirmed(cmd)
ListenerShow(cmd) == <<cmd>>
ListenerList(cmd) == WhileRunning(cmd)
OutletDelete(cmd) == Confirmed(cmd)
OutletShow(cmd) == <<cmd>>
OutletList(cmd) == WhileRunning(cmd)
SecureChannelListenerCreate(cmd) == <<cmd>>
SecureChannelListenerDelete(cmd) == Confirmed(cmd)
SecureChannelListenerShow(cmd) == <<cmd>>
SecureChannelListenerList(cmd) == WhileRunning(cmd)
PolicyCreate(cmd) == <<cmd>>
PolicyDelete(cmd) == Confirmed(cmd)
PolicyList(cmd) == WhileRunning(cmd)

Requests(cmd) ==
    CASE cmd[1] = "outlet"         -> OutletCommand(cmd)
      [] cmd[1] = "connect"        -> ConnectionCreate(cmd)
      [] cmd[1] = "disconnect"     -> ConnectionDelete(cmd)
      [] cmd[1] = "show"           -> ConnectionShow(cmd)
      [] cmd[1] = "list"           -> ConnectionList(cmd)
      [] cmd[1] = "listen"         -> ListenerCreate(cmd)
      [] cmd[1] = "unlisten"       -> ListenerDelete(cmd)
      [] cmd[1] = "showListener"   -> ListenerShow(cmd)
      [] cmd[1] = "listListeners"  -> ListenerList(cmd)
      [] cmd[1] = "deleteOutlet"   -> OutletDelete(cmd)
      [] cmd[1] = "showOutlet"     -> OutletShow(cmd)
      [] cmd[1] = "listOutlets"    -> OutletList(cmd)
      [] cmd[1] = "scListen"       -> SecureChannelListenerCreate(cmd)
      [] cmd[1] = "scDelete"       -> SecureChannelListenerDelete(cmd)
      [] cmd[1] = "scShow"         -> SecureChannelListenerShow(cmd)
      [] cmd[1] = "scList"         -> SecureChannelListenerList(cmd)
      [] cmd[1] = "policy"         -> PolicyCreate(cmd)
      [] cmd[1] = "deletePolicy"   -> PolicyDelete(cmd)
      [] cmd[1] = "hasPolicy"      -> PolicyList(cmd)

RunCommand(c, cmd) ==
    /\ client[c].todo = <<>> /\ commands < MaxCommands
    /\ client' = [client EXCEPT ![c] = [todo |-> Requests(cmd), cmd |-> cmd, saw |-> FALSE, out |-> "ok"]]
    /\ commands' = commands + 1
    /\ UNCHANGED <<node, stops>>

\* One request and its answer; an error ends the command.
Request(c) ==
    /\ client[c].todo # <<>>
    /\ \E o \in Handle(node, Head(client[c].todo), client[c].saw) :
          /\ node' = o.n
          /\ client' = [client EXCEPT ![c].todo = IF o.out = "ok" THEN Tail(@) ELSE <<>>,
                                      ![c].saw = o.saw, ![c].out = o.out]
    /\ UNCHANGED <<commands, stops>>

\* The workers of the node.
Work ==
    /\ \/ \E i \in 1..Len(node.conns) :
            \/ /\ node.conns[i].snd = "stopping" /\ node' = SenderShutdown(node, i)
            \/ /\ node.conns[i].rcv = "stopping" /\ node' = ReceiverShutdown(node, i)
       \/ \E l \in 1..Len(node.lsts) :
            node.lsts[l].st = "stopping" /\ node' = ListenerShutdown(node, l)
       \/ \E w \in Names :
            node.worker[w][1] # None /\ node.worker[w][2] = "stopping"
            /\ node' = [node EXCEPT !.worker[w] = <<None>>]
    /\ UNCHANGED <<client, commands, stops>>

\* The peers.
Remote ==
    /\ \/ \E i \in 1..Len(node.conns) :
            node.conns[i].rcv = "up" /\ node' = ReceiverEnds(node, i)
       \/ \E l \in 1..Len(node.lsts), p \in Remotes :
            /\ node.lsts[l].st = "up" /\ Len(node.conns) < MaxConns
            /\ node' = Accept(node, l, p)
    /\ UNCHANGED <<client, commands, stops>>

\* The node's process ends, and is started again.
StopNode ==
    /\ node.up /\ stops < MaxStops
    /\ node' = [Started(node.policy) EXCEPT !.up = FALSE]
    /\ stops' = stops + 1
    /\ UNCHANGED <<client, commands>>

StartNode ==
    /\ ~node.up
    /\ node' = Started(node.policy)
    /\ UNCHANGED <<client, commands, stops>>

Next == (\E c \in Clients : (\E cmd \in Commands : RunCommand(c, cmd)) \/ Request(c)) \/ Work \/ Remote
        \/ StopNode \/ StartNode
Spec == Init /\ [][Next]_vars /\ WF_vars(Work) /\ \A c \in Clients : WF_vars(Request(c))

----------------------------------------------------------------------------
Status == {"up", "stopping", "down"}

\* Connections and listeners are in the states of their workers, the registry
\* holds outlets of known addresses.
TypeOK ==
    /\ \A i \in 1..Len(node.conns) : {node.conns[i].snd, node.conns[i].rcv} \subseteq Status
    /\ \A l \in 1..Len(node.lsts) : node.lsts[l].st \in Status
    /\ \A k \in 1..Len(node.outlets) : node.outlets[k][2] \in Names
    /\ node.scl \subseteq Names
    /\ \A c \in Clients : client[c].out \in {"ok", "error", "declined", "unresolved"}

\* The registry of the transport (InternalRegistry) lists each sender,
\* receiver and listener that has not ended, once and no other, whichever of
\* the peer, a command or the other half ended it.
RegistryTrue ==
    LET Lists(s, S) == Range(s) = S /\ Len(s) = Cardinality(S)
    IN  /\ Lists(node.senders, {i \in 1..Len(node.conns) : node.conns[i].snd # "down"})
        /\ Lists(node.receivers, {i \in 1..Len(node.conns) : node.conns[i].rcv # "down"})
        /\ Lists(node.listeners, {l \in 1..Len(node.lsts) : node.lsts[l].st # "down"})

\* A connection that delete_tcp_connection stops, or that its peer closes, ends
\* with both its workers and leaves the registry.
Ending(i) == i \in 1..Len(node.conns) /\ (node.conns[i].snd = "stopping" \/ node.conns[i].rcv = "stopping")
Unlisted(i) == i \notin Range(node.senders) \cup Range(node.receivers)
ConnectionEnds == \A i \in 1..MaxConns : Ending(i) ~> Unlisted(i)

\* A running outlet worker is in registry.outlets under exactly one alias, and
\* each entry has its worker: create_outlet registers after the start and
\* delete_outlet removes before the stop.
OutletsListed ==
    /\ \A w \in Names : (node.worker[w][1] = "outlet" /\ node.worker[w][2] = "up")
                        => Cardinality({k \in 1..Len(node.outlets) : node.outlets[k][2] = w}) = 1
    /\ \A k \in 1..Len(node.outlets) : node.worker[node.outlets[k][2]][1] = "outlet"
    /\ \A j, k \in 1..Len(node.outlets) : node.outlets[j][1] = node.outlets[k][1] => j = k

\* Creating an outlet on a node with credential checks leaves a policy for the
\* outlet's resource, and never replaces one that was there (access_control).
GuardKeptStep ==
  \A w \in Names :
  (node.worker[w] = <<None>> /\ node'.worker[w] # <<None>> /\ node'.worker[w][1] = "outlet" /\ Checked)
  => LET r == node'.worker[w][3]
  IN  /\ node'.policy[r] # <<None>>
 /\ HasPolicy(node, r) => node'.policy[r] = node.policy[r]
GuardKept == [][GuardKeptStep]_vars

\* On a node with credential checks no message of a stranger enters an outlet,
\* whatever policies are deleted or replaced meanwhile, unless a policy that
\* somebody has set for the outlet's resource lets everyone in.
OnlyMembersEnter == Checked =>
    \A w \in Names : (node.worker[w][1] = "outlet" /\ node.worker[w][2] = "up") =>
        /\ node.worker[w][3] \in Resources
        /\ Allows(node, node.worker[w][3], "stranger") => node.policy[node.worker[w][3]] = <<"bool", TRUE>>

\* A policy somebody has set is only replaced by another `policy create` or by
\* a tcp-outlet command that looked before it was set (has_policy and
\* add_default_project_policy are two requests).
PolicyReplacedOnlyByRaceStep ==
  \A r \in Resources :
  (HasPolicy(node, r) /\ node'.policy[r] # node.policy[r])
  => \E c \in Clients : /\ client[c].todo # <<>>
 /\ \/ Head(client[c].todo)[1] \in {"policy", "deletePolicy"}
    \/ Head(client[c].todo)[1] = "defaultPolicy" /\ ~client[c].saw
PolicyReplacedOnlyByRace == [][PolicyReplacedOnlyByRaceStep]_vars

\* Every command ends: no request waits for another.
Busy(c) == client[c].todo # <<>>
CommandsEnd == \A c \in Clients : Busy(c) ~> ~Busy(c)

\* resolve_peer prefers IPv4 and otherwise takes an IPv6 address: a command
\* fails to resolve only a host without addresses.
HostResolves == \A c \in Clients :
    client[c].out = "unresolved" => Lookup[client[c].cmd[2]] = <<>>
=============================================================================
