---------------------------- MODULE Connections ----------------------------
(***************************************************************************)
(* How a node turns a multi-address into a connection.  A command of the  *)
(* command line replaces the nodes and projects of its address            *)
(* (clean_nodes_multiaddr, clean_projects_multiaddr) and asks the node    *)
(* manager for a secure channel or to send a message.  The node manager   *)
(* worker serves one request at a time; the sessions of inlets and        *)
(* forwarders call NodeManager::connect concurrently with it.  A          *)
(* connection is built by three instantiators, run in order over the      *)
(* address: /project, /dnsaddr/tcp and /secure.  Each replaces what it    *)
(* matches by the worker it opened.                                       *)
(***************************************************************************)
EXTENDS SequencesExt, FiniteSetsExt

CONSTANTS
  Commands,     \* [client -> set of commands it may be run with]
  Sessions,     \* [session -> set of addresses it may connect to]
  NodeHost,     \* [node of the CLI state -> host]: its API transport
  ProjectRoute, \* [project of the CLI state -> node_route]
  ProjectId,    \* [project -> identity]
  Ids,          \* the identities a listener may answer with
  Checks,       \* enable_credential_checks
  HasTrust,     \* the node has a trust context
  Names,        \* names of the workers the node starts, in order
  MaxStops      \* bound on the workers that stop on their own

VARIABLES
  node,   \* [made, tcp, chan, live, reg, stops, panicked]: workers of the node
  job,    \* connections being built, by the worker and by the sessions
  cmd     \* the commands

vars == <<node, job, cmd>>

None == "none"
Worker == "worker"
Clients == DOMAIN Commands
Jobs == {Worker} \union DOMAIN Sessions

Kind(piece) == piece[1]
Value(piece) == piece[2]
Service(a) == <<"service", a>>
LocalKinds == {"worker", "service", "secure"}

Idle == [phase |-> "idle", kind |-> None, from |-> None, addr |-> <<>>,
         auth |-> {None}, mode |-> None, cred |-> FALSE, start |-> 1,
         cur |-> <<>>, route |-> <<>>, encs |-> <<>>, conn |-> None,
         fc |-> None, opened |-> {}]

NoCommand == [pc |-> "idle", what |-> None, to |-> <<>>, left |-> <<>>,
              scs |-> <<>>, ask |-> <<>>, via |-> <<>>]

Init ==
  /\ node = [made |-> 0, tcp |-> <<>>, chan |-> <<>>, live |-> {}, reg |-> {},
             stops |-> 0, panicked |-> FALSE]
  /\ job = [j \in Jobs |-> Idle]
  /\ cmd = [c \in Clients |-> NoCommand]

-----------------------------------------------------------------------------
(* Workers of the node                                                     *)

NewName(n) == Names[n.made + 1]

\* TcpTransport::connect: a sender worker for the host, or an error.
TcpConnect(n, h) ==
  {[n EXCEPT !.made = @ + 1, !.tcp = (NewName(n) :> h) @@ @,
             !.live = @ \union {NewName(n)}], n}

\* The pieces of an address that open a TCP connection in multiaddr_to_route.
TcpHops(ma) == {i \in 1..(Len(ma) - 1) : Kind(ma[i]) = "dns" /\ Kind(ma[i + 1]) = "tcp"}

\* A /tcp that follows no host, a /project or a /node is unsupported; a host
\* without a /tcp is skipped.
Supported(ma) ==
  \A i \in 1..Len(ma) : \/ Kind(ma[i]) \in LocalKinds \union {"dns"}
                        \/ i - 1 \in TcpHops(ma)

RouteWith(ma, w) ==
  FlattenSeq([i \in 1..Len(ma) |->
    CASE Kind(ma[i]) \in LocalKinds -> <<Value(ma[i])>>
      [] i \in TcpHops(ma)          -> <<w>>
      [] OTHER                      -> <<>>])

\* multiaddr_to_route: at most one TCP hop; what is wrong after the hop is
\* found out after the connection was opened.
MultiaddrToRoute(n, ma) ==
  IF TcpHops(ma) = {}
  THEN {[n |-> n, ok |-> Supported(ma), route |-> RouteWith(ma, None), conn |-> None]}
  ELSE {[n |-> m, ok |-> m # n /\ Supported(ma) /\ Cardinality(TcpHops(ma)) = 1,
         route |-> RouteWith(ma, NewName(n)),
         conn |-> IF m = n THEN None ELSE NewName(n)] :
          m \in TcpConnect(n, Value(ma[Min(TcpHops(ma))]))}

\* local_multiaddr_to_route: only local workers are expected; a host or a node
\* is unreachable!(), any other protocol an error.  The first such piece decides.
LocalRoute(ma) ==
  LET bad == {i \in 1..Len(ma) : Kind(ma[i]) \notin LocalKinds} IN
  IF bad = {} THEN [out |-> "ok", route |-> RouteWith(ma, None)]
  ELSE [out |-> IF Kind(ma[Min(bad)]) \in {"dns", "node"} THEN "panic" ELSE "error",
        route |-> <<>>]

\* create_secure_channel_impl and create_secure_channel_internal: the mode of
\* the credential exchange, the credential, the handshake, the registry.
CreateSecureChannelImpl(n, route, auth, mode, given) ==
  LET actual == IF Checks \/ given THEN mode ELSE "none"
      needsAuthority == actual # "none" /\ ~given
      cred == IF actual = "none" THEN "none" ELSE IF given THEN "given" ELSE "authority"
      created(peer) ==
        [n EXCEPT !.made = @ + 1,
                  !.chan = (NewName(n) :> [route |-> route, auth |-> auth,
                                           peer |-> peer, cred |-> cred]) @@ @,
                  !.live = @ \union {NewName(n)}, !.reg = @ \union {NewName(n)}]
      reaches == route # <<>> /\ (route[1] \in Range(Names) => route[1] \in n.live)
  IN {[n |-> n, enc |-> None]} \union
     IF (needsAuthority /\ ~HasTrust) \/ ~reaches THEN {}
     ELSE {[n |-> created(peer), enc |-> NewName(n)] :
             peer \in {i \in Ids : auth # {None} => i \in auth}}

-----------------------------------------------------------------------------
(* ConnectionInstanceBuilder                                               *)

Phases == <<"project", "dns", "secure", "use">>
NextPhase == [project |-> "dns", dns |-> "secure", secure |-> "use"]

\* MultiAddr::matches with the codes of the instantiator of the phase.
Matches(ma, i, phase) ==
  /\ Kind(ma[i]) = phase
  /\ phase = "dns" => i < Len(ma) /\ Kind(ma[i + 1]) = "tcp"

\* MultiAddr::split and ConnectionInstanceBuilder::extract
Before(ma, i) == SubSeq(ma, 1, i - 1)
After(ma, i, length) == SubSeq(ma, i + length, Len(ma))

\* recalculate_transport_route: every service is a transport, but on the last
\* pass the final one, unless it is a channel just created.
TransportRoute(j, ma, lastPass) ==
  FlattenSeq([i \in 1..Len(ma) |->
    IF /\ Kind(ma[i]) = "service"
       /\ lastPass /\ i = Len(ma) => Value(ma[i]) \in Range(j.encs)
    THEN <<Value(ma[i])>> ELSE <<>>])

Opened(n, m) == (DOMAIN m.tcp \ DOMAIN n.tcp) \union (DOMAIN m.chan \ DOMAIN n.chan)

\* The changes an instantiator returns, written to the builder.
Changed(j, n, m, i, cur, enc, conn, fc) ==
  [n |-> m,
   j |-> IF conn # None /\ j.conn # None
         THEN [j EXCEPT !.phase = "failed", !.opened = @ \union Opened(n, m)]
         ELSE [j EXCEPT !.cur = cur, !.start = i + 1, !.fc = fc,
                        !.encs = IF enc = None THEN @ ELSE Append(@, enc),
                        !.conn = IF conn = None THEN @ ELSE conn,
                        !.opened = @ \union Opened(n, m)]]

FailedWith(j, n, m) ==
  [n |-> m, j |-> [j EXCEPT !.phase = "failed", !.opened = @ \union Opened(n, m)]]

PlainTcpInstantiator(n, j, i) ==
  {IF r.ok THEN Changed(j, n, r.n, i,
                        Before(j.cur, i) \o <<Service(r.conn)>> \o After(j.cur, i, 2),
                        None, r.conn, r.conn)
   ELSE FailedWith(j, n, r.n) :
     r \in MultiaddrToRoute(n, SubSeq(j.cur, i, i + 1))}

\* The transport route is the part of the address before the match; what lies
\* before the channel is implicit in it afterwards.
SecureChannelInstantiator(n, j, i) ==
  {IF r.enc # None
   THEN Changed(j, n, r.n, i, <<Service(r.enc)>> \o After(j.cur, i, 1), r.enc, None, r.enc)
   ELSE FailedWith(j, n, r.n) :
     r \in CreateSecureChannelImpl(n,
             TransportRoute(j, Before(j.cur, i), FALSE) \o <<Value(j.cur[i])>>,
             j.auth, "mutual", FALSE)}

\* resolve_project, then a TCP connection and a secure channel to its node.
ProjectInstantiator(n, j, i) ==
  IF Value(j.cur[i]) \notin DOMAIN ProjectRoute THEN {FailedWith(j, n, n)}
  ELSE UNION {IF ~t.ok THEN {FailedWith(j, n, t.n)}
              ELSE {IF r.enc # None
                    THEN Changed(j, n, r.n, i, <<Service(r.enc)>> \o After(j.cur, i, 1),
                                 r.enc, t.conn, r.enc)
                    ELSE FailedWith(j, n, r.n) :
                      r \in CreateSecureChannelImpl(t.n, t.route,
                              {ProjectId[Value(j.cur[i])]}, "oneway", FALSE)} :
                t \in MultiaddrToRoute(n, ProjectRoute[Value(j.cur[i])])}

\* ConnectionInstanceBuilder::instantiate: the scan goes on from the position
\* after the match, counted in the address the instantiator left behind.  Its
\* bound is the length of the address in bytes, never below the pieces of it.
InstantiateOutcomes(n, j) ==
  LET found == {i \in j.start..Len(j.cur) : Matches(j.cur, i, j.phase)}
      i == Min(found)
  IN IF found = {}
     THEN {[n |-> n, j |-> [j EXCEPT !.phase = NextPhase[@], !.start = 1,
                                     !.route = TransportRoute(j, j.cur, TRUE)]]}
     ELSE CASE j.phase = "project" -> ProjectInstantiator(n, j, i)
            [] j.phase = "dns"     -> PlainTcpInstantiator(n, j, i)
            [] j.phase = "secure"  -> SecureChannelInstantiator(n, j, i)

\* NodeManager::connect, one match at a time: the node manager's lock is taken
\* for each of them and released in between.
Connect(w) ==
  /\ job[w].phase \in {"project", "dns", "secure"}
  /\ ~node.panicked \/ w # Worker
  /\ \E o \in InstantiateOutcomes(node, job[w]) :
       node' = o.n /\ job' = [job EXCEPT ![w] = o.j]
  /\ UNCHANGED cmd

-----------------------------------------------------------------------------
(* The requests                                                            *)

NewJob(kind, from, addr, auth, mode, cred) ==
  [Idle EXCEPT !.phase = "project", !.kind = kind, !.from = from, !.addr = addr,
               !.auth = auth, !.mode = mode, !.cred = cred, !.cur = addr]

\* The worker takes the next request; its replies are one message each.
Serve(c) ==
  /\ cmd[c].pc = "asked" /\ job[Worker].phase = "idle" /\ ~node.panicked
  /\ LET a == cmd[c].ask
         auth == IF a.kind = "message" THEN {None} ELSE a.auth
     IN job' = [job EXCEPT ![Worker] =
          IF a.kind = "delete" THEN [Idle EXCEPT !.phase = "use", !.kind = "delete",
                                                 !.from = c, !.addr = a.addr]
          ELSE NewJob(a.kind, c, a.addr, auth, a.mode, a.cred)]
  /\ cmd' = [cmd EXCEPT ![c].pc = "served"]
  /\ UNCHANGED node

\* A session's replacer connects again on its own task.
SessionConnect(s) ==
  /\ job[s].phase = "idle"
  /\ \E a \in Sessions[s] :
       job' = [job EXCEPT ![s] = NewJob("session", None, a, {None}, "mutual", FALSE)]
  /\ UNCHANGED <<node, cmd>>

\* The answer reaches a client that still waits for it.
Answered(c, ok, enc, via) ==
  IF c \notin Clients \/ cmd[c].pc # "served" THEN cmd
  ELSE [cmd EXCEPT ![c] =
         IF ~ok THEN [@ EXCEPT !.pc = "failed"]
         ELSE IF @.left # <<>>
         THEN [@ EXCEPT !.pc = "clean", !.left = Tail(@), !.scs = Append(@, enc)]
         ELSE [@ EXCEPT !.pc = "ok", !.via = via]]

\* send_message: the normalised address as a local route, one exchange over it.
SendMessage ==
  /\ job[Worker].phase = "use" /\ job[Worker].kind = "message" /\ ~node.panicked
  /\ LET j == job[Worker]
         l == LocalRoute(j.cur)
         live == l.route # <<>> /\ (l.route[1] \in Range(Names) => l.route[1] \in node.live)
     IN \/ /\ l.out = "panic"
           /\ node' = [node EXCEPT !.panicked = TRUE]
           /\ UNCHANGED <<job, cmd>>
        \/ /\ l.out # "panic"
           /\ \E ok \in {FALSE, l.out = "ok" /\ live} :
                cmd' = Answered(j.from, ok, None, l.route)
           /\ job' = [job EXCEPT ![Worker] = Idle]
           /\ UNCHANGED node

\* create_secure_channel: the connection, then the channel over it.
CreateSecureChannel ==
  /\ job[Worker].phase = "use" /\ job[Worker].kind = "channel" /\ ~node.panicked
  /\ LET j == job[Worker] IN
     \E t \in MultiaddrToRoute(node, j.cur) :
     \E r \in IF t.ok THEN CreateSecureChannelImpl(t.n, t.route, j.auth, j.mode, j.cred)
              ELSE {[n |-> t.n, enc |-> None]} :
       /\ node' = r.n
       /\ cmd' = Answered(j.from, r.enc # None, r.enc, <<r.enc>>)
  /\ job' = [job EXCEPT ![Worker] = Idle]

\* NodeManager::delete_secure_channel: stopping a worker that is gone is an error,
\* and then the registry is left alone.
StopChannel(n, a) ==
  IF a \in n.live THEN [n EXCEPT !.live = @ \ {a}, !.reg = @ \ {a}] ELSE n

\* The response says whether a channel was deleted.
DeleteSecureChannel ==
  /\ job[Worker].phase = "use" /\ job[Worker].kind = "delete"
  /\ LET a == job[Worker].addr[1] IN
     /\ node' = StopChannel(node, a)
     /\ cmd' = Answered(job[Worker].from, a \in node.live, None, <<a>>)
  /\ job' = [job EXCEPT ![Worker] = Idle]

\* A connection that could not be built is answered with an error.
ConnectFailed ==
  /\ job[Worker].phase = "failed"
  /\ cmd' = Answered(job[Worker].from, FALSE, None, <<>>)
  /\ job' = [job EXCEPT ![Worker] = Idle]
  /\ UNCHANGED node

\* A worker of the node stops on its own: its peer went away.
WorkerStops(w) ==
  /\ w \in node.live /\ node.stops < MaxStops
  /\ node' = [node EXCEPT !.live = @ \ {w}, !.stops = @ + 1]
  /\ UNCHANGED <<job, cmd>>

-----------------------------------------------------------------------------
(* The commands                                                            *)

\* clean_nodes_multiaddr and process_nodes_multiaddr: a node is replaced by the
\* address of its API transport.
CleanNodes(ma) ==
  FlattenSeq([i \in 1..Len(ma) |->
    IF Kind(ma[i]) = "node" THEN <<<<"dns", NodeHost[Value(ma[i])]>>, <<"tcp", "port">>>>
    ELSE <<ma[i]>>])

CleanableNodes(ma) ==
  \A i \in 1..Len(ma) :
    Kind(ma[i]) # "space" /\ (Kind(ma[i]) = "node" => Value(ma[i]) \in DOMAIN NodeHost)

\* The projects clean_nodes_multiaddr collects for the lookup, in order.
LookupMeta(ma) ==
  LET ps == SelectSeq(ma, LAMBDA p : Kind(p) = "project") IN
  [i \in 1..Len(ps) |-> Value(ps[i])]

\* clean_projects_multiaddr: the i-th project becomes the i-th channel.
CleanProjects(ma, scs) ==
  [i \in 1..Len(ma) |->
    IF Kind(ma[i]) = "project" THEN Service(scs[Len(LookupMeta(SubSeq(ma, 1, i)))])
    ELSE ma[i]]

\* extract_address_value / parse arguments, then clean the nodes.
RunCommand(c) ==
  /\ cmd[c].pc = "idle"
  /\ \E k \in Commands[c] :
       cmd' = [cmd EXCEPT ![c] =
         [NoCommand EXCEPT !.what = k.what, !.to = k.to,
            !.pc = IF CleanableNodes(k.to) THEN "clean" ELSE "failed",
            !.left = LookupMeta(k.to)]]
  /\ UNCHANGED <<node, job>>


\* get_projects_secure_channels_from_config_lookup: one channel per project,
\* with create_secure_channel_to_project.
OpenProjectChannel(c) ==
  /\ cmd[c].pc = "clean" /\ cmd[c].left # <<>>
  /\ LET p == Head(cmd[c].left) IN
     cmd' = [cmd EXCEPT ![c] =
       IF p \notin DOMAIN ProjectRoute THEN [@ EXCEPT !.pc = "failed"]
       ELSE [@ EXCEPT !.pc = "asked",
               !.ask = [kind |-> "channel", addr |-> ProjectRoute[p],
                        auth |-> {ProjectId[p]}, mode |-> "oneway", cred |-> FALSE]]]
  /\ UNCHANGED <<node, job>>

\* The request of the command: `message send` or `secure-channel create`.
AskNode(c) ==
  /\ cmd[c].pc = "clean" /\ cmd[c].left = <<>> /\ cmd[c].what # "delete"
  /\ \E given \in IF cmd[c].what = "channel" THEN BOOLEAN ELSE {FALSE} :
       cmd' = [cmd EXCEPT ![c].pc = "asked",
         ![c].ask = [kind |-> cmd[c].what,
                     addr |-> CleanProjects(CleanNodes(cmd[c].to), cmd[c].scs),
                     auth |-> {None}, mode |-> "mutual", cred |-> given]]
  /\ UNCHANGED <<node, job>>

\* `secure-channel delete` of a channel the node lists.
AskDelete(c) ==
  /\ cmd[c].pc = "clean" /\ cmd[c].what = "delete"
  /\ \E a \in node.reg :
       cmd' = [cmd EXCEPT ![c].pc = "asked",
         ![c].ask = [kind |-> "delete", addr |-> <<a>>, auth |-> {None},
                     mode |-> "none", cred |-> FALSE]]
  /\ UNCHANGED <<node, job>>

\* The request times out; the node goes on with it.
GiveUp(c) ==
  /\ cmd[c].pc \in {"asked", "served"}
  /\ cmd' = [cmd EXCEPT ![c].pc = "failed"]
  /\ UNCHANGED <<node, job>>

Next ==
  \/ \E w \in Jobs : Connect(w)
  \/ \E c \in Clients : Serve(c)
  \/ \E s \in DOMAIN Sessions : SessionConnect(s)
  \/ SendMessage
  \/ CreateSecureChannel
  \/ DeleteSecureChannel
  \/ ConnectFailed
  \/ \E w \in Range(Names) : WorkerStops(w)
  \/ \E c \in Clients : RunCommand(c)
  \/ \E c \in Clients : OpenProjectChannel(c)
  \/ \E c \in Clients : AskNode(c)
  \/ \E c \in Clients : AskDelete(c)
  \/ \E c \in Clients : GiveUp(c)

Spec == Init /\ [][Next]_vars

-----------------------------------------------------------------------------
\* What a route of the node does: a TCP worker leads to its host, the encryptor
\* of a channel through the route the channel was created over.
RECURSIVE Expand(_, _)
Expand(n, route) ==
  FlattenSeq([i \in 1..Len(route) |->
    CASE route[i] \in DOMAIN n.tcp  -> <<<<"host", n.tcp[route[i]]>>>>
      [] route[i] \in DOMAIN n.chan ->
           LET r == n.chan[route[i]].route IN
           Expand(n, Front(r)) \o <<<<"secure", Last(r)>>>>
      [] OTHER                      -> <<<<"service", route[i]>>>>])

\* What an address means: the hops a message takes, with the channels it is
\* inside of.
RECURSIVE Meaning(_, _)
Meaning(n, ma) ==
  FlattenSeq([i \in 1..Len(ma) |->
    CASE Kind(ma[i]) = "node"    -> <<<<"host", NodeHost[Value(ma[i])]>>>>
      [] Kind(ma[i]) = "dns"     -> <<<<"host", Value(ma[i])>>>>
      [] Kind(ma[i]) = "tcp"     -> <<>>
      [] Kind(ma[i]) = "project" ->
           LET r == ProjectRoute[Value(ma[i])] IN
           Meaning(n, Front(r)) \o <<<<"secure", Value(Last(r))>>>>
      [] Kind(ma[i]) = "secure"  -> <<<<"secure", Value(ma[i])>>>>
      [] OTHER                   -> Expand(n, <<Value(ma[i])>>)])

-----------------------------------------------------------------------------
(* Properties                                                              *)

\* Type invariant: commands, connections under construction and the workers of
\* the node have their shapes, and registered channels are channels.
TypeOK ==
  /\ node.made \in 0..Len(Names) /\ node.stops \in 0..MaxStops /\ node.panicked \in BOOLEAN
  /\ DOMAIN node.tcp \union DOMAIN node.chan = {Names[i] : i \in 1..node.made}
  /\ node.live \subseteq DOMAIN node.tcp \union DOMAIN node.chan
  /\ node.reg \subseteq DOMAIN node.chan
  /\ \A w \in Jobs : job[w].phase \in {"idle", "failed"} \union Range(Phases)
  /\ \A c \in Clients :
       cmd[c].pc \in {"idle", "clean", "asked", "served", "ok", "failed"}

\* Once NodeManager::connect has finished, the normalised address leads where the
\* address it was given says: through the same hosts and services, in the same
\* order, inside a secure channel from each /secure and each /project on.
SamePath ==
  \A w \in Jobs :
    LET j == job[w] IN
    (j.phase = "use" /\ j.kind \in {"session", "message"} /\ LocalRoute(j.cur).out = "ok") =>
      Expand(node, LocalRoute(j.cur).route) = Meaning(node, j.addr)

\* A command that reports success got what its address says: the channel it
\* created, or the route its message took, passes the project or node it named,
\* although the command, the project channels and the final request are separate
\* requests interleaved with those of other commands.
CommandReaches ==
  \A c \in Clients :
    (cmd[c].pc = "ok" /\ cmd[c].what # "delete") =>
      LET path == Expand(node, cmd[c].via)
          want == Meaning(node, cmd[c].to)
      IN IF cmd[c].what = "message" THEN path = want
         ELSE path = Front(want) \o <<<<"secure", Last(want)[2]>>>>

\* A finished connection lists everything that was opened for it: the encryptors
\* and the TCP connection it carries are what a session closes it with.
AllHeld ==
  \A w \in Jobs : job[w].phase = "use" /\ job[w].kind # "delete" =>
    job[w].opened = Range(job[w].encs) \union ({job[w].conn} \ {None})

\* A channel of the node that is alive can be listed and deleted: it is in the
\* registry, whatever request, session or deletion ran in between.
LiveRegistered == node.live \cap DOMAIN node.chan \subseteq node.reg

\* A channel on the way of a command or a session through a project was
\* authenticated against the identity of that project.
ProjectPeer ==
  \A p \in DOMAIN ProjectRoute : \A e \in DOMAIN node.chan :
    Expand(node, <<e>>) = Meaning(node, <<<<"project", p>>>>)
      => node.chan[e].peer = ProjectId[p]

\* A connection belongs to the flow control of what was opened for it last: the
\* consumers NodeManager::connect and a relay add are added for the channel the
\* messages come out of, not for the TCP connection below it.
FlowControlOfLast ==
  \A w \in Jobs : job[w].phase = "use" /\ job[w].opened # {} =>
    job[w].fc = IF job[w].encs # <<>> THEN Last(job[w].encs) ELSE job[w].conn

=============================================================================
