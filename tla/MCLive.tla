------------------------------- MODULE MCLive -------------------------------
(***************************************************************************)
(* What must happen in the end, for small instances of the components of   *)
(* MCNode and MCProtocols.  A behaviour is one of the component that `part` *)
(* names; v1, v2, ... stand for its variables.  Fairness is what the       *)
(* runtime grants to each of them.                                         *)
(***************************************************************************)
EXTENDS Integers, Sequences, FiniteSets, TLC

CONSTANTS Parts,  \* the components of a run
          i1, r1, r2, listener, junk  \* the workers, listener and junk of a handshake

VARIABLES part, v1, v2, v3, v4, v5, v6, v7, v8, v9, v10, v11, v12, v13, v14, v15, v16
vars == <<part, v1, v2, v3, v4, v5, v6, v7, v8, v9, v10, v11, v12, v13, v14, v15, v16>>

\* Hosts that resolve to IPv6 before IPv4, and one that does not resolve.
Lookup == [h1 |-> << <<"ip6", "s6">>, <<"ip4", "s1">> >>, h2 |-> << >>]

TcpCommands == {<<"connect", "h1">>, <<"connect", "h2">>, <<"show", <<"receiver", 1>>>>, <<"show", <<"socket", "s1">>>>,
                <<"disconnect", <<"socket", "s1">>>>, <<"disconnect", <<"sender", 1>>>>,
                <<"listen", "b1">>, <<"unlisten", "b1">>, <<"showListener", "b1">>, <<"list">>, <<"listListeners">>}

ProjectOf(id, name, space) == [id |-> id, name |-> name, space |-> space, ready |-> TRUE]
OneProject == {[spaces |-> <<1>>, projects |-> <<ProjectOf(2, "default", 1)>>, next |-> 3, tickets |-> {}]}
TrustsAlice == [n \in {"alice", "carol", "bob"} |-> IF n = "bob" THEN {"alice"} ELSE {"bob"}]
\* Policies of one operator.
Lit(kind, x) == <<kind, x>>
Ops == {"and", "or", "not", "if", "<", ">", "=", "!=", "member?", "exists?", "what?"}
Few == {Lit("Bool", TRUE), Lit("Bool", FALSE), Lit("Ident", "u")}
Policies == {Lit("List", <<Lit("Ident", op)>> \o a) : op \in Ops, a \in {<<>>} \cup [1..1 -> Few] \cup [1..2 -> Few]}

Plain == [kind |-> "plain", address |-> "a", extra |-> {}, inner |-> "none", given |-> FALSE, authorization |-> <<>>,
          idle |-> 0, restart |-> "transient", setup |-> "ok", forward |-> "none", fails |-> FALSE]
Failing == "w1" :> [Plain EXCEPT !.setup = "error"] @@ "w2" :> [Plain EXCEPT !.address = "b", !.extra = {"a"}]
           @@ "w3" :> [Plain EXCEPT !.address = "b", !.restart = "temporary"]

NodeApiEnds == INSTANCE NodeApi WITH
  Clients <- {"c1", "c2"}, Commands <- TcpCommands, Lookup <- Lookup, Remotes <- {"p"}, Aliases <- {"a"},
  Names <- {"w", "v", "api"}, Checked <- FALSE, HasTrust <- FALSE, Project <- TRUE, MaxConns <- 2, MaxCommands <- 2,
  MaxStops <- 0, node <- v1, client <- v2, commands <- v3, stops <- v4

OrchestratorReturns == INSTANCE Orchestrator WITH
  Procs <- {"p1", "p2"}, Commands <- {"project_show", "project_create", "space_list", "space_delete"},
  Starts <- OneProject, ProjectNames <- {"default"}, MaxRuns <- 2, MaxId <- 4, cloud <- v1, local <- v2, proc <- v3,
  runs <- v4

NodeProcessTerm == INSTANCE NodeProcess WITH
  Users <- {"u1"}, Signals <- {"TERM"}, MaxPid <- 2, MaxCrashes <- 1, MaxCmds <- 4, exists <- v1, pidFile <- v2,
  transport <- v3, st <- v4, port <- v5, held <- v6, cmd <- v7, pids <- v8, crashes <- v9, cmds <- v10

SecureChannelV2Ends == INSTANCE SecureChannelV2 WITH
  Calls <- {"c1"}, Caller <- [c \in {"c1"} |-> "alice"], Server <- "bob", Trusted <- TrustsAlice, Overlap <- FALSE,
  MaxHistory <- 2, MaxLost <- 1, MaxSent <- 0, history <- v1, known <- v2, purpose <- v3, vault <- v4, hs <- v5,
  registry <- v6, encryptor <- v7, create <- v8, net <- v9, lost <- v10, sent <- v11, delivered <- v12

HandshakeOpens == INSTANCE XXHandshake WITH
  Initiators <- {i1}, Responders <- {r1, r2}, FaultKinds <- {"repeat"}, MaxFaults <- 1, Listener <- listener,
  Junk <- junk, hs <- v1, route <- v2, payload <- v3, done <- v4, stopped <- v5, registry <- v6, create <- v7,
  vault <- v8, net <- v9, faults <- v10

CredentialsV2Returns == INSTANCE CredentialsV2 WITH
  Members <- {"m1"}, ServerHasOne <- TRUE, PresentBack <- TRUE, PurposeTtl <- 2, Ttl <- 1, Leeway <- 0, MaxTime <- 1,
  MaxRotations <- 1, MaxPurposeKeys <- 1, now <- v1, history <- v2, known <- v3, madeKeys <- v4, secrets <- v5,
  purpose <- v6, issued <- v7, cache <- v8, call <- v9, attributes <- v10, trusted <- v11, answer <- v12

ForwardingLive == INSTANCE Forwarding WITH
  Aliases <- {"a"}, Kind <- "static", MaxWorkers <- 3, MaxCreates <- 1, MaxBreaks <- 2, MaxData <- 0, MaxDue <- 1,
  MaxFlight <- 2, Deletes <- FALSE, Slow <- FALSE, n <- v1, alias <- v2, worker <- v3, completed <- v4, timer <- v5,
  due <- v6, link <- v7, toHub <- v8, toNode <- v9, wait <- v10, forwarder <- v11, registry <- v12, session <- v13,
  sent <- v14, delivered <- v15, breaks <- v16

PortalCloses == INSTANCE Portal WITH
  MaxChunks <- 1, Resets <- {}, peer <- v1, sent <- v2, read <- v3, received <- v4, worker <- v5, reason <- v6,
  remote <- v7, receiver <- v8, net <- v9, internal <- v10

UdsTransportLive == INSTANCE UdsTransport WITH
  Peers <- {"a"}, Own <- "own", MaxSenders <- 2, MaxRoutes <- 1, MaxBreaks <- 1, map <- v1, snd <- v2,
  listening <- v3, accepted <- v4, unreg <- v5, routed <- v6, breaks <- v7

AbacDecides == INSTANCE AbacEval WITH
  Exprs <- Policies, expr <- v1, ctrl <- v2, args <- v3, result <- v4

ElixirNodeCreate == INSTANCE ElixirNode WITH
  Workers <- {"w1", "w2", "w3"}, Options <- Failing, Senders <- {"s1"}, Metadata <- {"none"}, Messages <- {"a"},
  MaxRestarts <- 2, MaxSends <- 1, MaxTime <- 1, MaxStops <- 1, reg <- v1, wk <- v2, creator <- v3, pend <- v4,
  restarts <- v5, handled <- v6, now <- v7, sends <- v8, stops <- v9

StreamLive == INSTANCE Stream WITH
  MaxApp <- 3, MaxCrashes <- 1, MaxLost <- 0, Limit <- 2, Junk <- {2}, created <- v1, storage <- v2, shards <- v3,
  app <- v4, ready <- v5, outbox <- v6, toStream <- v7, initReply <- v8, idx <- v9, timer <- v10, requests <- v11,
  saves <- v12, replies <- v13, delivered <- v14, crashes <- v15, lost <- v16

ElixirSessionLive == INSTANCE ElixirSession WITH
  MaxRuns <- 2, MaxData <- 1, MaxLost <- 0, Pipes <- FALSE, run <- v1, stage <- v2, options <- v3, receivers <- v4,
  toSpawner <- v5, link <- v6, sent <- v7, handled <- v8, waiter <- v9, lost <- v10

\* Variables that a component does not have.
Unused12 == v13 = 0 /\ v14 = 0 /\ v15 = 0 /\ v16 = 0
Unused10 == v11 = 0 /\ v12 = 0 /\ v13 = 0 /\ v14 = 0 /\ v15 = 0 /\ v16 = 0
Unused9 == v10 = 0 /\ v11 = 0 /\ v12 = 0 /\ v13 = 0 /\ v14 = 0 /\ v15 = 0 /\ v16 = 0
Unused7 == v8 = 0 /\ v9 = 0 /\ v10 = 0 /\ v11 = 0 /\ v12 = 0 /\ v13 = 0 /\ v14 = 0 /\ v15 = 0 /\ v16 = 0
Unused4 == v5 = 0 /\ v6 = 0 /\ v7 = 0 /\ v8 = 0 /\ v9 = 0 /\ v10 = 0 /\ v11 = 0 /\ v12 = 0 /\ v13 = 0 /\ v14 = 0 /\ v15 = 0 /\ v16 = 0

Init ==
  /\ part \in Parts
  /\ \/ part = "NodeApiEnds" /\ NodeApiEnds!Init /\ Unused4
     \/ part = "OrchestratorReturns" /\ OrchestratorReturns!Init /\ Unused4
     \/ part = "NodeProcessTerm" /\ NodeProcessTerm!Init /\ Unused10
     \/ part = "SecureChannelV2Ends" /\ SecureChannelV2Ends!Init /\ Unused12
     \/ part = "HandshakeOpens" /\ HandshakeOpens!Init /\ Unused10
     \/ part = "CredentialsV2Returns" /\ CredentialsV2Returns!Init /\ Unused12
     \/ part = "ForwardingLive" /\ ForwardingLive!Init
     \/ part = "PortalCloses" /\ PortalCloses!Init /\ Unused10
     \/ part = "UdsTransportLive" /\ UdsTransportLive!Init /\ Unused7
     \/ part = "AbacDecides" /\ AbacDecides!Init /\ Unused4
     \/ part = "ElixirNodeCreate" /\ ElixirNodeCreate!Init /\ Unused9
     \/ part = "StreamLive" /\ StreamLive!Init
     \/ part = "ElixirSessionLive" /\ ElixirSessionLive!Init /\ Unused10

Next ==
  /\ UNCHANGED part
  /\ \/ part = "NodeApiEnds" /\ NodeApiEnds!Next /\ UNCHANGED <<v5, v6, v7, v8, v9, v10, v11, v12, v13, v14, v15, v16>>
     \/ part = "OrchestratorReturns" /\ OrchestratorReturns!Next /\ UNCHANGED <<v5, v6, v7, v8, v9, v10, v11, v12, v13, v14, v15, v16>>
     \/ part = "NodeProcessTerm" /\ NodeProcessTerm!Next /\ UNCHANGED <<v11, v12, v13, v14, v15, v16>>
     \/ part = "SecureChannelV2Ends" /\ SecureChannelV2Ends!Next /\ UNCHANGED <<v13, v14, v15, v16>>
     \/ part = "HandshakeOpens" /\ HandshakeOpens!Next /\ UNCHANGED <<v11, v12, v13, v14, v15, v16>>
     \/ part = "CredentialsV2Returns" /\ CredentialsV2Returns!Next /\ UNCHANGED <<v13, v14, v15, v16>>
     \/ part = "ForwardingLive" /\ ForwardingLive!Next
     \/ part = "PortalCloses" /\ PortalCloses!Next /\ UNCHANGED <<v11, v12, v13, v14, v15, v16>>
     \/ part = "UdsTransportLive" /\ UdsTransportLive!Next /\ UNCHANGED <<v8, v9, v10, v11, v12, v13, v14, v15, v16>>
     \/ part = "AbacDecides" /\ AbacDecides!Next /\ UNCHANGED <<v5, v6, v7, v8, v9, v10, v11, v12, v13, v14, v15, v16>>
     \/ part = "ElixirNodeCreate" /\ ElixirNodeCreate!Next /\ UNCHANGED <<v10, v11, v12, v13, v14, v15, v16>>
     \/ part = "StreamLive" /\ StreamLive!Next
     \/ part = "ElixirSessionLive" /\ ElixirSessionLive!Next /\ UNCHANGED <<v11, v12, v13, v14, v15, v16>>

Spec == Init /\ [][Next]_vars

vars4 == <<v1, v2, v3, v4>>
vars7 == <<v1, v2, v3, v4, v5, v6, v7>>
vars9 == <<v1, v2, v3, v4, v5, v6, v7, v8, v9>>
vars10 == <<v1, v2, v3, v4, v5, v6, v7, v8, v9, v10>>
vars12 == <<v1, v2, v3, v4, v5, v6, v7, v8, v9, v10, v11, v12>>
vars16 == <<v1, v2, v3, v4, v5, v6, v7, v8, v9, v10, v11, v12, v13, v14, v15, v16>>
\* What each component's scheduling guarantees (see the fair specifications there).
Fairness ==
  /\ WF_vars4(part = "NodeApiEnds" /\ NodeApiEnds!Work)
  /\ \A c \in {"c1", "c2"} : WF_vars4(part = "NodeApiEnds" /\ NodeApiEnds!Request(c))
  /\ \A p \in {"p1", "p2"} : WF_vars4(part = "OrchestratorReturns" /\ OrchestratorReturns!Step(p))
  /\ \A k \in NodeProcessTerm!Pids : WF_vars10(part = "NodeProcessTerm" /\ NodeProcessTerm!Process(k))
  /\ \A w \in SecureChannelV2Ends!Workers : WF_vars12(part = "SecureChannelV2Ends" /\ SecureChannelV2Ends!StopDecryptor(w))
  /\ []<>~(part = "HandshakeOpens" /\ HandshakeOpens!Pending)
  /\ \A m \in {"m1"} : WF_vars12(part = "CredentialsV2Returns" /\ CredentialsV2Returns!Handle(m))
  /\ \A m \in {"m1"} : WF_vars12(part = "CredentialsV2Returns" /\ CredentialsV2Returns!Return(m))
  /\ \A i \in ForwardingLive!Ids : WF_vars16(part = "ForwardingLive" /\ ForwardingLive!HeartbeatFires(i))
  /\ \A i \in ForwardingLive!Ids : WF_vars16(part = "ForwardingLive" /\ ForwardingLive!HandleHeartbeat(i))
  /\ \A i \in ForwardingLive!Ids : WF_vars16(part = "ForwardingLive" /\ ForwardingLive!HandleAnswer(i))
  /\ \A i \in ForwardingLive!Ids : WF_vars16(part = "ForwardingLive" /\ ForwardingLive!HandleData(i))
  /\ \A i \in ForwardingLive!Ids : WF_vars16(part = "ForwardingLive" /\ ForwardingLive!HubRegister(i))
  /\ \A i \in ForwardingLive!Ids : WF_vars16(part = "ForwardingLive" /\ ForwardingLive!CreateReturns(i))
  /\ \A i \in ForwardingLive!Ids : WF_vars16(part = "ForwardingLive" /\ ForwardingLive!TimesOut(i))
  /\ \A i \in ForwardingLive!Ids : WF_vars16(part = "ForwardingLive" /\ ForwardingLive!ReplaceReturns(i))
  /\ \A i \in ForwardingLive!Ids : WF_vars16(part = "ForwardingLive" /\ ForwardingLive!Replace(i))
  /\ \A s \in PortalCloses!Sides : WF_vars10(part = "PortalCloses" /\ PortalCloses!WorkerStep(s))
  /\ \A s \in PortalCloses!Sides : WF_vars10(part = "PortalCloses" /\ PortalCloses!ReceiverStep(s))
  /\ \A s \in PortalCloses!Sides : WF_vars10(part = "PortalCloses" /\ PortalCloses!PeerAnswersClose(s))
  /\ WF_vars7(part = "UdsTransportLive" /\ UdsTransportLive!StartAccepted)
  /\ \A i \in UdsTransportLive!Ids : WF_vars7(part = "UdsTransportLive" /\ UdsTransportLive!HandleUnregister(i))
  /\ \A i \in UdsTransportLive!Ids : WF_vars7(part = "UdsTransportLive" /\ UdsTransportLive!Initialize(i))
  /\ \A i \in UdsTransportLive!Ids : WF_vars7(part = "UdsTransportLive" /\ UdsTransportLive!HandleMessage(i))
  /\ \A i \in UdsTransportLive!Ids : WF_vars7(part = "UdsTransportLive" /\ UdsTransportLive!ReceiverEnds(i))
  /\ \A i \in UdsTransportLive!Ids : WF_vars7(part = "UdsTransportLive" /\ UdsTransportLive!ConnectionClosed(i))
  /\ WF_vars4(part = "AbacDecides" /\ AbacDecides!Next)
  /\ \A w \in {"w1", "w2", "w3"} : WF_vars9(part = "ElixirNodeCreate" /\ (ElixirNodeCreate!PostInit(w) \/ ElixirNodeCreate!PostInitFails(w)))
  /\ \A w \in {"w1", "w2", "w3"} : WF_vars9(part = "ElixirNodeCreate" /\ ElixirNodeCreate!Created(w))
  /\ \A w \in {"w1", "w2", "w3"} : WF_vars9(part = "ElixirNodeCreate" /\ ElixirNodeCreate!Restart(w))
  /\ WF_vars9(part = "ElixirNodeCreate" /\ ElixirNodeCreate!SupervisorEnds)
  /\ WF_vars16(part = "StreamLive" /\ StreamLive!ProducerReady)
  /\ WF_vars16(part = "StreamLive" /\ StreamLive!ServeProducer)
  /\ WF_vars16(part = "StreamLive" /\ StreamLive!ServeConsumer)
  /\ WF_vars16(part = "StreamLive" /\ StreamLive!ServeSave)
  /\ WF_vars16(part = "StreamLive" /\ StreamLive!ConsumerInit)
  /\ WF_vars16(part = "StreamLive" /\ StreamLive!ConsumerIndex)
  /\ WF_vars16(part = "StreamLive" /\ StreamLive!Pulled)
  /\ WF_vars16(part = "StreamLive" /\ StreamLive!FetchEvent)
  /\ WF_vars10(part = "ElixirSessionLive" /\ ElixirSessionLive!Spawn)
  /\ WF_vars10(part = "ElixirSessionLive" /\ ElixirSessionLive!InitiatorHandshake)
  /\ \A w \in ElixirSessionLive!Workers : WF_vars10(part = "ElixirSessionLive" /\ ElixirSessionLive!HandleData(w))

FairSpec == Spec /\ Fairness

-----------------------------------------------------------------------------
\* Whatever was asked for comes to an end with an answer: commands to the node
\* manager and the Orchestrator, presentations of credentials, creations of Elixir
\* workers and the evaluation of a policy.
RequestsReturn ==
  /\ \A c \in {"c1", "c2"} : (part = "NodeApiEnds" /\ NodeApiEnds!Busy(c)) ~> (part = "NodeApiEnds" => ~NodeApiEnds!Busy(c))
  /\ \A p \in {"p1", "p2"} : (part = "OrchestratorReturns" /\ OrchestratorReturns!Answerable(p)) ~> (part = "OrchestratorReturns" => OrchestratorReturns!Returned(p))
  /\ \A m \in {"m1"} : (part = "CredentialsV2Returns" /\ CredentialsV2Returns!Presenting(m)) ~> (part = "CredentialsV2Returns" => CredentialsV2Returns!Presented(m))
  /\ \A w \in {"w1", "w2", "w3"} : (part = "ElixirNodeCreate" /\ ElixirNodeCreate!Waits(w)) ~> (part = "ElixirNodeCreate" => ElixirNodeCreate!HasAnswer(w))
  /\ <>(part = "AbacDecides" => AbacDecides!HasResult)

\* What was started is reached in the end, after crashes and lost connections: a
\* handshake opens its channel, a session starts, a relay is reachable again and a
\* stream delivers.
GetsThere ==
  /\ \A i \in {i1} : (part = "HandshakeOpens" /\ HandshakeOpens!Creating(i)) ~> (part = "HandshakeOpens" => HandshakeOpens!OpenOrStopped(i))
  /\ <>[](part = "ElixirSessionLive" => ElixirSessionLive!Started)
  /\ \A s \in ForwardingLive!Ids : (part = "ForwardingLive" /\ ForwardingLive!Managed(s)) ~> (part = "ForwardingLive" => ForwardingLive!AliasReachable(s))
  /\ \A d \in (1..3) \ {2} : (part = "StreamLive" /\ StreamLive!Given(d)) ~> (part = "StreamLive" => StreamLive!Consumed(d))

\* What is closed or stopped on one side ends on both and is forgotten: connections
\* with both workers and their entry, portals, Unix sockets, channels with their
\* keys, and processes with their ports.
EndsOnBothSides ==
  /\ \A i \in 1..2 : (part = "NodeApiEnds" /\ NodeApiEnds!Ending(i)) ~> (part = "NodeApiEnds" => NodeApiEnds!Unlisted(i))
  /\ \A s \in PortalCloses!Sides : (part = "PortalCloses" /\ PortalCloses!PeerClosed(s)) ~> (part = "PortalCloses" => PortalCloses!AllStopped)
  /\ \A p \in UdsTransportLive!Paths, i \in UdsTransportLive!Ids : (part = "UdsTransportLive" /\ UdsTransportLive!LeadsToClosed(p, i)) ~> (part = "UdsTransportLive" => ~UdsTransportLive!Leads(p, i))
  /\ \A w \in SecureChannelV2Ends!Workers : (part = "SecureChannelV2Ends" /\ SecureChannelV2Ends!Stopping(w)) ~> (part = "SecureChannelV2Ends" => SecureChannelV2Ends!Cleaned(w))
  /\ \A k \in NodeProcessTerm!Pids : (part = "NodeProcessTerm" /\ NodeProcessTerm!Ending(k)) ~> (part = "NodeProcessTerm" => NodeProcessTerm!Ended(k))

=============================================================================
