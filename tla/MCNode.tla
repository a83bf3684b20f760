------------------------------- MODULE MCNode -------------------------------
(***************************************************************************)
(* Small instances of the components of the Rust node: the node manager,   *)
(* the command line, the orchestrator, the desktop application and the     *)
(* Kafka portals.  A behaviour is one of the component that `part` names;  *)
(* v1, v2, ... stand for its variables.                                    *)
(***************************************************************************)
EXTENDS Integers, Sequences, FiniteSets, TLC

CONSTANTS Parts,  \* the components of a run
          Tasks,  \* tasks of one kind, of the components that have such
          Unset  \* no value, in the state directory

Symmetry == Permutations(Tasks)

VARIABLES part, v1, v2, v3, v4, v5, v6, v7, v8, v9, v10, v11, v12, v13, v14
vars == <<part, v1, v2, v3, v4, v5, v6, v7, v8, v9, v10, v11, v12, v13, v14>>

\* Hosts that resolve to IPv6 before IPv4, and one that does not resolve.
Lookup == [h1 |-> << <<"ip6", "s6">>, <<"ip4", "s1">> >>, h2 |-> << >>]

TcpCommands == {<<"connect", "h1">>, <<"connect", "h2">>, <<"show", <<"receiver", 1>>>>, <<"show", <<"socket", "s1">>>>,
                <<"disconnect", <<"socket", "s1">>>>, <<"disconnect", <<"sender", 1>>>>,
                <<"listen", "b1">>, <<"unlisten", "b1">>, <<"showListener", "b1">>, <<"list">>, <<"listListeners">>}

OutletCommands == {<<"outlet", "random", "w">>, <<"outlet", "a", "w">>, <<"outlet", "a", "v">>,
                   <<"deleteOutlet", "a">>, <<"showOutlet", "a">>, <<"listOutlets">>, <<"scList">>, <<"hasPolicy", "a">>,
                   <<"scListen", "api">>, <<"scListen", "w">>, <<"scDelete", "api">>, <<"scShow", "api">>,
                   <<"policy", "a", <<"bool", TRUE>>>>, <<"policy", "tcp-outlet", <<"bool", FALSE>>>>,
                   <<"deletePolicy", "a">>, <<"deletePolicy", "tcp-outlet">>}

ProjectOf(id, name, space) == [id |-> id, name |-> name, space |-> space, ready |-> TRUE]
\* A new account; one with a space; one with spaces and projects, the one named
\* "default" not being the first and in the second space.
EnrollStarts == {[spaces |-> <<>>, projects |-> <<>>, next |-> 1, tickets |-> {}],
                 [spaces |-> <<1>>, projects |-> <<>>, next |-> 2, tickets |-> {}],
                 [spaces |-> <<1, 2>>, projects |-> <<ProjectOf(3, "other", 1), ProjectOf(4, "default", 2)>>,
                  next |-> 5, tickets |-> {}]}
OneProject == {[spaces |-> <<1>>, projects |-> <<ProjectOf(2, "default", 1)>>, next |-> 3, tickets |-> {}]}
\* Two projects with one name, and a ticket for each.
Twins == {[spaces |-> <<1, 2>>, projects |-> <<ProjectOf(3, "default", 1), ProjectOf(4, "default", 2)>>, next |-> 5,
           tickets |-> {[project |-> ProjectOf(i, "default", i - 2), used |-> FALSE] : i \in {3, 4}}]}

ProjectRoute ==
  [p \in {"p1", "p2"} |->
    <<<<"dns", IF p = "p1" THEN "hub1" ELSE "hub2">>, <<"tcp", "port">>, <<"service", "api">>>>]
ProjectId == [p \in {"p1", "p2"} |-> IF p = "p1" THEN "I1" ELSE "I2"]
NodeHost == [n \in {"n1"} |-> "localhost"]
WorkerNames == <<"w1", "w2", "w3", "w4", "w5", "w6", "w7", "w8">>
Run(what, to) == [what |-> what, to |-> to]
ToProject(p, s) == <<<<"project", p>>, <<"service", s>>>>
ToNode(s) == <<<<"node", "n1">>, <<"service", s>>>>
HostWithoutPort == <<<<"dns", "host">>, <<"service", "echo">>>>
Commands ==
  [c \in {"c1", "c2"} |->
    IF c = "c1"
    THEN {Run("message", ToProject("p1", "echo")), Run("channel", ToProject("p1", "api")),
          Run("message", ToNode("echo")), Run("message", HostWithoutPort),
          Run("message", <<<<"node", "n1">>, <<"secure", "api">>, <<"service", "echo">>>>)}
    ELSE {Run("channel", ToProject("p2", "api")), Run("channel", ToNode("api")), Run("delete", <<>>)}]
\* An inlet: through a relay of the project, through a node.
ThroughRelay == <<<<"project", "p1">>, <<"service", "fwd">>, <<"secure", "api">>, <<"service", "outlet">>>>
ThroughNode == <<<<"dns", "host">>, <<"tcp", "port">>, <<"secure", "api">>, <<"service", "outlet">>>>
Deletes == [c \in {"c1"} |-> {Run("delete", <<>>), Run("message", ToNode("echo"))}]

\* Two services of one project.
TwoServices == [k \in {1, 2} |-> [kind |-> "service", project |-> "p1", service |-> k]]

NodeApiTcp == INSTANCE NodeApi WITH
  Clients <- {"c1", "c2"}, Commands <- TcpCommands, Lookup <- Lookup, Remotes <- {"p"}, Aliases <- {"a"},
  Names <- {"w", "v", "api"}, Checked <- FALSE, HasTrust <- FALSE, Project <- TRUE, MaxConns <- 2, MaxCommands <- 3,
  MaxStops <- 0, node <- v1, client <- v2, commands <- v3, stops <- v4

NodeApiOutlets == INSTANCE NodeApi WITH
  Clients <- {"c1", "c2"}, Commands <- OutletCommands, Lookup <- Lookup, Remotes <- {"p"}, Aliases <- {"a"},
  Names <- {"w", "v", "api"}, Checked <- TRUE, HasTrust <- TRUE, Project <- TRUE, MaxConns <- 1, MaxCommands <- 3,
  MaxStops <- 1, node <- v1, client <- v2, commands <- v3, stops <- v4

OrchestratorEnroll == INSTANCE Orchestrator WITH
  Procs <- {"p1"}, Commands <- {"enroll", "enroll_pkce", "app_enroll"}, Starts <- EnrollStarts,
  ProjectNames <- {"default", "other"}, MaxRuns <- 3, MaxId <- 5, cloud <- v1, local <- v2, proc <- v3, runs <- v4

OrchestratorProjects == INSTANCE Orchestrator WITH
  Procs <- {"p1"},
  Commands <- {"project_list", "project_ticket", "project_enroll", "lease", "project_delete", "project_create", "space_list"},
  Starts <- Twins, ProjectNames <- {"default"}, MaxRuns <- 3, MaxId <- 5, cloud <- v1, local <- v2, proc <- v3,
  runs <- v4

OrchestratorSpaces == INSTANCE Orchestrator WITH
  Procs <- {"p1", "p2"},
  Commands <- {"project_show", "project_delete", "project_create", "space_create", "space_list", "space_delete", "project_list"},
  Starts <- OneProject, ProjectNames <- {"default"}, MaxRuns <- 2, MaxId <- 4, cloud <- v1, local <- v2, proc <- v3,
  runs <- v4

Connections == INSTANCE Connections WITH
  Commands <- Commands, Sessions <- [s \in {} |-> {}], NodeHost <- NodeHost, ProjectRoute <- ProjectRoute,
  ProjectId <- ProjectId, Ids <- {"I1", "I2"}, Checks <- TRUE, HasTrust <- TRUE, Names <- WorkerNames, MaxStops <- 1,
  node <- v1, job <- v2, cmd <- v3

ConnectionsSessions == INSTANCE Connections WITH
  Commands <- Deletes, Sessions <- [s \in {"s1"} |-> {ThroughRelay, ThroughNode}], NodeHost <- NodeHost,
  ProjectRoute <- ProjectRoute, ProjectId <- ProjectId, Ids <- {"I1", "I2"}, Checks <- TRUE, HasTrust <- TRUE,
  Names <- WorkerNames, MaxStops <- 1, node <- v1, job <- v2, cmd <- v3

NodeServices == INSTANCE NodeServices WITH
  Given <- {"a", "token_acceptor"},
  Requests <- {"identity", "credentials", "authenticated", "uppercase", "echoer", "hop", "verifier", "okta", "authenticator", "consumer", "producer", "delete_consumer", "delete_producer"},
  Ports <- {1, 2}, HasTrust <- TRUE, MaxRequests <- 3, worker <- v1, registry <- v2, kafka <- v3, outlet <- v4,
  inlets <- v5, program <- v6, request <- v7, reply <- v8, count <- v9

CliState == INSTANCE CliState WITH
  Procs <- {"p1"}, Names <- {"a"}, NodeNames <- {"n", "m"}, None <- Unset, MaxCommands <- 4, MaxCrashes <- 1,
  ident <- v1, defId <- v2, nodes <- v3, defNode <- v4, proc <- v5, minted <- v6, started <- v7, crashes <- v8,
  outcome <- v9

CliStateTwo == INSTANCE CliState WITH
  Procs <- {"p1", "p2"}, Names <- {"a", "b"}, NodeNames <- {}, None <- Unset, MaxCommands <- 3, MaxCrashes <- 0,
  ident <- v1, defId <- v2, nodes <- v3, defNode <- v4, proc <- v5, minted <- v6, started <- v7, crashes <- v8,
  outcome <- v9

DesktopApp == INSTANCE DesktopApp WITH
  Tasks <- Tasks, NoTask <- "NoTask", Starts <- {"new"}, Outlets <- {<<"tcp1", "w1">>}, Emails <- {FALSE},
  MayReset <- FALSE, MayQuit <- TRUE, MaxClicks <- 1, MaxFails <- 1, MaxPolls <- 0, app <- v1, task <- v2, due <- v3,
  clicks <- v4, fails <- v5, polls <- v6

DesktopOutlets == INSTANCE DesktopApp WITH
  Tasks <- Tasks, NoTask <- "NoTask", Starts <- {"kept", "outlet"}, Outlets <- {<<"tcp1", "w1">>, <<"tcp2", "w2">>},
  Emails <- {FALSE}, MayReset <- FALSE, MayQuit <- TRUE, MaxClicks <- 3, MaxFails <- 0, MaxPolls <- 0, app <- v1,
  task <- v2, due <- v3, clicks <- v4, fails <- v5, polls <- v6

DesktopReset == INSTANCE DesktopApp WITH
  Tasks <- Tasks, NoTask <- "NoTask", Starts <- {"outlet"}, Outlets <- {<<"tcp1", "w1">>}, Emails <- {FALSE},
  MayReset <- TRUE, MayQuit <- FALSE, MaxClicks <- 2, MaxFails <- 0, MaxPolls <- 0, app <- v1, task <- v2, due <- v3,
  clicks <- v4, fails <- v5, polls <- v6

Invitations == INSTANCE Invitations WITH
  Ids <- {1, 2}, Details <- TwoServices, Tasks <- Tasks, Clis <- {}, Commands <- {<<"list">>}, Enrolled <- TRUE,
  MaxFails <- 1, MaxCrashes <- 1, MaxCommands <- 0, cloud <- v1, ui <- v2, disk <- v3, node <- v4, task <- v5,
  due <- v6, cli <- v7, fails <- v8, crashes <- v9, commands <- v10

InvitationsCli == INSTANCE Invitations WITH
  Ids <- {1}, Details <- TwoServices, Tasks <- Tasks, Clis <- {"c1", "c2"},
  Commands <- {<<"create">>, <<"service">>, <<"accept", 1>>, <<"show", 1>>}, Enrolled <- FALSE, MaxFails <- 0,
  MaxCrashes <- 0, MaxCommands <- 2, cloud <- v1, ui <- v2, disk <- v3, node <- v4, task <- v5, due <- v6, cli <- v7,
  fails <- v8, crashes <- v9, commands <- v10

KafkaPortal == INSTANCE KafkaPortal WITH
  Conns <- {"c1", "c2"}, Brokers <- {"b1", "b2", "b3"}, Apis <- {"metadata", "coordinator"}, MaxRequests <- 1,
  Start <- 3, End <- 4, PortModulus <- 8, Refusals <- 1, LinkFails <- TRUE, wire <- v1, requestMap <- v2, todo <- v3,
  pc <- v4, flag <- v5, inlets <- v6, currentPort <- v7, outlets <- v8, topicKnown <- v9, forwarder <- v10,
  told <- v11, asked <- v12, refused <- v13, cut <- v14

KafkaChannels == INSTANCE KafkaChannels WITH
  Partitions <- {"p1", "p2"}, Consumers <- {"good", "other"}, Trusted <- {"good"}, Tasks <- Tasks, Direct <- "none",
  NoConsumer <- "none", MaxChannels <- 2, MaxRecords <- 2, Losses <- 1, forwarderSet <- v1, relay <- v2,
  encryptorMap <- v3, peer <- v4, mine <- v5, theirs <- v6, lock <- v7, task <- v8, log <- v9, sent <- v10,
  seen <- v11, read <- v12, losses <- v13

NodeServicesKafka == INSTANCE NodeServices WITH
  Given <- {"a", "b"},
  Requests <- {"outlet", "direct", "consumer", "delete_outlet", "delete_direct", "delete_consumer"}, Ports <- {1, 2},
  HasTrust <- TRUE, MaxRequests <- 4, worker <- v1, registry <- v2, kafka <- v3, outlet <- v4, inlets <- v5,
  program <- v6, request <- v7, reply <- v8, count <- v9

KafkaPortalClient == INSTANCE KafkaPortal WITH
  Conns <- {"c1"}, Brokers <- {"b1", "b2"}, Apis <- {"metadata", "fetch", "fetchById", "internal"}, MaxRequests <- 2,
  Start <- 3, End <- 3, PortModulus <- 8, Refusals <- 1, LinkFails <- FALSE, wire <- v1, requestMap <- v2,
  todo <- v3, pc <- v4, flag <- v5, inlets <- v6, currentPort <- v7, outlets <- v8, topicKnown <- v9,
  forwarder <- v10, told <- v11, asked <- v12, refused <- v13, cut <- v14

\* Variables that a component does not have.
Unused13 == v14 = 0
Unused10 == v11 = 0 /\ v12 = 0 /\ v13 = 0 /\ v14 = 0
Unused9 == v10 = 0 /\ v11 = 0 /\ v12 = 0 /\ v13 = 0 /\ v14 = 0
Unused6 == v7 = 0 /\ v8 = 0 /\ v9 = 0 /\ v10 = 0 /\ v11 = 0 /\ v12 = 0 /\ v13 = 0 /\ v14 = 0
Unused4 == v5 = 0 /\ v6 = 0 /\ v7 = 0 /\ v8 = 0 /\ v9 = 0 /\ v10 = 0 /\ v11 = 0 /\ v12 = 0 /\ v13 = 0 /\ v14 = 0
Unused3 == v4 = 0 /\ v5 = 0 /\ v6 = 0 /\ v7 = 0 /\ v8 = 0 /\ v9 = 0 /\ v10 = 0 /\ v11 = 0 /\ v12 = 0 /\ v13 = 0 /\ v14 = 0

Init ==
  /\ part \in Parts
  /\ \/ part = "NodeApiTcp" /\ NodeApiTcp!Init /\ Unused4
     \/ part = "NodeApiOutlets" /\ NodeApiOutlets!Init /\ Unused4
     \/ part = "OrchestratorEnroll" /\ OrchestratorEnroll!Init /\ Unused4
     \/ part = "OrchestratorProjects" /\ OrchestratorProjects!Init /\ Unused4
     \/ part = "OrchestratorSpaces" /\ OrchestratorSpaces!Init /\ Unused4
     \/ part = "Connections" /\ Connections!Init /\ Unused3
     \/ part = "ConnectionsSessions" /\ ConnectionsSessions!Init /\ Unused3
     \/ part = "NodeServices" /\ NodeServices!Init /\ Unused9
     \/ part = "CliState" /\ CliState!Init /\ Unused9
     \/ part = "CliStateTwo" /\ CliStateTwo!Init /\ Unused9
     \/ part = "DesktopApp" /\ DesktopApp!Init /\ Unused6
     \/ part = "DesktopOutlets" /\ DesktopOutlets!Init /\ Unused6
     \/ part = "DesktopReset" /\ DesktopReset!Init /\ Unused6
     \/ part = "Invitations" /\ Invitations!Init /\ Unused10
     \/ part = "InvitationsCli" /\ InvitationsCli!Init /\ Unused10
     \/ part = "KafkaPortal" /\ KafkaPortal!Init
     \/ part = "KafkaChannels" /\ KafkaChannels!Init /\ Unused13
     \/ part = "NodeServicesKafka" /\ NodeServicesKafka!Init /\ Unused9
     \/ part = "KafkaPortalClient" /\ KafkaPortalClient!Init

Next ==
  /\ UNCHANGED part
  /\ \/ part = "NodeApiTcp" /\ NodeApiTcp!Next /\ UNCHANGED <<v5, v6, v7, v8, v9, v10, v11, v12, v13, v14>>
     \/ part = "NodeApiOutlets" /\ NodeApiOutlets!Next /\ UNCHANGED <<v5, v6, v7, v8, v9, v10, v11, v12, v13, v14>>
     \/ part = "OrchestratorEnroll" /\ OrchestratorEnroll!Next /\ UNCHANGED <<v5, v6, v7, v8, v9, v10, v11, v12, v13, v14>>
     \/ part = "OrchestratorProjects" /\ OrchestratorProjects!Next /\ UNCHANGED <<v5, v6, v7, v8, v9, v10, v11, v12, v13, v14>>
     \/ part = "OrchestratorSpaces" /\ OrchestratorSpaces!Next /\ UNCHANGED <<v5, v6, v7, v8, v9, v10, v11, v12, v13, v14>>
     \/ part = "Connections" /\ Connections!Next /\ UNCHANGED <<v4, v5, v6, v7, v8, v9, v10, v11, v12, v13, v14>>
     \/ part = "ConnectionsSessions" /\ ConnectionsSessions!Next /\ UNCHANGED <<v4, v5, v6, v7, v8, v9, v10, v11, v12, v13, v14>>
     \/ part = "NodeServices" /\ NodeServices!Next /\ UNCHANGED <<v10, v11, v12, v13, v14>>
     \/ part = "CliState" /\ CliState!Next /\ UNCHANGED <<v10, v11, v12, v13, v14>>
     \/ part = "CliStateTwo" /\ CliStateTwo!Next /\ UNCHANGED <<v10, v11, v12, v13, v14>>
     \/ part = "DesktopApp" /\ DesktopApp!Next /\ UNCHANGED <<v7, v8, v9, v10, v11, v12, v13, v14>>
     \/ part = "DesktopOutlets" /\ DesktopOutlets!Next /\ UNCHANGED <<v7, v8, v9, v10, v11, v12, v13, v14>>
     \/ part = "DesktopReset" /\ DesktopReset!Next /\ UNCHANGED <<v7, v8, v9, v10, v11, v12, v13, v14>>
     \/ part = "Invitations" /\ Invitations!Next /\ UNCHANGED <<v11, v12, v13, v14>>
     \/ part = "InvitationsCli" /\ InvitationsCli!Next /\ UNCHANGED <<v11, v12, v13, v14>>
     \/ part = "KafkaPortal" /\ KafkaPortal!Next
     \/ part = "KafkaChannels" /\ KafkaChannels!Next /\ UNCHANGED v14
     \/ part = "NodeServicesKafka" /\ NodeServicesKafka!Next /\ UNCHANGED <<v10, v11, v12, v13, v14>>
     \/ part = "KafkaPortalClient" /\ KafkaPortalClient!Next

Spec == Init /\ [][Next]_vars

-----------------------------------------------------------------------------
\* The type invariants of the components.
TypesOK ==
  /\ part = "NodeApiTcp" => NodeApiTcp!TypeOK
  /\ part = "NodeApiOutlets" => NodeApiOutlets!TypeOK
  /\ part = "OrchestratorEnroll" => OrchestratorEnroll!TypeOK
  /\ part = "OrchestratorProjects" => OrchestratorProjects!TypeOK
  /\ part = "OrchestratorSpaces" => OrchestratorSpaces!TypeOK
  /\ part = "Connections" => Connections!TypeOK
  /\ part = "ConnectionsSessions" => ConnectionsSessions!TypeOK
  /\ part = "NodeServices" => NodeServices!TypeOK
  /\ part = "CliState" => CliState!TypeOK
  /\ part = "CliStateTwo" => CliStateTwo!TypeOK
  /\ part = "DesktopApp" => DesktopApp!TypeOK
  /\ part = "DesktopOutlets" => DesktopOutlets!TypeOK
  /\ part = "DesktopReset" => DesktopReset!TypeOK
  /\ part = "Invitations" => Invitations!TypeOK
  /\ part = "InvitationsCli" => InvitationsCli!TypeOK
  /\ part = "KafkaPortal" => KafkaPortal!TypeOK
  /\ part = "KafkaChannels" => KafkaChannels!TypeOK
  /\ part = "NodeServicesKafka" => NodeServicesKafka!TypeOK
  /\ part = "KafkaPortalClient" => KafkaPortalClient!TypeOK






=============================================================================
