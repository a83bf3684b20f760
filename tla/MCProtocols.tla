---------------------------- MODULE MCProtocols ----------------------------
(***************************************************************************)
(* Small instances of the protocol components of the Rust libraries:       *)
(* identities, credentials, secure channels of version 2, relays, portals, *)
(* transports, pipes, streams and access policies; and of the components   *)
(* of the Elixir implementation.  A behaviour is one of the component that *)
(* `part` names; v1, v2, ... stand for its variables.                      *)
(***************************************************************************)
EXTENDS Portal, Integers, Sequences, FiniteSets, TLC

CONSTANTS Parts  \* the components of a run

VARIABLES part, v1, v2, v3, v4, v5, v6, v7, v8, v9, v10, v11, v12, v13, v14, v15, v16
parts_vars == <<part, v1, v2, v3, v4, v5, v6, v7, v8, v9, v10, v11, v12, v13, v14, v15, v16, vars>>

\* Two calls of one client; calls of two clients.
SameCaller == [c \in {"c1", "c2"} |-> "alice"]
TwoCallers == [c \in {"c1", "c2"} |-> IF c = "c1" THEN "alice" ELSE "carol"]
\* The server trusts the first client only; both.
TrustsAlice == [n \in {"alice", "carol", "bob"} |-> IF n = "bob" THEN {"alice"} ELSE {"bob"}]
TrustsBoth == [n \in {"alice", "carol", "bob"} |-> IF n = "bob" THEN {"alice", "carol"} ELSE {"bob"}]

\* Policies of up to two levels of operators, over every operator.
Lit(kind, x) == <<kind, x>>
Ops == {"and", "or", "not", "if", "<", ">", "=", "!=", "member?", "exists?", "what?"}
Few == {Lit("Bool", TRUE), Lit("Bool", FALSE), Lit("Ident", "u")}
Leaves == Few \cup {Lit("Int", 1), Lit("Ident", "x"), Lit("Seq", <<Lit("Int", 1)>>)}
App(ops, as) == {Lit("List", <<Lit("Ident", op)>> \o a) : op \in ops, a \in as}
Tuples(S, n) == [1..n -> S]
Flat == App(Ops, {<<>>} \cup Tuples(Leaves, 1) \cup Tuples(Leaves, 2) \cup Tuples(Few, 3))
Inner == App(Ops, {<<>>} \cup Tuples(Few, 1) \cup Tuples(Few, 2))
         \cup {Lit("Seq", <<Lit("Ident", "x"), Lit("Ident", "y")>>), Lit("List", <<Lit("Int", 1)>>),
               Lit("List", <<>>), Lit("Int", 2), Lit("Ident", "y")}
Deep == App({"and", "or", "=", "member?"}, {<<a, b>> : a \in Inner, b \in Few} \cup {<<b, a>> : a \in Inner, b \in Few})
        \cup App({"if"}, {<<a, b, c>> : a \in Inner, b \in Few, c \in Few})
        \cup App({"and", "or", "="}, {<<b, a, c>> : a \in Inner, b \in Few, c \in Few})

Plain == [kind |-> "plain", address |-> "a", extra |-> {}, inner |-> "none", given |-> FALSE, authorization |-> <<>>,
          idle |-> 0, restart |-> "transient", setup |-> "ok", forward |-> "none", fails |-> FALSE]
\* A forwarder with an inner address that only channels may use, a worker that fails
\* now and then, and one that wants an address of the first.
Three == "w1" :> [Plain EXCEPT !.kind = "asymmetric", !.inner = "in", !.forward = "b",
                               !.authorization = ("in" :> <<"allow_all", "from_secure_channel">>)]
         @@ "w2" :> [Plain EXCEPT !.address = "b", !.fails = TRUE, !.authorization = ("b" :> <<"is_local">>)]
         @@ "w3" :> [Plain EXCEPT !.address = "c", !.extra = {"in"}, !.restart = "temporary"]
Idle == "w1" :> [Plain EXCEPT !.idle = 4] @@ "w2" :> [Plain EXCEPT !.address = "b", !.idle = 3, !.forward = "a"]
Failing == "w1" :> [Plain EXCEPT !.setup = "error"] @@ "w2" :> [Plain EXCEPT !.address = "b", !.extra = {"a"}]
           @@ "w3" :> [Plain EXCEPT !.address = "b", !.restart = "temporary"]

SecureChannelV2 == INSTANCE SecureChannelV2 WITH
  Calls <- {"c1", "c2"}, Caller <- SameCaller, Server <- "bob", Trusted <- TrustsAlice, Overlap <- FALSE,
  MaxHistory <- 2, MaxLost <- 1, MaxSent <- 0, history <- v1, known <- v2, purpose <- v3, vault <- v4, hs <- v5,
  registry <- v6, encryptor <- v7, create <- v8, net <- v9, lost <- v10, sent <- v11, delivered <- v12

SecureChannelV2Policy == INSTANCE SecureChannelV2 WITH
  Calls <- {"c1", "c2"}, Caller <- TwoCallers, Server <- "bob", Trusted <- TrustsAlice, Overlap <- FALSE,
  MaxHistory <- 1, MaxLost <- 0, MaxSent <- 0, history <- v1, known <- v2, purpose <- v3, vault <- v4, hs <- v5,
  registry <- v6, encryptor <- v7, create <- v8, net <- v9, lost <- v10, sent <- v11, delivered <- v12

SecureChannelV2Data == INSTANCE SecureChannelV2 WITH
  Calls <- {"c1", "c2"}, Caller <- TwoCallers, Server <- "bob", Trusted <- TrustsBoth, Overlap <- FALSE,
  MaxHistory <- 1, MaxLost <- 1, MaxSent <- 1, history <- v1, known <- v2, purpose <- v3, vault <- v4, hs <- v5,
  registry <- v6, encryptor <- v7, create <- v8, net <- v9, lost <- v10, sent <- v11, delivered <- v12

SecureChannelV2Overlap == INSTANCE SecureChannelV2 WITH
  Calls <- {"c1", "c2"}, Caller <- SameCaller, Server <- "bob", Trusted <- TrustsAlice, Overlap <- TRUE,
  MaxHistory <- 2, MaxLost <- 0, MaxSent <- 0, history <- v1, known <- v2, purpose <- v3, vault <- v4, hs <- v5,
  registry <- v6, encryptor <- v7, create <- v8, net <- v9, lost <- v10, sent <- v11, delivered <- v12

CredentialsV2 == INSTANCE CredentialsV2 WITH
  Members <- {"m1"}, ServerHasOne <- TRUE, PresentBack <- TRUE, PurposeTtl <- 1, Ttl <- 1, Leeway <- 0, MaxTime <- 1,
  MaxRotations <- 2, MaxPurposeKeys <- 2, now <- v1, history <- v2, known <- v3, madeKeys <- v4, secrets <- v5,
  purpose <- v6, issued <- v7, cache <- v8, call <- v9, attributes <- v10, trusted <- v11, answer <- v12

IdentityHistory == INSTANCE IdentityHistory WITH
  Devices <- {"laptop", "phone"}, Maker <- "laptop", Labels <- {"L"}, Tasks <- {"t1"}, Overlap <- FALSE,
  PersistFirst <- TRUE, MaxKeys <- 2, MaxRestarts <- 1, keys <- v1, vault <- v2, ephemeral <- v3, identity <- v4,
  repository <- v5, shown <- v6, task <- v7, restarts <- v8

IdentityKeys == INSTANCE IdentityHistory WITH
  Devices <- {"laptop"}, Maker <- "laptop", Labels <- {"L"}, Tasks <- {"t1"}, Overlap <- FALSE, PersistFirst <- TRUE,
  MaxKeys <- 4, MaxRestarts <- 1, keys <- v1, vault <- v2, ephemeral <- v3, identity <- v4, repository <- v5,
  shown <- v6, task <- v7, restarts <- v8

Forwarding == INSTANCE Forwarding WITH
  Aliases <- {"a", "b"}, Kind <- "static", MaxWorkers <- 2, MaxCreates <- 2, MaxBreaks <- 1, MaxData <- 0,
  MaxDue <- 1, MaxFlight <- 2, Deletes <- TRUE, Slow <- TRUE, n <- v1, alias <- v2, worker <- v3, completed <- v4,
  timer <- v5, due <- v6, link <- v7, toHub <- v8, toNode <- v9, wait <- v10, forwarder <- v11, registry <- v12,
  session <- v13, sent <- v14, delivered <- v15, breaks <- v16

ForwardingRust == INSTANCE Forwarding WITH
  Aliases <- {"a", "b"}, Kind <- "without_heartbeats", MaxWorkers <- 3, MaxCreates <- 3, MaxBreaks <- 1,
  MaxData <- 1, MaxDue <- 0, MaxFlight <- 2, Deletes <- TRUE, Slow <- TRUE, n <- v1, alias <- v2, worker <- v3,
  completed <- v4, timer <- v5, due <- v6, link <- v7, toHub <- v8, toNode <- v9, wait <- v10, forwarder <- v11,
  registry <- v12, session <- v13, sent <- v14, delivered <- v15, breaks <- v16

ForwardingEphemeral == INSTANCE Forwarding WITH
  Aliases <- {"a", "b", "c"}, Kind <- "ephemeral", MaxWorkers <- 3, MaxCreates <- 3, MaxBreaks <- 1, MaxData <- 1,
  MaxDue <- 0, MaxFlight <- 2, Deletes <- TRUE, Slow <- FALSE, n <- v1, alias <- v2, worker <- v3, completed <- v4,
  timer <- v5, due <- v6, link <- v7, toHub <- v8, toNode <- v9, wait <- v10, forwarder <- v11, registry <- v12,
  session <- v13, sent <- v14, delivered <- v15, breaks <- v16

UdsTransport == INSTANCE UdsTransport WITH
  Peers <- {"a", "b"}, Own <- "own", MaxSenders <- 2, MaxRoutes <- 2, MaxBreaks <- 1, map <- v1, snd <- v2,
  listening <- v3, accepted <- v4, unreg <- v5, routed <- v6, breaks <- v7

Pipe2 == INSTANCE Pipe2 WITH
  Ordering <- TRUE, Delivery <- TRUE, Dynamic <- TRUE, MaxApp <- 4, app <- v1, mailbox <- v2, alive <- v3,
  index <- v4, journal <- v5, timers <- v6, peer <- v7, outBuf <- v8, handshake <- v9, net <- v10, acks <- v11,
  inbox <- v12, current <- v13, queued <- v14, received <- v15, forwarded <- v16

AbacEval == INSTANCE AbacEval WITH
  Exprs <- Leaves \cup Flat \cup Inner \cup Deep, expr <- v1, ctrl <- v2, args <- v3, result <- v4

ElixirNode == INSTANCE ElixirNode WITH
  Workers <- {"w1", "w2", "w3"}, Options <- Three, Senders <- {"s1"}, Metadata <- {"none", "channel"},
  Messages <- {"a", "in", "b"}, MaxRestarts <- 1, MaxSends <- 2, MaxTime <- 0, MaxStops <- 1, reg <- v1, wk <- v2,
  creator <- v3, pend <- v4, restarts <- v5, handled <- v6, now <- v7, sends <- v8, stops <- v9

ElixirNodeIdle == INSTANCE ElixirNode WITH
  Workers <- {"w1", "w2"}, Options <- Idle, Senders <- {"s1"}, Metadata <- {"none"}, Messages <- {"a", "b"},
  MaxRestarts <- 1, MaxSends <- 1, MaxTime <- 9, MaxStops <- 0, reg <- v1, wk <- v2, creator <- v3, pend <- v4,
  restarts <- v5, handled <- v6, now <- v7, sends <- v8, stops <- v9

ElixirSecureChannel == INSTANCE ElixirSecureChannel WITH
  Initiators <- {"i1", "i2"}, Responders <- {"r1", "r2"}, Listener <- "listener", Distrusted <- {},
  Credential <- [c \in {"i1", "i2"} |-> "none"], Linked <- {"i1"}, MaxSends <- 0, chan <- v1, net <- v2,
  waiter <- v3, attrs <- v4, got <- v5

ElixirSecureChannelData == INSTANCE ElixirSecureChannel WITH
  Initiators <- {"i1"}, Responders <- {"r1", "r2"}, Listener <- "listener", Distrusted <- {},
  Credential <- [c \in {"i1"} |-> "none"], Linked <- {"i1"}, MaxSends <- 1, chan <- v1, net <- v2, waiter <- v3,
  attrs <- v4, got <- v5

ElixirSecureChannelPolicies == INSTANCE ElixirSecureChannel WITH
  Initiators <- {"i1", "i2"}, Responders <- {"r1"}, Listener <- "listener",
  Distrusted <- {<<"i1", "listener">>, <<"r1", "i2">>}, Credential <- [c \in {"i1", "i2"} |-> "none"],
  Linked <- {"i1"}, MaxSends <- 0, chan <- v1, net <- v2, waiter <- v3, attrs <- v4, got <- v5

ElixirSecureChannelCredentials == INSTANCE ElixirSecureChannel WITH
  Initiators <- {"i1", "i2"}, Responders <- {"r1"}, Listener <- "listener", Distrusted <- {},
  Credential <- ("i1" :> "good" @@ "i2" :> "bad"), Linked <- {"i1"}, MaxSends <- 1, chan <- v1, net <- v2,
  waiter <- v3, attrs <- v4, got <- v5

Stream == INSTANCE Stream WITH
  MaxApp <- 4, MaxCrashes <- 1, MaxLost <- 2, Limit <- 2, Junk <- {2}, created <- v1, storage <- v2, shards <- v3,
  app <- v4, ready <- v5, outbox <- v6, toStream <- v7, initReply <- v8, idx <- v9, timer <- v10, requests <- v11,
  saves <- v12, replies <- v13, delivered <- v14, crashes <- v15, lost <- v16

ElixirSession == INSTANCE ElixirSession WITH
  MaxRuns <- 2, MaxData <- 2, MaxLost <- 1, Pipes <- TRUE, run <- v1, stage <- v2, options <- v3, receivers <- v4,
  toSpawner <- v5, link <- v6, sent <- v7, handled <- v8, waiter <- v9, lost <- v10

KafkaCodec == INSTANCE KafkaCodec WITH
  Versions <- {0, 1, 2, 3, 4, 5, 6, 7, 8, 9, 10, 11, 12}, Shapes <- {"nil", "empty", "one", "two", "long"},
  Cuts <- {0, 1, 2, 3, 4, 5, 6, 7, 8, 9, 10, 11, 12, 13, 14, 15, 16, 17, 18, 19, 20, 21, 22, 23, 24, 25, 26, 27, 28, 29, 30, 31, 32, 33, 34, 35, 36, 37, 38, 39, 40, 41, 42, 43, 44, 45, 60, 90, 130, 170},
  msg <- v1, bin <- v2, result <- v3

ElixirNodeCreate == INSTANCE ElixirNode WITH
  Workers <- {"w1", "w2", "w3"}, Options <- Failing, Senders <- {"s1"}, Metadata <- {"none"}, Messages <- {"a"},
  MaxRestarts <- 2, MaxSends <- 1, MaxTime <- 1, MaxStops <- 1, reg <- v1, wk <- v2, creator <- v3, pend <- v4,
  restarts <- v5, handled <- v6, now <- v7, sends <- v8, stops <- v9

\* Variables that a component does not have.
Unused12 == v13 = 0 /\ v14 = 0 /\ v15 = 0 /\ v16 = 0
Unused10 == v11 = 0 /\ v12 = 0 /\ v13 = 0 /\ v14 = 0 /\ v15 = 0 /\ v16 = 0
Unused9 == v10 = 0 /\ v11 = 0 /\ v12 = 0 /\ v13 = 0 /\ v14 = 0 /\ v15 = 0 /\ v16 = 0
Unused8 == v9 = 0 /\ v10 = 0 /\ v11 = 0 /\ v12 = 0 /\ v13 = 0 /\ v14 = 0 /\ v15 = 0 /\ v16 = 0
Unused7 == v8 = 0 /\ v9 = 0 /\ v10 = 0 /\ v11 = 0 /\ v12 = 0 /\ v13 = 0 /\ v14 = 0 /\ v15 = 0 /\ v16 = 0
Unused5 == v6 = 0 /\ v7 = 0 /\ v8 = 0 /\ v9 = 0 /\ v10 = 0 /\ v11 = 0 /\ v12 = 0 /\ v13 = 0 /\ v14 = 0 /\ v15 = 0 /\ v16 = 0
Unused4 == v5 = 0 /\ v6 = 0 /\ v7 = 0 /\ v8 = 0 /\ v9 = 0 /\ v10 = 0 /\ v11 = 0 /\ v12 = 0 /\ v13 = 0 /\ v14 = 0 /\ v15 = 0 /\ v16 = 0
Unused3 == v4 = 0 /\ v5 = 0 /\ v6 = 0 /\ v7 = 0 /\ v8 = 0 /\ v9 = 0 /\ v10 = 0 /\ v11 = 0 /\ v12 = 0 /\ v13 = 0 /\ v14 = 0 /\ v15 = 0 /\ v16 = 0
Unused0 == v1 = 0 /\ v2 = 0 /\ v3 = 0 /\ v4 = 0 /\ v5 = 0 /\ v6 = 0 /\ v7 = 0 /\ v8 = 0 /\ v9 = 0 /\ v10 = 0 /\ v11 = 0 /\ v12 = 0 /\ v13 = 0 /\ v14 = 0 /\ v15 = 0 /\ v16 = 0

PartsInit ==
  /\ part \in Parts
  /\ Init
  /\ \/ part = "SecureChannelV2" /\ SecureChannelV2!Init /\ Unused12
     \/ part = "SecureChannelV2Policy" /\ SecureChannelV2Policy!Init /\ Unused12
     \/ part = "SecureChannelV2Data" /\ SecureChannelV2Data!Init /\ Unused12
     \/ part = "SecureChannelV2Overlap" /\ SecureChannelV2Overlap!Init /\ Unused12
     \/ part = "CredentialsV2" /\ CredentialsV2!Init /\ Unused12
     \/ part = "IdentityHistory" /\ IdentityHistory!Init /\ Unused8
     \/ part = "IdentityKeys" /\ IdentityKeys!Init /\ Unused8
     \/ part = "Forwarding" /\ Forwarding!Init
     \/ part = "ForwardingRust" /\ ForwardingRust!Init
     \/ part = "ForwardingEphemeral" /\ ForwardingEphemeral!Init
     \/ part = "Portal" /\ Unused0
     \/ part = "UdsTransport" /\ UdsTransport!Init /\ Unused7
     \/ part = "Pipe2" /\ Pipe2!Init
     \/ part = "AbacEval" /\ AbacEval!Init /\ Unused4
     \/ part = "ElixirNode" /\ ElixirNode!Init /\ Unused9
     \/ part = "ElixirNodeIdle" /\ ElixirNodeIdle!Init /\ Unused9
     \/ part = "ElixirSecureChannel" /\ ElixirSecureChannel!Init /\ Unused5
     \/ part = "ElixirSecureChannelData" /\ ElixirSecureChannelData!Init /\ Unused5
     \/ part = "ElixirSecureChannelPolicies" /\ ElixirSecureChannelPolicies!Init /\ Unused5
     \/ part = "ElixirSecureChannelCredentials" /\ ElixirSecureChannelCredentials!Init /\ Unused5
     \/ part = "Stream" /\ Stream!Init
     \/ part = "ElixirSession" /\ ElixirSession!Init /\ Unused10
     \/ part = "KafkaCodec" /\ KafkaCodec!Init /\ Unused3
     \/ part = "ElixirNodeCreate" /\ ElixirNodeCreate!Init /\ Unused9

PartsNext ==
  /\ UNCHANGED part
  /\ \/ part = "SecureChannelV2" /\ SecureChannelV2!Next /\ UNCHANGED <<v13, v14, v15, v16>> /\ UNCHANGED vars
     \/ part = "SecureChannelV2Policy" /\ SecureChannelV2Policy!Next /\ UNCHANGED <<v13, v14, v15, v16>> /\ UNCHANGED vars
     \/ part = "SecureChannelV2Data" /\ SecureChannelV2Data!Next /\ UNCHANGED <<v13, v14, v15, v16>> /\ UNCHANGED vars
     \/ part = "SecureChannelV2Overlap" /\ SecureChannelV2Overlap!Next /\ UNCHANGED <<v13, v14, v15, v16>> /\ UNCHANGED vars
     \/ part = "CredentialsV2" /\ CredentialsV2!Next /\ UNCHANGED <<v13, v14, v15, v16>> /\ UNCHANGED vars
     \/ part = "IdentityHistory" /\ IdentityHistory!Next /\ UNCHANGED <<v9, v10, v11, v12, v13, v14, v15, v16>> /\ UNCHANGED vars
     \/ part = "IdentityKeys" /\ IdentityKeys!Next /\ UNCHANGED <<v9, v10, v11, v12, v13, v14, v15, v16>> /\ UNCHANGED vars
     \/ part = "Forwarding" /\ Forwarding!Next /\ UNCHANGED vars
     \/ part = "ForwardingRust" /\ ForwardingRust!Next /\ UNCHANGED vars
     \/ part = "ForwardingEphemeral" /\ ForwardingEphemeral!Next /\ UNCHANGED vars
     \/ part = "Portal" /\ Next /\ UNCHANGED <<v1, v2, v3, v4, v5, v6, v7, v8, v9, v10, v11, v12, v13, v14, v15, v16>>
     \/ part = "UdsTransport" /\ UdsTransport!Next /\ UNCHANGED <<v8, v9, v10, v11, v12, v13, v14, v15, v16>> /\ UNCHANGED vars
     \/ part = "Pipe2" /\ Pipe2!Next /\ UNCHANGED vars
     \/ part = "AbacEval" /\ AbacEval!Next /\ UNCHANGED <<v5, v6, v7, v8, v9, v10, v11, v12, v13, v14, v15, v16>> /\ UNCHANGED vars
     \/ part = "ElixirNode" /\ ElixirNode!Next /\ UNCHANGED <<v10, v11, v12, v13, v14, v15, v16>> /\ UNCHANGED vars
     \/ part = "ElixirNodeIdle" /\ ElixirNodeIdle!Next /\ UNCHANGED <<v10, v11, v12, v13, v14, v15, v16>> /\ UNCHANGED vars
     \/ part = "ElixirSecureChannel" /\ ElixirSecureChannel!Next /\ UNCHANGED <<v6, v7, v8, v9, v10, v11, v12, v13, v14, v15, v16>> /\ UNCHANGED vars
     \/ part = "ElixirSecureChannelData" /\ ElixirSecureChannelData!Next /\ UNCHANGED <<v6, v7, v8, v9, v10, v11, v12, v13, v14, v15, v16>> /\ UNCHANGED vars
     \/ part = "ElixirSecureChannelPolicies" /\ ElixirSecureChannelPolicies!Next /\ UNCHANGED <<v6, v7, v8, v9, v10, v11, v12, v13, v14, v15, v16>> /\ UNCHANGED vars
     \/ part = "ElixirSecureChannelCredentials" /\ ElixirSecureChannelCredentials!Next /\ UNCHANGED <<v6, v7, v8, v9, v10, v11, v12, v13, v14, v15, v16>> /\ UNCHANGED vars
     \/ part = "Stream" /\ Stream!Next /\ UNCHANGED vars
     \/ part = "ElixirSession" /\ ElixirSession!Next /\ UNCHANGED <<v11, v12, v13, v14, v15, v16>> /\ UNCHANGED vars
     \/ part = "KafkaCodec" /\ KafkaCodec!Next /\ UNCHANGED <<v4, v5, v6, v7, v8, v9, v10, v11, v12, v13, v14, v15, v16>> /\ UNCHANGED vars
     \/ part = "ElixirNodeCreate" /\ ElixirNodeCreate!Next /\ UNCHANGED <<v10, v11, v12, v13, v14, v15, v16>> /\ UNCHANGED vars

PartsSpec == PartsInit /\ [][PartsNext]_parts_vars

-----------------------------------------------------------------------------
\* The type invariants of the components.
TypesOK ==
  /\ TypeOK
  /\ part = "SecureChannelV2" => SecureChannelV2!TypeOK
  /\ part = "SecureChannelV2Policy" => SecureChannelV2Policy!TypeOK
  /\ part = "SecureChannelV2Data" => SecureChannelV2Data!TypeOK
  /\ part = "SecureChannelV2Overlap" => SecureChannelV2Overlap!TypeOK
  /\ part = "CredentialsV2" => CredentialsV2!TypeOK
  /\ part = "IdentityHistory" => IdentityHistory!TypeOK
  /\ part = "IdentityKeys" => IdentityKeys!TypeOK
  /\ part = "Forwarding" => Forwarding!TypeOK
  /\ part = "ForwardingRust" => ForwardingRust!TypeOK
  /\ part = "ForwardingEphemeral" => ForwardingEphemeral!TypeOK
  /\ part = "Pipe2" => Pipe2!TypeOK
  /\ part = "ElixirSecureChannel" => ElixirSecureChannel!TypeOK
  /\ part = "ElixirSecureChannelData" => ElixirSecureChannelData!TypeOK
  /\ part = "ElixirSecureChannelPolicies" => ElixirSecureChannelPolicies!TypeOK
  /\ part = "ElixirSecureChannelCredentials" => ElixirSecureChannelCredentials!TypeOK
  /\ part = "Stream" => Stream!TypeOK
  /\ part = "ElixirSession" => ElixirSession!TypeOK


\* The two ends of a channel or session are made for each other: they have the same
\* keys, each knows the identity of the other, and what one marks with a name came
\* from there; also when handshakes are repeated, interleaved, or stopped half-way.
EndsAgree ==
  /\ part = "SecureChannelV2" => SecureChannelV2!KeysAgree /\ SecureChannelV2!StaticKeyStays
  /\ part = "SecureChannelV2Data" => SecureChannelV2Data!Attributed
  /\ part = "ElixirSecureChannel" => ElixirSecureChannel!ResponderAgrees /\ ElixirSecureChannel!KeysPaired
  /\ part = "ElixirSecureChannelData" => ElixirSecureChannelData!MetadataTrue /\ ElixirSecureChannelData!KeysPaired
  /\ part = "ElixirSession" => ElixirSession!EndsMatch /\ ElixirSession!OwnPeer

\* Only who was accepted gets through: channels with identities that the trust
\* policy accepts, attributes vouched for by a credential and its purpose key,
\* messages that passed every step of the authorization of their address.
OnlyTheAccepted ==
  /\ part = "SecureChannelV2Policy" => SecureChannelV2Policy!TheirIdentity
  /\ part = "ElixirSecureChannelPolicies" => ElixirSecureChannelPolicies!OnlyAccepted /\ ElixirSecureChannelPolicies!ConnectedAccepted
  /\ part = "ElixirSecureChannelCredentials" => ElixirSecureChannelCredentials!OnlyAccepted
  /\ part = "CredentialsV2" => CredentialsV2!AttributesVouched /\ CredentialsV2!CacheIsOwn
  /\ part = "ElixirNode" => ElixirNode!HandledAuthorized

\* An address, alias or path leads to the one worker that is registered for it and
\* alive, through restarts, replacements, time-outs and closed connections; relays
\* go on refreshing theirs, and idle workers give theirs up in time.
AddressesLead ==
  \* every component keeps to its types
  /\ TypesOK
  /\ part = "UdsTransport" => UdsTransport!MapLive /\ UdsTransport!NoLoneReceiver
  /\ part = "ElixirNode" => ElixirNode!RegistryExact
  /\ part = "ElixirNodeIdle" => ElixirNodeIdle!IdleBound
  /\ part = "Forwarding" => Forwarding!HeartbeatGoesOn /\ Forwarding!RegistryAnswered
  /\ part = "ForwardingRust" => ForwardingRust!DeliveredToItsAlias
  /\ part = "ForwardingEphemeral" => ForwardingEphemeral!RegistryAnswered

\* The history of an identity, made by any sequence of creations and rotations on
\* several devices, verifies everywhere, keeps its identifier, and its maker can
\* sign with its last keys, after restarts too.
HistoriesVerify ==
  \* on two devices
  /\ part = "IdentityHistory" => IdentityHistory!MadeHistoriesDecode /\ IdentityHistory!SameIdentifier /\ IdentityHistory!MakerCanSign /\ IdentityHistory!PeerNotAhead
  \* with more keys, on one
  /\ part = "IdentityKeys" => IdentityKeys!MadeHistoriesDecode /\ IdentityKeys!SameIdentifier /\ IdentityKeys!MakerCanSign /\ IdentityKeys!PeerNotAhead



=============================================================================
