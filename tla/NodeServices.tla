---------------------------- MODULE NodeServices ----------------------------
(***************************************************************************)
(* The services of a node: the node manager starts a worker for each and   *)
(* lists it in its registry; the Kafka services need several workers, an   *)
(* outlet and an inlet.  A handler is a sequence of steps that awaits each *)
(* of them and returns at the first that fails, so it is written as a      *)
(* program: what ran before the failure stays.  The node manager's worker  *)
(* handles one request at a time.                                          *)
(***************************************************************************)
EXTENDS Integers, Sequences, FiniteSets

CONSTANTS Given,        \* addresses a request may name
          Requests,     \* the kinds of request made
          Ports,        \* ports of the bootstrap inlets
          HasTrust,     \* the node has a trust context
          MaxRequests   \* bound: requests handled

VARIABLES
  worker,   \* what runs at each address
  registry, \* the service maps of the registry, by kind
  kafka,    \* registry.kafka_services: kind, or "none"
  outlet,   \* the outlet with the bootstrap alias exists
  inlets,   \* bootstrap inlets: <<port, listener address>>
  program,  \* the steps the current handler has still to run
  request,  \* the request handled: <<kind, address>>
  reply,    \* "none" while it is handled, "ok" or "error"
  count

vars == <<worker, registry, kafka, outlet, inlets, program, request, reply, count>>

Fixed == {"authenticator", "issuer", "token_issuer", "token_acceptor", "interceptor", "consumers", "bootstrap"}
Addresses == Given \cup Fixed
Services == {"identity", "credentials", "authenticated", "uppercase", "echoer", "hop", "verifier", "okta",
             "authenticator_service"}
KafkaKinds == {"consumer", "producer", "outlet", "direct"}

----------------------------------------------------------------------------
(* The steps. *)
Absent(k, a) == <<"absent", k, a>>      \* registry check: error when listed
StartWorker(a, w) == <<"start", a, w>>  \* error when the address is taken
Register(k, a) == <<"register", k, a>>
Trust == <<"trust">>                    \* trust_context()?
Outlet == <<"outlet">>                  \* create_outlet for the bootstrap server
Inlet(p, a) == <<"inlet", p, a>>        \* create_inlet_impl through the listener at a
Enlist(k, a) == <<"enlist", k, a>>      \* kafka_services.insert
Listed(k, a) == <<"listed", k, a>>      \* delete: present and of this kind
StopWorker(a) == <<"stop", a>>          \* error when nothing runs there
Delist(a) == <<"delist", a>>

Simple(k, a) == <<Absent(k, a), StartWorker(a, k), Register(k, a)>>

IdentityService(a) == Simple("identity", a)
CredentialsService(a) == Simple("credentials", a)
AuthenticatedService(a) == Simple("authenticated", a)
UppercaseService(a) == Simple("uppercase", a)
EchoerService(a) == Simple("echoer", a)

HopService(a) == Simple("hop", a)
VerifierService(a) == Simple("verifier", a)
OktaService(a) == Simple("okta", a)

\* The direct authenticator, and the legacy address it also answers at.
DirectAuthenticator(a) ==
  Simple("authenticator_service", a) \o <<StartWorker("authenticator", "legacy")>>
CredentialIssuer == Simple("authenticator_service", "issuer")

TokenAuthenticators ==
  <<Absent("authenticator_service", "token_issuer"), Absent("authenticator_service", "token_acceptor"),
    StartWorker("token_issuer", "authenticator_service"), StartWorker("token_acceptor", "authenticator_service"),
    Register("authenticator_service", "token_issuer"), Register("authenticator_service", "token_acceptor")>>
AuthenticatorService(a) == DirectAuthenticator(a) \o CredentialIssuer \o TokenAuthenticators

\* The worker of the Kafka outlet manager, and the forwarder of consumers.
OutletManager == <<Trust, StartWorker("interceptor", "interceptor")>>
PrefixForwarder == <<StartWorker("consumers", "prefix")>>
PortalListener(a) == <<StartWorker(a, "listener")>>

\* The address given for a Kafka outlet is only listed: its workers are at
\* fixed addresses.
KafkaOutlet(a) == PrefixForwarder \o OutletManager \o <<Outlet, Enlist("outlet", a)>>
KafkaDirect(a, p) ==
  OutletManager \o <<Outlet, Trust, Inlet(p, a)>> \o PortalListener(a) \o <<Enlist("direct", a)>>

KafkaService(k, a, p) == <<Trust, Inlet(p, a)>> \o PortalListener(a) \o <<Enlist(k, a)>>
DeleteKafka(k, a) == <<Listed(k, a), StopWorker(a), Delist(a)>>

\* The dispatch of the node manager's worker.
Handler(r, a, p) ==
  CASE r = "identity" -> IdentityService(a)
    [] r = "credentials" -> CredentialsService(a)
    [] r = "authenticated" -> AuthenticatedService(a)
    [] r = "uppercase" -> UppercaseService(a)
    [] r = "echoer" -> EchoerService(a)
    [] r = "hop" -> HopService(a)
    [] r = "verifier" -> VerifierService(a)
    [] r = "okta" -> OktaService(a)
    [] r = "authenticator" -> AuthenticatorService(a)
    [] r = "outlet" -> KafkaOutlet(a)
    [] r = "direct" -> KafkaDirect(a, p)
    [] r \in {"consumer", "producer"} -> KafkaService(r, a, p)
    [] r = "delete_outlet" -> DeleteKafka("outlet", a)
    [] r = "delete_direct" -> DeleteKafka("direct", a)
    [] r = "delete_consumer" -> DeleteKafka("consumer", a)
    [] r = "delete_producer" -> DeleteKafka("producer", a)

Init ==
  /\ worker = [a \in Addresses |-> "none"] /\ registry = [k \in Services |-> {}]
  /\ kafka = [a \in Addresses |-> "none"] /\ outlet = FALSE /\ inlets = {}
  /\ program = <<>> /\ request = <<"none", "none">> /\ reply = "ok" /\ count = 0

Handle == \E r \in Requests, a \in Given, p \in Ports :
  /\ reply # "none" /\ count < MaxRequests /\ count' = count + 1
  /\ program' = Handler(r, a, p) /\ request' = <<r, a>> /\ reply' = "none"
  /\ UNCHANGED <<worker, registry, kafka, outlet, inlets>>

Op == Head(program)

Succeeds ==
  CASE Op[1] = "absent" -> Op[3] \notin registry[Op[2]]
    [] Op[1] = "start" -> worker[Op[2]] = "none"
    [] Op[1] = "trust" -> HasTrust
    [] Op[1] = "outlet" -> ~outlet /\ worker["bootstrap"] = "none"
    [] Op[1] = "inlet" -> \A i \in inlets : i[1] # Op[2]
    [] Op[1] = "listed" -> kafka[Op[3]] = Op[2]
    [] Op[1] = "stop" -> worker[Op[2]] # "none"
    [] OTHER -> TRUE

Run ==
  /\ reply = "none" /\ program # <<>> /\ Succeeds
  /\ program' = Tail(program)
  /\ worker' = CASE Op[1] = "start" -> [worker EXCEPT ![Op[2]] = Op[3]]
                 [] Op[1] = "stop" -> [worker EXCEPT ![Op[2]] = "none"]
                 [] Op[1] = "outlet" -> [worker EXCEPT !["bootstrap"] = "outlet"]
                 [] OTHER -> worker
  /\ registry' = IF Op[1] = "register" THEN [registry EXCEPT ![Op[2]] = @ \cup {Op[3]}] ELSE registry
  /\ kafka' = CASE Op[1] = "enlist" -> [kafka EXCEPT ![Op[3]] = Op[2]]
                [] Op[1] = "delist" -> [kafka EXCEPT ![Op[2]] = "none"]
                [] OTHER -> kafka
  /\ outlet' = (outlet \/ Op[1] = "outlet")
  /\ inlets' = IF Op[1] = "inlet" THEN inlets \cup {<<Op[2], Op[3]>>} ELSE inlets
  /\ UNCHANGED <<request, reply, count>>

Reply ==
  /\ reply = "none"
  /\ \/ program = <<>> /\ reply' = "ok"
     \/ program # <<>> /\ ~Succeeds /\ reply' = "error"
  /\ program' = <<>>
  /\ UNCHANGED <<worker, registry, kafka, outlet, inlets, request, count>>

Next == Handle \/ Run \/ Reply
Spec == Init /\ [][Next]_vars /\ WF_vars(Run \/ Reply)

----------------------------------------------------------------------------
\* The registry and the workers are of their types.
TypeOK ==
  /\ registry \in [Services -> SUBSET Addresses]
  /\ kafka \in [Addresses -> KafkaKinds \cup {"none"}]
  /\ inlets \subseteq Ports \X Given /\ reply \in {"none", "ok", "error"}

\* What list_services names runs: a listed service has its own worker at its
\* address, whatever starts failed half-way and whatever Kafka services were
\* deleted since.
ListedRuns == \A k \in Services : \A a \in registry[k] : worker[a] = k

\* An authenticator that was started with success is whole: the issuer and the
\* two workers for enrollment tokens run and are listed, even after earlier
\* attempts that failed (start_authenticator_service).
AuthenticatorWhole ==
  reply = "ok" /\ request[1] = "authenticator" =>
    /\ {request[2], "issuer", "token_issuer", "token_acceptor"} \subseteq registry["authenticator_service"]
    /\ worker["authenticator"] = "legacy"

\* Between requests, a Kafka consumer, producer or direct service that is listed
\* can be used: its listener runs and an inlet leads to it (it is listed last).
KafkaUsable ==
  reply # "none" => \A a \in Addresses : kafka[a] \in {"consumer", "producer", "direct"} =>
    worker[a] = "listener" /\ \E i \in inlets : i[2] = a

\* Two inlets never have the same port, though the inlet of a deleted service
\* stays (create_inlet_impl refuses an address that is taken).
OneInletPerPort == \A i, j \in inlets : i[1] = j[1] => i = j

============================================================================
