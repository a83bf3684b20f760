----------------------------- MODULE Forwarding -----------------------------
(***************************************************************************)
(* Relays.  A node starts a RemoteForwarder, which registers an alias with *)
(* a hub and keeps it registered by heartbeats; the hub has a forwarder    *)
(* for every alias and sends what comes for it to the node.  The hub is    *)
(* the Elixir static forwarding service (Kind "static"), the Rust          *)
(* forwarding service ("without_heartbeats") or either of the services     *)
(* that pick a random address ("ephemeral").  The node manager replaces a  *)
(* RemoteForwarder, with its connection, when the connection breaks.       *)
(*                                                                         *)
(* Every RemoteForwarder has a connection of its own: both are named by    *)
(* one number.  Connections are FIFO and lose what they hold when they     *)
(* break.                                                                  *)
(***************************************************************************)
EXTENDS Naturals, Sequences, FiniteSets

CONSTANTS Aliases,
          Kind,         \* "static", "without_heartbeats" or "ephemeral"
          MaxWorkers,   \* bound: RemoteForwarders started
          MaxCreates,   \* bound: the first of them, which requests may start
          MaxBreaks,    \* bound: broken connections, hub restarts, forwarder crashes
          MaxData,      \* bound: messages clients send to forwarders
          MaxDue,       \* bound: heartbeats waiting in a mailbox
          MaxFlight,    \* bound: messages on a connection when a heartbeat is sent
          Deletes,      \* BOOLEAN: relays are deleted
          Slow          \* BOOLEAN: a creation may time out while its answer is under way

Ids == 1..MaxWorkers
NoForwarder == MaxWorkers + 1    \* no worker at the hub for the alias
NoRoute == 0                     \* a forwarder that was restarted: route []

VARIABLES
  n,          \* RemoteForwarders started
  alias,      \* their aliases
  worker,     \* "none", "live" or "stopped"
  completed,  \* completion_msg_sent
  timer,      \* the DelayedEvent is scheduled
  due,        \* heartbeat messages in the worker's mailbox
  link,       \* connections: "none", "up", "broken" (unnoticed) or "closed"
  toHub,      \* registrations under way
  toNode,     \* answers and data under way
  wait,       \* who waits for the completion: "none", "create", "replace", "done", "failed"
  forwarder,  \* the hub's forwarders: where they send
  registry,   \* registry.forwarders of the node manager (0: no entry)
  session,    \* the connection instance of a session, by the worker it was made for (0: none)
  sent,       \* data messages sent to forwarders
  delivered,  \* <<alias, number, worker>> of the data the node was given
  breaks

vars == <<n, alias, worker, completed, timer, due, link, toHub, toNode, wait, forwarder,
          registry, session, sent, delivered, breaks>>
hubVars == <<forwarder, sent, breaks>>
managerVars == <<registry, session>>
workerVars == <<n, alias, worker, completed, timer, due>>

Heartbeats == Kind = "static"
Sessions == Kind # "without_heartbeats"
Fresh(a) == Kind = "ephemeral" => \A i \in 1..n : alias[i] # a

Init ==
    /\ n = 0
    /\ alias \in [Ids -> {CHOOSE a \in Aliases : TRUE}]
    /\ worker = [i \in Ids |-> "none"]
    /\ completed = [i \in Ids |-> FALSE]
    /\ timer = [i \in Ids |-> FALSE]
    /\ due = [i \in Ids |-> 0]
    /\ link = [i \in Ids |-> "none"]
    /\ toHub = [i \in Ids |-> <<>>]
    /\ toNode = [i \in Ids |-> <<>>]
    /\ wait = [i \in Ids |-> "none"]
    /\ forwarder = [a \in Aliases |-> NoForwarder]
    /\ registry = [a \in Aliases |-> 0]
    /\ session = [i \in Ids |-> 0]
    /\ sent = 0
    /\ delivered = {}
    /\ breaks = 0

(***************************************************************************)
(* RemoteForwarder.                                                        *)
(***************************************************************************)
\* RemoteForwarder::create and create_static: connect, start the worker, which
\* sends its registration, and wait for the completion.
StartForwarder(a, why, closed) ==
    /\ n < MaxWorkers
    /\ n' = n + 1
    /\ alias' = [alias EXCEPT ![n + 1] = a]
    /\ worker' = [worker EXCEPT ![n + 1] = "live"]
    /\ link' = [i \in Ids |-> IF i = n + 1 THEN "up" ELSE IF i \in closed THEN "closed" ELSE link[i]]
    /\ toHub' = [i \in Ids |-> IF i = n + 1 THEN <<a>> ELSE IF i \in closed THEN <<>> ELSE toHub[i]]
    /\ toNode' = [i \in Ids |-> IF i \in closed THEN <<>> ELSE toNode[i]]
    /\ wait' = [wait EXCEPT ![n + 1] = why]
    /\ UNCHANGED <<completed, timer, due>>

\* The DelayedEvent fires: its message is in the mailbox and cannot be
\* taken back.
HeartbeatFires(i) ==
    /\ timer[i]
    /\ due[i] < MaxDue
    /\ timer' = [timer EXCEPT ![i] = FALSE]
    /\ due' = [due EXCEPT ![i] = @ + 1]
    /\ UNCHANGED <<n, alias, worker, completed, link, toHub, toNode, wait, delivered>>
    /\ UNCHANGED <<hubVars, managerVars>>

\* handle_message at the heartbeat address: register again and schedule the
\* next.  Over a closed connection the sending fails and nothing is scheduled.
HandleHeartbeat(i) ==
    /\ due[i] > 0
    /\ Len(toHub[i]) + Len(toNode[i]) < MaxFlight
    /\ due' = [due EXCEPT ![i] = @ - 1]
    /\ timer' = [timer EXCEPT ![i] = @ \/ link[i] # "closed"]
    /\ toHub' = [toHub EXCEPT ![i] = IF link[i] = "up" THEN Append(@, alias[i]) ELSE @]
    /\ UNCHANGED <<n, alias, worker, completed, link, toNode, wait, delivered>>
    /\ UNCHANGED <<hubVars, managerVars>>

HandleAnswerQuiet(i) ==
    /\ toNode[i] # <<>>
    /\ Head(toNode[i]).type = "answer"
    /\ toNode' = [toNode EXCEPT ![i] = Tail(@)]
    /\ completed' = [completed EXCEPT ![i] = @ \/ worker[i] = "live"]
    /\ UNCHANGED <<n, alias, worker, timer, due, link, toHub, wait, delivered>>
    /\ UNCHANGED <<hubVars, managerVars>>

\* handle_message at main_remote with an empty onward route: an answer of the
\* hub.  The first completes the creation; after a time-out the callback address
\* is gone, or about to go, and sending to it may fail, which ends the handler.
HandleAnswer(i) ==
    /\ toNode[i] # <<>>
    /\ Head(toNode[i]).type = "answer"
    /\ toNode' = [toNode EXCEPT ![i] = Tail(@)]
    /\ \E ok \in IF completed[i] \/ wait[i] \in {"create", "replace"} THEN {TRUE} ELSE BOOLEAN :
         IF worker[i] = "live" /\ ok
           THEN /\ completed' = [completed EXCEPT ![i] = TRUE]
                /\ timer' = [timer EXCEPT ![i] = Heartbeats]
           ELSE UNCHANGED <<completed, timer>>
    /\ UNCHANGED <<n, alias, worker, due, link, toHub, wait, delivered>>
    /\ UNCHANGED <<hubVars, managerVars>>

\* handle_message at main_remote with a route: forward the data and schedule.
\* The Rust forwarder has popped main_remote off the route: what it sends goes
\* to the node's own workers without passing the RemoteForwarder.
HandleData(i) ==
    /\ toNode[i] # <<>>
    /\ Head(toNode[i]).type = "data"
    /\ toNode' = [toNode EXCEPT ![i] = Tail(@)]
    /\ IF worker[i] = "live" \/ Kind = "without_heartbeats"
         THEN /\ delivered' = delivered \cup {<<Head(toNode[i]).alias, Head(toNode[i]).number, i>>}
              /\ timer' = [timer EXCEPT ![i] = Heartbeats]
         ELSE UNCHANGED <<delivered, timer>>
    /\ UNCHANGED <<n, alias, worker, completed, due, link, toHub, wait>>
    /\ UNCHANGED <<hubVars, managerVars>>

(***************************************************************************)
(* The hub.                                                                *)
(***************************************************************************)

\* The services handle a registration.  The static service makes the alias's
\* forwarder if there is none and gives it the new route; the Rust service
\* starts a worker at the alias, which fails when the address is taken.
\* A forwarder tells the route of its registration.
HubRegister(i) ==
    /\ toHub[i] # <<>>
    /\ LET a == Head(toHub[i])
           accepted == Kind = "static" \/ forwarder[a] = NoForwarder
       IN /\ forwarder' = [forwarder EXCEPT ![a] = IF accepted THEN i ELSE @]
          /\ toNode' = [toNode EXCEPT ![i] =
                IF accepted THEN Append(@, [type |-> "answer", alias |-> a, number |-> 0]) ELSE @]
    /\ toHub' = [toHub EXCEPT ![i] = Tail(@)]
    /\ UNCHANGED <<workerVars, link, wait, delivered, sent, breaks, managerVars>>

\* A client's message reaches the forwarder of an alias: it goes on along the
\* forwarder's route.  Without one the message does not leave the hub.
HubForward(a) ==
    /\ sent < MaxData
    /\ sent' = sent + 1
    /\ toNode' = [i \in Ids |->
          IF i = forwarder[a] /\ link[i] = "up"
            THEN Append(toNode[i], [type |-> "data", alias |-> a, number |-> sent + 1])
            ELSE toNode[i]]
    /\ UNCHANGED <<workerVars, link, toHub, wait, forwarder, delivered, breaks, managerVars>>

(***************************************************************************)
(* The node manager.                                                       *)
(***************************************************************************)
\* create_forwarder: one request at a time.
CreateForwarder(a) ==
    /\ n < MaxCreates
    /\ \A i \in Ids : wait[i] # "create"
    /\ Fresh(a)
    /\ StartForwarder(a, "create", {})
    /\ UNCHANGED <<delivered, hubVars, registry, session>>

\* create_forwarder goes on with the completion: a session with the replacer, and
\* the entry of the registry.
CreateReturns(i) ==
    /\ wait[i] = "create"
    /\ completed[i]
    /\ wait' = [wait EXCEPT ![i] = "done"]
    /\ session' = [session EXCEPT ![i] = IF Sessions THEN i ELSE 0]
    /\ registry' = [registry EXCEPT ![alias[i]] = i]
    /\ UNCHANGED <<workerVars, link, toHub, toNode, delivered, hubVars>>

\* receive() of the completion times out: the worker is left running.
TimesOut(i) ==
    /\ wait[i] \in {"create", "replace"}
    /\ ~completed[i]
    /\ Slow \/ (toHub[i] = <<>> /\ toNode[i] = <<>>)
    /\ wait' = [wait EXCEPT ![i] = "failed"]
    /\ UNCHANGED <<workerVars, link, toHub, toNode, delivered, hubVars, managerVars>>

\* The replacer: close the old connection, connect and register again.  The
\* new connection instance is kept even when the registration fails then.
Replace(s) ==
    /\ session[s] # 0
    /\ wait[session[s]] # "replace"
    /\ link[session[s]] # "up" \/ wait[session[s]] = "failed"
    /\ \E a \in Aliases :
         /\ IF Kind = "ephemeral" THEN Fresh(a) ELSE a = alias[s]
         /\ StartForwarder(a, "replace", {session[s]})
    /\ session' = [session EXCEPT ![s] = n + 1]
    /\ UNCHANGED <<delivered, hubVars, registry>>

\* The replacer cannot connect: the old connection is closed all the same.
ReplaceFails(s) ==
    /\ session[s] # 0
    /\ link[session[s]] = "broken"
    /\ link' = [link EXCEPT ![session[s]] = "closed"]
    /\ UNCHANGED <<workerVars, toHub, toNode, wait, delivered, hubVars, managerVars>>

ReplaceReturns(i) ==
    /\ wait[i] = "replace"
    /\ completed[i]
    /\ wait' = [wait EXCEPT ![i] = "done"]
    /\ UNCHANGED <<workerVars, link, toHub, toNode, delivered, hubVars, managerVars>>

\* delete_forwarder: the registry's worker is stopped, its heartbeat with it.
DeleteForwarder(a) ==
    /\ Deletes
    /\ registry[a] # 0
    /\ registry' = [registry EXCEPT ![a] = 0]
    /\ worker' = [worker EXCEPT ![registry[a]] = "stopped"]
    /\ timer' = [timer EXCEPT ![registry[a]] = FALSE]
    /\ due' = [due EXCEPT ![registry[a]] = 0]
    /\ UNCHANGED <<n, alias, completed, link, toHub, toNode, wait, delivered, hubVars, session>>

(***************************************************************************)
(* Faults.                                                                 *)
(***************************************************************************)
Break(i) ==
    /\ breaks < MaxBreaks
    /\ link[i] = "up"
    /\ breaks' = breaks + 1
    /\ link' = [link EXCEPT ![i] = "broken"]
    /\ toHub' = [toHub EXCEPT ![i] = <<>>]
    /\ toNode' = [toNode EXCEPT ![i] = <<>>]
    /\ UNCHANGED <<workerVars, wait, forwarder, sent, delivered, managerVars>>

HubRestart ==
    /\ breaks < MaxBreaks
    /\ breaks' = breaks + 1
    /\ link' = [i \in Ids |-> IF link[i] = "up" THEN "broken" ELSE link[i]]
    /\ toHub' = [i \in Ids |-> <<>>]
    /\ toNode' = [i \in Ids |-> <<>>]
    /\ forwarder' = [a \in Aliases |-> NoForwarder]
    /\ UNCHANGED <<workerVars, wait, sent, delivered, managerVars>>

\* The process of a static forwarder is restarted by its supervisor: setup
\* gives it the empty route.
ForwarderCrash(a) ==
    /\ Kind = "static"
    /\ breaks < MaxBreaks
    /\ forwarder[a] \in Ids
    /\ breaks' = breaks + 1
    /\ forwarder' = [forwarder EXCEPT ![a] = NoRoute]
    /\ UNCHANGED <<workerVars, link, toHub, toNode, wait, sent, delivered, managerVars>>

System == \/ \E i \in Ids : HeartbeatFires(i) \/ HandleHeartbeat(i) \/ HandleAnswer(i) \/ HandleData(i)
                            \/ HubRegister(i) \/ CreateReturns(i) \/ TimesOut(i)
                            \/ ReplaceReturns(i)
          \/ \E s \in Ids : Replace(s)
Next == \/ System
        \/ \E s \in Ids : ReplaceFails(s)
        \/ \E a \in Aliases : CreateForwarder(a) \/ HubForward(a) \/ DeleteForwarder(a) \/ ForwarderCrash(a)
        \/ \E i \in Ids : Break(i)
        \/ HubRestart

Spec == Init /\ [][Next]_vars
\* The workers, the services and the medic run: every step of theirs that stays
\* possible is taken.
FairSpec == /\ Spec
            /\ \A i \in Ids : /\ WF_vars(HeartbeatFires(i)) /\ WF_vars(HandleHeartbeat(i))
                              /\ WF_vars(HandleAnswer(i)) /\ WF_vars(HandleData(i))
                              /\ WF_vars(HubRegister(i)) /\ WF_vars(CreateReturns(i))
                              /\ WF_vars(TimesOut(i)) /\ WF_vars(ReplaceReturns(i))
                              /\ WF_vars(Replace(i))

(***************************************************************************)
(* Properties.                                                             *)
(***************************************************************************)
TypeOK ==
    /\ n \in 0..MaxWorkers
    /\ alias \in [Ids -> Aliases]
    /\ worker \in [Ids -> {"none", "live", "stopped"}]
    /\ completed \in [Ids -> BOOLEAN]
    /\ timer \in [Ids -> BOOLEAN]
    /\ due \in [Ids -> 0..MaxDue]
    /\ link \in [Ids -> {"none", "up", "broken", "closed"}]
    /\ wait \in [Ids -> {"none", "create", "replace", "done", "failed"}]
    /\ forwarder \in [Aliases -> 0..NoForwarder]
    /\ registry \in [Aliases -> 0..MaxWorkers]
    /\ session \in [Ids -> 0..MaxWorkers]

\* A static relay whose creation was answered keeps a heartbeat scheduled or in its
\* mailbox as long as it lives and its connection was not closed under it: no
\* order of answers, data and heartbeats ends the refreshing (remote/worker.rs).
HeartbeatGoesOn ==
    \A i \in Ids : Heartbeats /\ worker[i] = "live" /\ completed[i] /\ link[i] # "closed" =>
        timer[i] \/ due[i] > 0

\* Data the node is given came over the connection of a relay that registered the
\* alias the client named, and in the end that relay's: two relays of one node,
\* replacements and late heartbeats never cross aliases.
DeliveredToItsAlias == \A d \in delivered : alias[d[3]] = d[1]

\* The node manager's entry names a relay of the alias it is filed under that was
\* answered by the hub, even if the creation was overtaken by a time-out, a
\* replacement or a second creation of the same alias.
RegistryAnswered ==
    \A a \in Aliases : registry[a] # 0 =>
        alias[registry[a]] = a /\ completed[registry[a]] /\ wait[registry[a]] = "done"

\* A forwarder of the Rust service never changes its route: a second registration
\* of a taken alias fails (start_worker in Forwarder::create) and gets no answer.
RouteIsFixedStep ==
  \A a \in Aliases : Kind # "static" /\ forwarder[a] \in Ids
     => forwarder'[a] \in {forwarder[a], NoForwarder}
RouteIsFixed == [][RouteIsFixedStep]_vars

Reachable(a) == \E i \in Ids : forwarder[a] = i /\ link[i] = "up" /\ worker[i] = "live"

\* A static relay the node manager watches over is reachable again after every
\* broken connection, restart of the hub and crash of its forwarder: by a heartbeat
\* or by the session's replacer.
Managed(s) == session[s] # 0
AliasReachable(s) == Reachable(alias[s])
RelayRecovers == \A s \in Ids : Managed(s) ~> AliasReachable(s)
=============================================================================
