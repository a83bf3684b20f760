------------------------------- MODULE Router -------------------------------
(***************************************************************************)
(* The node's router and the tasks it manages (ockam_node/src/router,      *)
(* relay, async_drop.rs): workers and processors behind their relays, and  *)
(* detached contexts.  They are started and stopped while the node runs,   *)
(* and all of them when it is stopped.                                     *)
(*                                                                         *)
(* Every task sends its own messages to the router in order, and the       *)
(* router handles one message at a time; messages of different tasks reach *)
(* it in any order.  A message in flight is therefore part of the state of *)
(* the task that sent it: `start', `ready_sent', and task = "stopped" for  *)
(* the last message of a task.  A caller that waits for the reply does     *)
(* nothing else meanwhile, so its call is one action.                      *)
(***************************************************************************)
EXTENDS Naturals, Sequences

CONSTANTS
  Tasks,        \* workers, processors and contexts, each started at most once
  Addresses,
  Labels,       \* names of clusters
  Clients,      \* tasks that send to workers and wait for them
  primary,      \* the first address of each task
  address_set,  \* all its addresses
  kind,         \* "worker", "processor" or "detached"
  StopNow,      \* whether the program calls Context::stop_now
  ProcessorStops,  \* the addresses it calls Context::stop_processor with
  MailboxSize,  \* capacity of a mailbox, 16 in the code
  None

ASSUME ProfileAssumption ==
  /\ primary \in [Tasks -> Addresses]
  /\ address_set \in [Tasks -> SUBSET Addresses]
  /\ kind \in [Tasks -> {"worker", "processor", "detached"}]
  /\ \A t \in Tasks : primary[t] \in address_set[t]
  /\ \A t \in Tasks : kind[t] = "processor" => address_set[t] = {primary[t]}

ASSUME NoneAssumption == None \notin Tasks \union Addresses

ASSUME MailboxAssumption == MailboxSize \in Nat \ {0}

ASSUME ProgramAssumption == StopNow \in BOOLEAN /\ ProcessorStops \subseteq Addresses

VARIABLES
  task,                 \* how far each task has come
  start,                \* what became of its StartWorker or StartProcessor
  ready_sent,           \* its SetReady is in flight
  mailbox,              \* number of messages in its mailbox
  cancelled,            \* the workers that had a handler cancelled
  client,               \* what each client is doing, and with which task
  address_records_map,  \* whose record each primary address holds
  records,              \* the AddressRecord of each task
  alias_map,            \* the primary address each address stands for
  cluster_order,        \* the clusters in the order they were made
  clusters,             \* the addresses of each cluster
  stopping,             \* addresses the shutdown waits for
  node_state,           \* RouterState.node_state
  router_open,          \* the router still handles messages
  timeout,              \* the task that will send AbortNode
  stop_call             \* the call of Context::stop

task_vars == <<task, start, ready_sent, mailbox, cancelled>>
map_vars == <<address_records_map, records, alias_map>>
cluster_vars == <<cluster_order, clusters, stopping>>
node_vars == <<node_state, router_open, timeout, stop_call>>
vars == <<task_vars, client, map_vars, cluster_vars, node_vars>>

Idle == [does |-> "nothing", with |-> None]
NewRecord == [sender |-> TRUE, state |-> "Running", ready |-> FALSE]

\* The context the router starts with, the application's, is one of the detached
\* contexts: its record is as start_worker::start would have made it.
Init ==
  /\ task = [t \in Tasks |-> "new"]
  /\ start = [t \in Tasks |-> "none"]
  /\ ready_sent = [t \in Tasks |-> FALSE]
  /\ mailbox = [t \in Tasks |-> 0]
  /\ cancelled = {}
  /\ client = [c \in Clients |-> Idle]
  /\ address_records_map = [a \in Addresses |-> None]
  /\ records = [t \in Tasks |-> NewRecord]
  /\ alias_map = [a \in Addresses |-> None]
  /\ cluster_order = <<>>
  /\ clusters = [l \in Labels |-> {}]
  /\ stopping = {}
  /\ node_state = "Running"
  /\ router_open = TRUE
  /\ timeout = "off"
  /\ stop_call = "none"

-----------------------------------------------------------------------------
(* Starting.                                                               *)

\* WorkerBuilder, ProcessorBuilder and new_detached spawn the relay, if there
\* is one, before they send the start message.
Spawn(t) ==
  /\ task[t] = "new"
  /\ task' = [task EXCEPT ![t] = "initialize"]
  /\ start' = [start EXCEPT ![t] = "sent"]
  /\ UNCHANGED <<ready_sent, mailbox, cancelled, client, map_vars, cluster_vars, node_vars>>

\* The context whose start is over goes to its owner, or is dropped with the
\* error; a relay notices nothing yet.
ContextAfter(t, outcome) ==
  IF kind[t] # "detached" THEN task
  ELSE [task EXCEPT ![t] = IF outcome = "accepted" THEN "running" ELSE "stopped"]

\* start_worker::start, start_processor::start.  Only the primary address is
\* looked up; an alias in use is taken over.
StartAccepted(t) ==
  /\ start[t] = "sent"
  /\ node_state = "Running"
  /\ address_records_map[primary[t]] = None
  /\ start' = [start EXCEPT ![t] = "accepted"]
  /\ task' = ContextAfter(t, "accepted")
  /\ address_records_map' = [address_records_map EXCEPT ![primary[t]] = t]
  /\ alias_map' = [a \in Addresses |->
                     IF a \in address_set[t] THEN primary[t] ELSE alias_map[a]]
  /\ UNCHANGED <<ready_sent, mailbox, cancelled, client, records, cluster_vars, node_vars>>

\* check_addr_not_exist, or reject.  The senders are dropped.
StartRejected(t) ==
  /\ start[t] = "sent"
  /\ \/ node_state = "Running" /\ address_records_map[primary[t]] # None
     \/ node_state = "Stopping"
  /\ start' = [start EXCEPT ![t] = "rejected"]
  /\ task' = ContextAfter(t, "rejected")
  /\ UNCHANGED <<ready_sent, mailbox, cancelled, client, map_vars, cluster_vars, node_vars>>

\* NodeState::Dead => unreachable!() ends the router's thread.
StartPanics(t) ==
  /\ start[t] = "sent"
  /\ node_state = "Dead"
  /\ router_open' = FALSE
  /\ UNCHANGED <<task_vars, client, map_vars, cluster_vars, node_state, timeout,
                 stop_call>>

-----------------------------------------------------------------------------
(* What a relay does.                                                      *)

\* t's senders are gone: its start was refused, or its record was dropped.
Unregistered(t) ==
  start[t] # "sent" /\ address_records_map[primary[t]] # t

MailboxClosedByFreeOnly(t) ==
  /\ Unregistered(t)
  /\ \A c \in Clients : client[c] # [does |-> "send", with |-> t]

\* No sender of t's mailbox is left, clones included.
MailboxClosed(t) ==
  /\ start[t] # "sent"
  /\ Unregistered(t) \/ ~records[t].sender
  /\ \A c \in Clients : client[c] # [does |-> "send", with |-> t]

\* Worker::initialize or Processor::initialize returns; SetReady is sent.
Initialized(t) ==
  /\ task[t] = "initialize"
  /\ kind[t] # "detached"
  /\ task' = [task EXCEPT ![t] = "running"]
  /\ ready_sent' = [ready_sent EXCEPT ![t] = TRUE]
  /\ UNCHANGED <<start, mailbox, cancelled, client, map_vars, cluster_vars, node_vars>>

\* WorkerRelay::recv_message takes a message from the mailbox for the handler.
TakeMessage(t) ==
  /\ kind[t] = "worker"
  /\ task[t] = "running"
  /\ mailbox[t] > 0
  /\ task' = [task EXCEPT ![t] = "handling"]
  /\ mailbox' = [mailbox EXCEPT ![t] = @ - 1]
  /\ UNCHANGED <<start, ready_sent, cancelled, client, map_vars, cluster_vars, node_vars>>

Leave(t, state) ==
  /\ task' = [task EXCEPT ![t] = state]
  /\ UNCHANGED <<start, ready_sent, mailbox, cancelled, client, map_vars, cluster_vars, node_vars>>

\* Worker::handle_message returns, with a result or an error.
HandlerReturns(t) ==
  /\ task[t] = "handling"
  /\ Leave(t, "running")

\* The control channel is closed with the record, and recv() on it returns none
\* at once: select! drops the handler where it waits, and its message with it.
HandlerCancelled(t) ==
  /\ task[t] = "handling"
  /\ Unregistered(t)
  /\ task' = [task EXCEPT ![t] = "running"]
  /\ cancelled' = cancelled \union {t}
  /\ UNCHANGED <<start, ready_sent, mailbox, client, map_vars, cluster_vars, node_vars>>

NoMoreMessagesUndrained(t) ==
  /\ kind[t] = "worker"
  /\ task[t] = "running"
  /\ MailboxClosed(t)
  /\ Leave(t, "shutdown")

\* WorkerRelay::recv_message returns false: the mailbox is closed and empty.
NoMoreMessages(t) ==
  /\ kind[t] = "worker"
  /\ task[t] = "running"
  /\ MailboxClosed(t) /\ mailbox[t] = 0
  /\ Leave(t, "shutdown")

\* ProcessorRelay: the control channel has a signal, or is closed.
Interrupt(t) ==
  /\ kind[t] = "processor"
  /\ task[t] = "running"
  /\ start[t] # "sent"
  /\ Unregistered(t) \/ records[t].state = "Stopping"
  /\ Leave(t, "shutdown")

\* Processor::process returns false.
ProcessReturnsFalse(t) ==
  /\ kind[t] = "processor"
  /\ task[t] = "running"
  /\ Leave(t, "shutdown")

\* The shutdown hook returns; StopAck is sent and the relay is over.
ShutdownDone(t) ==
  /\ task[t] = "shutdown"
  /\ Leave(t, "stopped")

\* The owner of a detached context drops it: AsyncDrop sends StopWorker.
DropContext(t) ==
  /\ kind[t] = "detached"
  /\ task[t] = "running"
  /\ Leave(t, "stopped")

-----------------------------------------------------------------------------
(* What clients do.                                                        *)

\* SenderReq, resolved to a clone of the sender in the record.  Only workers'
\* mailboxes are followed: what reads the others is not the relay.
SenderReq(c, a) ==
  LET p == alias_map[a]
      t == IF p = None THEN None ELSE address_records_map[p]
  IN  /\ client[c] = Idle
      /\ t # None
      /\ kind[t] = "worker"
      /\ records[t].state = "Running" /\ records[t].sender
      /\ client' = [client EXCEPT ![c] = [does |-> "send", with |-> t]]
      /\ UNCHANGED <<task_vars, map_vars, cluster_vars, node_vars>>

\* The client puts its message into the mailbox and drops the clone.
SendToMailbox(c) ==
  LET t == client[c].with
  IN  /\ client[c].does = "send"
      /\ mailbox[t] < MailboxSize
      /\ mailbox' = [mailbox EXCEPT ![t] = @ + 1]
      /\ client' = [client EXCEPT ![c] = Idle]
      /\ UNCHANGED <<task, start, ready_sent, cancelled, map_vars, cluster_vars, node_vars>>

\* CheckReady of an address that is not ready: the reply is kept with the
\* record.  A ready address, or an unknown one, is answered at once.
CheckReady(c, a) ==
  LET t == address_records_map[a]
  IN  /\ client[c] = Idle
      /\ t # None
      /\ ~records[t].ready
      /\ client' = [client EXCEPT ![c] = [does |-> "wait", with |-> t]]
      /\ UNCHANGED <<task_vars, map_vars, cluster_vars, node_vars>>

\* The clients that wait for t have their answer, or their reply is dropped.
WaitersReleased(t) ==
  [c \in Clients |-> IF t # None /\ client[c] = [does |-> "wait", with |-> t]
                     THEN Idle ELSE client[c]]

\* SetReady, for the record its address has now; without one it is dropped.
SetReady(t) ==
  LET u == address_records_map[primary[t]]
  IN  /\ ready_sent[t]
      /\ ready_sent' = [ready_sent EXCEPT ![t] = FALSE]
      /\ records' = IF u = None THEN records ELSE [records EXCEPT ![u].ready = TRUE]
      /\ client' = WaitersReleased(u)
      /\ UNCHANGED <<task, start, mailbox, cancelled, address_records_map, alias_map,
                     cluster_vars, node_vars>>

\* SetCluster, called by a task about its own address.
SetCluster(t, label) ==
  LET u == address_records_map[primary[t]]
  IN  /\ task[t] \in {"initialize", "running", "handling"}
      /\ u # None
      /\ clusters' = [clusters EXCEPT ![label] = @ \union address_set[u]]
      /\ cluster_order' = IF \E i \in 1 .. Len(cluster_order) : cluster_order[i] = label
                          THEN cluster_order ELSE Append(cluster_order, label)
      /\ UNCHANGED <<task_vars, client, map_vars, stopping, node_vars>>

-----------------------------------------------------------------------------
(* Stopping one task.                                                      *)

\* StopWorker of a real worker: the sender is dropped, the record stays until
\* the relay acknowledges.
StopWorker(a) ==
  LET p == alias_map[a]
      t == IF p = None THEN None ELSE address_records_map[p]
  IN  /\ t # None
      /\ records' = [records EXCEPT ![t].sender = FALSE]
      /\ UNCHANGED <<task_vars, client, address_records_map, alias_map,
                     cluster_vars, node_vars>>

\* StopProcessor: the record at the address goes at once, of whatever kind it is,
\* and with it the senders of the mailbox and of the control channel the relay
\* listens to.  Of its addresses only this one is freed.
StopProcessor(a) ==
  LET t == address_records_map[a]
  IN  /\ t # None
      /\ address_records_map' = [address_records_map EXCEPT ![a] = None]
      /\ alias_map' = [alias_map EXCEPT ![a] = None]
      /\ client' = WaitersReleased(t)
      /\ UNCHANGED <<task_vars, records, cluster_vars, node_vars>>

FreeKeepsAliases(p) ==
  /\ address_records_map' = [address_records_map EXCEPT ![p] = None]
  /\ alias_map' = [alias_map EXCEPT ![p] = None]
  /\ client' = WaitersReleased(address_records_map[p])

FreeKeepsRecord(p) ==
  /\ alias_map' = [alias_map EXCEPT ![p] = None]
  /\ UNCHANGED <<address_records_map, client>>

\* free_address, but for the set of stopping addresses.
FreeAddress(p) ==
  LET t == address_records_map[p]
  IN  /\ address_records_map' = [address_records_map EXCEPT ![p] = None]
      /\ alias_map' = IF t = None THEN alias_map
                      ELSE [a \in Addresses |->
                              IF a \in address_set[t] THEN None ELSE alias_map[a]]
      /\ client' = WaitersReleased(t)

StopDetachedStillAwaited(t) ==
  /\ kind[t] = "detached"
  /\ task[t] = "stopped"
  /\ task' = [task EXCEPT ![t] = "gone"]
  /\ FreeAddress(primary[t])
  /\ UNCHANGED <<start, ready_sent, mailbox, cancelled, records, cluster_vars, node_vars>>

\* StopWorker of a detached context, from AsyncDrop.
StopDetached(t) ==
  LET p == alias_map[primary[t]]
  IN  /\ kind[t] = "detached"
      /\ task[t] = "stopped"
      /\ task' = [task EXCEPT ![t] = "gone"]
      /\ IF p # None /\ address_records_map[p] # None
         THEN FreeAddress(p) /\ stopping' = stopping \ {p}
         ELSE UNCHANGED <<address_records_map, alias_map, client, stopping>>
      /\ UNCHANGED <<start, ready_sent, mailbox, cancelled, records, cluster_order, clusters,
                     node_vars>>

-----------------------------------------------------------------------------
(* Stopping the node.                                                      *)

\* AddressRecord::stop on the records at addrs: workers lose their sender,
\* processors are signalled.
Stopped(map, addrs) ==
  [t \in Tasks |->
     IF \E a \in addrs : map[a] = t
     THEN [records[t] EXCEPT !.state = "Stopping",
                             !.sender = @ /\ kind[t] = "processor"]
     ELSE records[t]]

\* The records whose stop may fail: signalling a processor whose relay is over
\* is an error, from when the relay has sent its StopAck.
MayFail(map, addrs) ==
  {a \in addrs : kind[map[a]] = "processor" /\ task[map[a]] \in {"stopped", "gone"}}

\* The loop that stops the records at addrs, up to the first failure.  Records
\* come in the order of their addresses, which tells nothing about the tasks.
StopRecords(map, addrs, failing) ==
  IF failing = {}
  THEN records' = Stopped(map, addrs)
  ELSE \E before \in SUBSET (addrs \ failing) : records' = Stopped(map, before)

\* stop_next_cluster: signal the cluster made last or, when none is left,
\* answer Context::stop and leave the loop.  map, left and call: the records,
\* the stopping addresses and the call by now.
StopNextCluster(map, left, call) ==
  LET last    == Len(cluster_order)
      label   == cluster_order[last]
      members == {a \in Addresses : map[a] # None /\ a \in clusters[label]}
      done    == cluster_order = <<>> /\ node_state' = "Stopping"
  IN  /\ IF cluster_order = <<>>
         THEN stopping' = left /\ UNCHANGED <<records, cluster_order, clusters>>
         ELSE /\ cluster_order' = SubSeq(cluster_order, 1, last - 1)
              /\ clusters' = [clusters EXCEPT ![label] = {}]
              /\ \E failing \in SUBSET MayFail(map, members) :
                   /\ StopRecords(map, members, failing)
                   /\ stopping' = IF failing = {} THEN left \union members ELSE left
      /\ router_open' = (router_open /\ ~done)
      /\ stop_call' = IF done THEN "ok" ELSE call

NonClusterWorkersAll ==
  {a \in Addresses : /\ address_records_map[a] # None
                     /\ kind[address_records_map[a]] # "detached"}

\* The addresses graceful stops first: in no cluster, and not detached.
NonClusterWorkers ==
  {a \in Addresses : /\ address_records_map[a] # None
                     /\ kind[address_records_map[a]] # "detached"
                     /\ \A l \in Labels : a \notin clusters[l]}

TimeoutNotStarted(failing) == timeout

\* The timeout is started last, and not after a stop that failed.
TimeoutStarted(failing) == IF failing = {} THEN "running" ELSE timeout

\* StopNode(Graceful): shutdown::graceful, and handle_msg when it returns true.
Graceful ==
  /\ stop_call = "none"
  /\ node_state' = "Stopping"
  /\ \/ /\ NonClusterWorkers = {}
        /\ StopNextCluster(address_records_map, stopping, "waiting")
        /\ UNCHANGED timeout
     \/ /\ NonClusterWorkers # {}
        /\ \E failing \in SUBSET MayFail(address_records_map, NonClusterWorkers) :
             /\ StopRecords(address_records_map, NonClusterWorkers, failing)
             /\ stopping' = IF failing = {} THEN stopping \union NonClusterWorkers
                                            ELSE stopping
             /\ timeout' = TimeoutStarted(failing)
        /\ stop_call' = "waiting"
        /\ UNCHANGED <<cluster_order, clusters, router_open>>
  /\ UNCHANGED <<task_vars, client, address_records_map, alias_map>>

StopAckEager(t) ==
  /\ kind[t] # "detached"
  /\ task[t] = "stopped"
  /\ ~ready_sent[t]
  /\ task' = [task EXCEPT ![t] = "gone"]
  /\ FreeAddress(primary[t])
  /\ UNCHANGED node_state
  /\ IF node_state = "Running"
     THEN /\ stopping' = stopping \ {primary[t]}
          /\ UNCHANGED <<records, cluster_order, clusters, router_open, stop_call>>
     ELSE StopNextCluster(address_records_map', stopping \ {primary[t]}, stop_call)
  /\ UNCHANGED <<start, ready_sent, mailbox, cancelled, timeout>>

\* StopAck: the address is freed.  While the node is stopping, the next cluster
\* follows once no address is left to wait for.
StopAck(t) ==
  LET left == stopping \ {primary[t]}
  IN  /\ kind[t] # "detached"
      /\ task[t] = "stopped"
      /\ ~ready_sent[t]
      /\ task' = [task EXCEPT ![t] = "gone"]
      /\ FreeAddress(primary[t])
      /\ UNCHANGED node_state
      /\ IF node_state = "Running" \/ left # {}
         THEN /\ stopping' = left
              /\ UNCHANGED <<records, cluster_order, clusters, router_open, stop_call>>
         ELSE StopNextCluster(address_records_map', left, stop_call)
      /\ UNCHANGED <<start, ready_sent, mailbox, cancelled, timeout>>

\* clear_address_records_map; the replies kept in the records are dropped.
ClearRecords ==
  /\ address_records_map' = [a \in Addresses |-> None]
  /\ client' = [c \in Clients |-> IF client[c].does = "wait" THEN Idle ELSE client[c]]

\* AbortNode, some time after the timeout was started.
AbortNode ==
  /\ timeout = "running"
  /\ timeout' = "fired"
  /\ IF node_state = "Stopping"
     THEN ClearRecords /\ stop_call' = "ok" /\ router_open' = FALSE
     ELSE UNCHANGED <<address_records_map, client, stop_call, router_open>>
  /\ UNCHANGED <<task_vars, records, alias_map, cluster_vars, node_state>>

\* StopNode(Immediate), from Context::stop_now.  stop_now drops its end of the
\* reply, so the reply fails and handle_msg returns its error instead of true:
\* the router stays in its loop.  A call of Context::stop loses its reply.
Immediate ==
  /\ node_state # "Dead"
  /\ ClearRecords
  /\ node_state' = "Dead"
  /\ stop_call' = IF stop_call = "waiting" THEN "err" ELSE stop_call
  /\ UNCHANGED <<task_vars, records, alias_map, cluster_vars, router_open, timeout>>

-----------------------------------------------------------------------------
Relay(t) ==
  \/ Initialized(t)
  \/ TakeMessage(t)
  \/ HandlerReturns(t)
  \/ HandlerCancelled(t)
  \/ NoMoreMessages(t)
  \/ Interrupt(t)
  \/ ProcessReturnsFalse(t)
  \/ ShutdownDone(t)

Handle(t) ==
  \/ StartAccepted(t)
  \/ StartRejected(t)
  \/ StartPanics(t)
  \/ SetReady(t)
  \/ StopDetached(t)
  \/ StopAck(t)

Next ==
  /\ router_open
  /\ \/ \E t \in Tasks : Spawn(t) \/ Relay(t) \/ DropContext(t) \/ Handle(t)
     \/ \E t \in Tasks, label \in Labels : SetCluster(t, label)
     \/ \E c \in Clients, a \in Addresses : SenderReq(c, a) \/ CheckReady(c, a)
     \/ \E c \in Clients : SendToMailbox(c)
     \/ \E a \in Addresses : StopWorker(a)
     \/ \E a \in ProcessorStops : StopProcessor(a)
     \/ Graceful
     \/ AbortNode
     \/ StopNow /\ Immediate

Spec == Init /\ [][Next]_vars

\* What the runtime guarantees: the router takes every message sent to it, and
\* the timeout elapses.  Nothing is assumed about the code of workers.
RouterFairness ==
  /\ \A t \in Tasks : WF_vars(router_open /\ Handle(t))
  /\ WF_vars(router_open /\ AbortNode)

\* Workers and processors whose hooks and handlers return, and clients that
\* send what they resolved an address for.
RelayFairness ==
  /\ \A t \in Tasks : /\ WF_vars(router_open /\ Initialized(t))
                      /\ WF_vars(router_open /\ TakeMessage(t))
                      /\ WF_vars(router_open /\ HandlerReturns(t))
                      /\ WF_vars(router_open /\ NoMoreMessages(t))
                      /\ WF_vars(router_open /\ Interrupt(t))
                      /\ WF_vars(router_open /\ ShutdownDone(t))
  /\ \A c \in Clients : WF_vars(router_open /\ SendToMailbox(c))

RouterSpec == Spec /\ RouterFairness

-----------------------------------------------------------------------------
(* Properties.                                                             *)

\* Type invariant of the tasks, the router's maps and the node's state.
TypeOK ==
  /\ task \in [Tasks -> {"new", "initialize", "running", "handling", "shutdown",
                         "stopped", "gone"}]
  /\ start \in [Tasks -> {"none", "sent", "accepted", "rejected"}]
  /\ ready_sent \in [Tasks -> BOOLEAN]
  /\ mailbox \in [Tasks -> 0 .. MailboxSize]
  /\ cancelled \subseteq Tasks
  /\ client \in [Clients -> [does : {"nothing", "send", "wait"},
                             with : Tasks \union {None}]]
  /\ \A c \in Clients : client[c].does # "nothing" => client[c].with # None
  /\ address_records_map \in [Addresses -> Tasks \union {None}]
  /\ records \in [Tasks -> [sender : BOOLEAN, state : {"Running", "Stopping"},
                            ready : BOOLEAN]]
  /\ alias_map \in [Addresses -> Addresses \union {None}]
  /\ cluster_order \in Seq(Labels)
  /\ clusters \in [Labels -> SUBSET Addresses]
  /\ stopping \subseteq Addresses
  /\ node_state \in {"Running", "Stopping", "Dead"}
  /\ router_open \in BOOLEAN
  /\ timeout \in {"off", "running", "fired"}
  /\ stop_call \in {"none", "waiting", "ok", "err"}

\* A record is of a task that was started at its address, and a worker's is
\* gone with its relay: no StopAck overtakes the start of its worker, whose
\* mailbox is open until then, and free_address leaves no record behind.
NoStaleRecords ==
  \A a \in Addresses :
    LET t == address_records_map[a]
    IN  t # None => /\ primary[t] = a
                    /\ start[t] = "accepted"
                    /\ kind[t] = "worker" => task[t] # "gone"

\* The shutdown waits for an address only while a task it signalled there has its
\* StopAck, or the StopWorker of AsyncDrop, still to send: free_address, called
\* for both, takes the address off the stopping ones.  A processor may be gone
\* before its record is made, and a context finds its address no more when
\* stop_processor was called with it.
WaitsForTheLiving ==
  node_state = "Stopping" => \A a \in stopping :
    \E t \in Tasks :
      /\ primary[t] = a /\ records[t].state = "Stopping"
      /\ \/ task[t] # "gone"
         \/ kind[t] = "processor"
         \/ kind[t] = "detached" /\ a \in ProcessorStops

\* No two tasks share an address.
UniqueAddresses ==
  \A t, u \in Tasks : t # u => address_set[t] \intersect address_set[u] = {}

\* The tasks whose record stays until they are gone, but for the timeout: nothing
\* else frees their addresses, and neither stop_now nor stop_processor takes it.
KeepsRecord(t) ==
  UniqueAddresses /\ ~StopNow /\ primary[t] \notin ProcessorStops

\* What clients put into the mailbox of a worker is taken out before its shutdown
\* hook runs, though the router drops its sender while they hold clones of it.
\* The handler of each message returns, where the worker keeps its record:
\* stopping a worker closes its mailbox and not its control channel.
MailboxesDrained ==
  \A t \in Tasks : kind[t] = "worker" =>
    /\ task[t] \in {"shutdown", "stopped", "gone"} => mailbox[t] = 0
    /\ KeepsRecord(t) => t \notin cancelled

\* While the records are not cleared, by stop_now or by the timeout, alias_map and
\* address_records_map agree, so that stop_worker and resolve find a record for
\* every address that has a primary address ("Actually should not happen",
\* stop_worker.rs).  It happens only with the other addresses of a task that
\* stop_processor was called for.
AliasesHaveRecords ==
  UniqueAddresses /\ ~StopNow /\ router_open =>
    \A a \in Addresses :
      LET p == alias_map[a]
          t == IF p = None THEN None ELSE address_records_map[p]
      IN  /\ p = None => \A u \in Tasks : a \in address_set[u] =>
                                           address_records_map[primary[u]] # u
          /\ t # None => a \in address_set[t]
          /\ p # None /\ t = None => p \in ProcessorStops \ {a}

\* "Clusters are de-allocated in reverse order of their initialisation"
\* (Context::set_cluster): when the node signals workers to stop, those it
\* signalled before are over, and no worker of a cluster is signalled before
\* the clusters made after it.
StopsInTurn ==
  [][\A t, u \in Tasks :
       records[t].state = "Running" /\ records'[t].state = "Stopping" =>
         /\ records[u].state = "Stopping" => task'[u] = "gone"
         /\ \A i \in 1 .. Len(cluster_order) :
              primary[t] \in clusters[cluster_order[i]] =>
                i = Len(cluster_order)
                \/ primary[t] \in clusters[cluster_order[Len(cluster_order)]]]_vars

\* "This call will hang until a safe shutdown has been completed"
\* (Context::stop): unless the timeout was reached, when the call returns
\* every worker that was started has run its shutdown hook.  It does not hold for
\* one whose record stop_processor took: the router knows nothing of it any more.
SafeShutdown ==
  stop_call = "ok" /\ timeout # "fired" =>
    \A t \in Tasks :
      /\ start[t] = "accepted" /\ kind[t] = "worker"
      /\ primary[t] \notin ProcessorStops
      => task[t] = "gone"

\* "This call will hang until a safe shutdown has been completed or the desired
\* timeout has been reached" (Context::stop_timeout), and no longer: it returns.
StopReturns == stop_call = "waiting" ~> stop_call = "ok"

\* Where hooks and handlers return, a worker that was stopped runs its shutdown
\* hook and frees its address, however many clients still hold its sender.
StoppedWorkerEnds ==
  RelayFairness =>
    \A t \in Tasks :
      (kind[t] = "worker" /\ ~records[t].sender) ~> (task[t] = "gone" \/ ~router_open)

-----------------------------------------------------------------------------
(* Inductive invariants.                                                   *)

Ended == {"shutdown", "stopped", "gone"}

\* Messages and senders are of tasks whose start was accepted.
OnlyAcceptedReceive ==
  /\ \A t \in Tasks : mailbox[t] # 0 \/ task[t] = "handling" => start[t] = "accepted"
  /\ \A c \in Clients : client[c].does = "send" => start[client[c].with] = "accepted"

\* What holds of every task and its record at any time: the start message is
\* sent once (WorkerRelay::init and start_worker), records are of tasks started
\* at their address, messages go to tasks that were accepted, and a relay ends its
\* loop over recv_message only once the router and all clients have dropped their
\* senders and the mailbox is empty.
LifecycleInv ==
  /\ TypeOK
  /\ \A t \in Tasks : start[t] # "none" => task[t] # "new"
  /\ \A t \in Tasks : kind[t] = "detached" /\ start[t] = "sent" => task[t] = "initialize"
  /\ \A t \in Tasks : kind[t] = "worker" /\ task[t] \in Ended =>
                       MailboxClosed(t) /\ mailbox[t] = 0
  /\ OnlyAcceptedReceive
  /\ NoStaleRecords

\* Address a of task t stands for its primary address as long as t has its record,
\* or is left behind by stop_processor.
AliasLeads(t, a) ==
  \/ alias_map[a] = IF address_records_map[primary[t]] = t THEN primary[t] ELSE None
  \/ /\ alias_map[a] = primary[t] /\ address_records_map[primary[t]] = None
     /\ primary[t] \in ProcessorStops \ {a}

\* Why the two maps agree: an alias leads to the record of the one task that has
\* it, from StartWorker until free_address.
AliasInv ==
  UniqueAddresses /\ ~StopNow /\ router_open =>
    /\ \A t \in Tasks : \A a \in address_set[t] : AliasLeads(t, a)
    /\ \A a \in Addresses : alias_map[a] # None => \E t \in Tasks : a \in address_set[t]

\* Why no handler of such a worker is cancelled: it is registered until its StopAck.
RecordInv ==
  ~StopNow =>
    /\ node_state # "Dead"
    /\ timeout # "off" => node_state = "Stopping"
    /\ timeout = "fired" => ~router_open
    /\ \A t \in Tasks : kind[t] = "worker" /\ KeepsRecord(t) =>
         /\ t \notin cancelled
         /\ timeout # "fired" /\ start[t] = "accepted" /\ task[t] # "gone" =>
              address_records_map[primary[t]] = t

\* The nodes a safe shutdown is promised for: workers and detached contexts at
\* addresses of their own, and no call of stop_now.
PlainNode ==
  /\ UniqueAddresses
  /\ \A t \in Tasks : kind[t] # "processor"
  /\ ~StopNow

\* Why the shutdown of such a node misses no worker: while the node stops, the
\* address of every worker's record is one the shutdown waits for (stopping) or
\* one of a cluster that stop_next_cluster has still to take.
ShutdownInv ==
  PlainNode =>
    /\ stop_call = "ok" => ~router_open
    /\ \A l \in Labels : clusters[l] # {} =>
         \E i \in 1 .. Len(cluster_order) : cluster_order[i] = l
    /\ node_state = "Stopping" /\ timeout # "fired" => \A a \in Addresses :
         address_records_map[a] # None /\ kind[address_records_map[a]] = "worker" =>
           a \in stopping \/ \E l \in Labels : a \in clusters[l]
    /\ SafeShutdown

\* Why such a node stops cluster by cluster: a task that was signalled is awaited
\* until it is gone.
TurnInv ==
  PlainNode =>
    /\ stop_call = "none" => node_state = "Running" /\ \A t \in Tasks : records[t].state = "Running"
    /\ router_open => \A t \in Tasks :
         records[t].state = "Stopping" => task[t] = "gone" \/ primary[t] \in stopping

\* No task is started with the primary address of another as its additional one.
PrimariesOwn ==
  \A t, u \in Tasks : primary[t] \in address_set[u] => primary[t] = primary[u]

\* Task t was signalled at address a and has its record, or has lost it to
\* stop_processor.
AwaitedAs(t, a) ==
  /\ primary[t] = a /\ records[t].state = "Stopping"
  /\ \/ address_records_map[a] = t
     \/ kind[t] = "worker" /\ task[t] # "gone"
     \/ kind[t] = "processor"
     \/ kind[t] = "detached" /\ a \in ProcessorStops

\* Why the shutdown of such a node waits for no one who is gone: an awaited address
\* has the record of a task that was signalled, or a worker that was signalled has
\* still to acknowledge, and a detached context takes its record with it, which its
\* primary address leads to.
AwaitInv ==
  PrimariesOwn =>
    /\ \A t \in Tasks : alias_map[primary[t]] \in {primary[t], None}
    /\ \A a \in Addresses : address_records_map[a] # None =>
         /\ alias_map[a] = a
         /\ kind[address_records_map[a]] = "detached" => task[address_records_map[a]] # "gone"
    /\ stop_call = "none" => stopping = {} /\ node_state # "Stopping"
    /\ node_state = "Dead" => \A a \in Addresses : address_records_map[a] = None
    /\ router_open /\ node_state = "Stopping" =>
         \A a \in stopping : \E t \in Tasks : AwaitedAs(t, a)
    /\ WaitsForTheLiving

=============================================================================
