---------------------------- MODULE RouterProofs ----------------------------
(***************************************************************************)
(* Theorems about the router, for any tasks, addresses, clusters, clients  *)
(* and mailbox size: every step keeps the node's state well-typed, records *)
(* and tasks go together, and the shutdown of a node of workers and        *)
(* detached contexts stops all of them.                                    *)
(***************************************************************************)
EXTENDS Router, SequenceTheorems, TLAPS

USE ProfileAssumption, NoneAssumption, MailboxAssumption, ProgramAssumption

\* AddressRecord::stop on any of the records leaves them well-typed.
LEMMA StoppedType ==
  ASSUME TypeOK, NEW map, NEW addrs
  PROVE  Stopped(map, addrs) \in [Tasks -> [sender : BOOLEAN,
                                            state : {"Running", "Stopping"},
                                            ready : BOOLEAN]]
<1> DEFINE Rec == [sender : BOOLEAN, state : {"Running", "Stopping"}, ready : BOOLEAN]
<1>1. \A t \in Tasks : records[t] \in Rec
  BY Zenon DEF TypeOK
<1>2. ASSUME NEW t \in Tasks
      PROVE  [records[t] EXCEPT !.state = "Stopping",
                                !.sender = @ /\ kind[t] = "processor"] \in Rec
  BY <1>1, Zenon
<1> QED BY <1>1, <1>2, Zenon DEF Stopped

\* A record that is made ready, or loses its sender, stays well-typed.
LEMMA RecordType ==
  ASSUME TypeOK, NEW u \in Tasks
  PROVE  /\ [records EXCEPT ![u].ready = TRUE]
               \in [Tasks -> [sender : BOOLEAN, state : {"Running", "Stopping"},
                             ready : BOOLEAN]]
         /\ [records EXCEPT ![u].sender = FALSE]
               \in [Tasks -> [sender : BOOLEAN, state : {"Running", "Stopping"},
                             ready : BOOLEAN]]
<1> DEFINE Rec == [sender : BOOLEAN, state : {"Running", "Stopping"}, ready : BOOLEAN]
<1>1. records \in [Tasks -> Rec] BY DEF TypeOK
<1>2. [records[u] EXCEPT !.ready = TRUE] \in Rec BY <1>1, ZenonT(30)
<1>3. [records[u] EXCEPT !.sender = FALSE] \in Rec BY <1>1, ZenonT(30)
<1> HIDE DEF Rec
<1>4. /\ [records EXCEPT ![u].ready = TRUE] \in [Tasks -> Rec]
      /\ [records EXCEPT ![u].sender = FALSE] \in [Tasks -> Rec]
  BY <1>1, <1>2, <1>3
<1> QED BY <1>4 DEF Rec

\* Releasing the clients that wait for a task leaves them well-typed.
LEMMA ReleasedType ==
  ASSUME TypeOK, NEW t
  PROVE  /\ WaitersReleased(t) \in [Clients -> [does : {"nothing", "send", "wait"},
                                                with : Tasks \union {None}]]
         /\ \A c \in Clients : WaitersReleased(t)[c].does # "nothing" =>
                                 WaitersReleased(t)[c].with # None
BY DEF TypeOK, WaitersReleased, Idle

\* free_address leaves the maps and the clients well-typed.
LEMMA FreeType ==
  ASSUME TypeOK, NEW p \in Addresses, FreeAddress(p)
  PROVE  /\ address_records_map' \in [Addresses -> Tasks \union {None}]
         /\ alias_map' \in [Addresses -> Addresses \union {None}]
         /\ client' \in [Clients -> [does : {"nothing", "send", "wait"},
                                     with : Tasks \union {None}]]
         /\ \A c \in Clients : client'[c].does # "nothing" => client'[c].with # None
<1>1. client' = WaitersReleased(address_records_map[p])
  BY DEF FreeAddress
<1>2. /\ address_records_map' \in [Addresses -> Tasks \union {None}]
      /\ alias_map' \in [Addresses -> Addresses \union {None}]
  BY DEF FreeAddress, TypeOK
<1> QED BY <1>1, <1>2, ReleasedType

\* stop_next_cluster leaves clusters, records and the node's state well-typed.
LEMMA NextClusterType ==
  ASSUME TypeOK, NEW map, NEW left \in SUBSET Addresses,
         NEW call \in {"none", "waiting", "ok", "err"},
         StopNextCluster(map, left, call)
  PROVE  /\ records' \in [Tasks -> [sender : BOOLEAN, state : {"Running", "Stopping"},
                                    ready : BOOLEAN]]
         /\ cluster_order' \in Seq(Labels)
         /\ clusters' \in [Labels -> SUBSET Addresses]
         /\ stopping' \subseteq Addresses
         /\ router_open' \in BOOLEAN
         /\ stop_call' \in {"none", "waiting", "ok", "err"}
<1>1. CASE cluster_order = <<>>
  BY <1>1 DEF StopNextCluster, TypeOK
<1>2. CASE cluster_order # <<>>
  <2> DEFINE last == Len(cluster_order)
             label == cluster_order[last]
             members == {a \in Addresses : map[a] # None /\ a \in clusters[label]}
  <2>1. /\ last \in Nat \ {0} /\ label \in Labels
        /\ SubSeq(cluster_order, 1, last - 1) \in Seq(Labels)
    <3>1. cluster_order \in Seq(Labels) BY DEF TypeOK
    <3>2. last \in Nat \ {0} BY <1>2, <3>1, EmptySeq, LenProperties
    <3>3. label \in Labels BY <3>1, <3>2, ElementOfSeq
    <3>4. SubSeq(cluster_order, 1, last - 1) \in Seq(Labels)
      BY <3>1, <3>2, SubSeqProperties
    <3> QED BY <3>2, <3>3, <3>4
  <2>2. /\ cluster_order' = SubSeq(cluster_order, 1, last - 1)
        /\ clusters' = [clusters EXCEPT ![label] = {}]
        /\ \E failing \in SUBSET MayFail(map, members) :
             /\ StopRecords(map, members, failing)
             /\ stopping' = IF failing = {} THEN left \union members ELSE left
        /\ router_open' = router_open
        /\ stop_call' = call
    BY <1>2, Zenon DEF StopNextCluster, TypeOK
  <2>3. records' \in [Tasks -> [sender : BOOLEAN, state : {"Running", "Stopping"},
                                ready : BOOLEAN]]
    BY <2>2, StoppedType DEF StopRecords
  <2> QED BY <2>1, <2>2, <2>3 DEF TypeOK
<1> QED BY <1>1, <1>2

\* The steps of the router, of a task t and of clients keep the types.
LEMMA TypeStep ==
  ASSUME TypeOK, [Next]_vars
  PROVE  TypeOK'
<1> USE DEF task_vars, map_vars, cluster_vars, node_vars
<1>1. CASE UNCHANGED vars
  BY <1>1 DEF TypeOK, vars
<1>2. ASSUME NEW t \in Tasks, Spawn(t) PROVE TypeOK'
  BY <1>2 DEF TypeOK, Spawn
<1>3. ASSUME NEW t \in Tasks, Relay(t) \/ DropContext(t) PROVE TypeOK'
  <2>1. CASE Initialized(t)
    BY <2>1 DEF TypeOK, Initialized
  <2>2. CASE TakeMessage(t)
    BY <2>2 DEF TypeOK, TakeMessage
  <2>3. CASE HandlerCancelled(t)
    BY <2>3 DEF TypeOK, HandlerCancelled
  <2>4. ASSUME NEW state \in {"running", "shutdown", "stopped"}, Leave(t, state) PROVE TypeOK'
    BY <2>4 DEF TypeOK, Leave
  <2> QED BY <1>3, <2>1, <2>2, <2>3, <2>4
          DEF Relay, HandlerReturns, NoMoreMessages, Interrupt, ProcessReturnsFalse,
              ShutdownDone, DropContext
<1>4. ASSUME NEW t \in Tasks, Handle(t) PROVE TypeOK'
  <2>1. ContextAfter(t, "accepted") \in [Tasks -> {"new", "initialize", "running",
                                                  "handling", "shutdown", "stopped", "gone"}]
    BY DEF TypeOK, ContextAfter
  <2>2. ContextAfter(t, "rejected") \in [Tasks -> {"new", "initialize", "running",
                                                  "handling", "shutdown", "stopped", "gone"}]
    BY DEF TypeOK, ContextAfter
  <2>3. CASE StartAccepted(t)
    BY <2>1, <2>3 DEF TypeOK, StartAccepted
  <2>4. CASE StartRejected(t)
    BY <2>2, <2>4 DEF TypeOK, StartRejected
  <2>5. CASE StartPanics(t)
    BY <2>5, Zenon DEF TypeOK, StartPanics
  <2>6. CASE SetReady(t)
    <3>1. records' \in [Tasks -> [sender : BOOLEAN, state : {"Running", "Stopping"},
                                  ready : BOOLEAN]]
      BY <2>6, RecordType, Zenon DEF TypeOK, SetReady
    <3>2. client' = WaitersReleased(address_records_map[primary[t]])
      BY <2>6 DEF SetReady
    <3> QED BY <2>6, <3>1, <3>2, ReleasedType DEF TypeOK, SetReady
  <2>7. CASE StopDetached(t)
    <3> DEFINE p == alias_map[primary[t]]
    <3>1. CASE p # None /\ address_records_map[p] # None
      <4>1. p \in Addresses /\ FreeAddress(p) /\ stopping' = stopping \ {p}
        BY <2>7, <3>1 DEF StopDetached, TypeOK
      <4> QED BY <2>7, <4>1, FreeType DEF TypeOK, StopDetached
    <3>2. CASE ~(p # None /\ address_records_map[p] # None)
      BY <2>7, <3>2 DEF TypeOK, StopDetached
    <3> QED BY Zenon, <3>1, <3>2
  <2>8. CASE StopAck(t)
    <3> DEFINE left == stopping \ {primary[t]}
    <3>1. FreeAddress(primary[t]) /\ primary[t] \in Addresses
      BY <2>8 DEF StopAck
    <3>2. /\ task' = [task EXCEPT ![t] = "gone"]
          /\ UNCHANGED <<start, ready_sent, mailbox, cancelled, timeout, node_state>>
      BY Zenon, <2>8 DEF StopAck
    <3>3. CASE /\ stopping' = left
               /\ UNCHANGED <<records, cluster_order, clusters, router_open, stop_call>>
      BY Zenon, <3>1, <3>2, <3>3, FreeType DEF TypeOK
    <3>4. CASE StopNextCluster(address_records_map', left, stop_call)
      <4>1. left \in SUBSET Addresses /\ stop_call \in {"none", "waiting", "ok", "err"}
        BY Zenon DEF TypeOK
      <4> QED BY <3>1, <3>2, <3>4, <4>1, FreeType, NextClusterType DEF TypeOK
    <3> QED BY Zenon, <2>8, <3>3, <3>4 DEF StopAck
  <2> QED BY <1>4, <2>3, <2>4, <2>5, <2>6, <2>7, <2>8 DEF Handle
<1>5. ASSUME NEW t \in Tasks, NEW label \in Labels, SetCluster(t, label) PROVE TypeOK'
  <2>1. cluster_order' \in Seq(Labels)
    <3>1. cluster_order \in Seq(Labels) /\ Append(cluster_order, label) \in Seq(Labels)
      BY AppendProperties DEF TypeOK
    <3> QED BY <1>5, <3>1 DEF SetCluster
  <2>2. clusters' \in [Labels -> SUBSET Addresses]
    BY ZenonT(60), <1>5 DEF TypeOK, SetCluster
  <2> QED BY <1>5, <2>1, <2>2 DEF TypeOK, SetCluster
<1>6. ASSUME NEW c \in Clients, NEW a \in Addresses, SenderReq(c, a) \/ CheckReady(c, a)
      PROVE  TypeOK'
  <2>1. PICK t \in Tasks, does \in {"send", "wait"} :
          /\ client' = [client EXCEPT ![c] = [does |-> does, with |-> t]]
          /\ UNCHANGED <<task_vars, map_vars, cluster_vars, node_vars>>
    <3>1. CASE SenderReq(c, a)
      BY <3>1, ZenonT(60) DEF TypeOK, SenderReq
    <3>2. CASE CheckReady(c, a)
      BY <3>2, Zenon DEF TypeOK, CheckReady
    <3> QED BY <1>6, <3>1, <3>2
  <2> QED BY <2>1 DEF TypeOK
<1>7. ASSUME NEW c \in Clients, SendToMailbox(c) PROVE TypeOK'
  <2>1. client[c].with \in Tasks
    BY <1>7 DEF TypeOK, SendToMailbox
  <2>2. mailbox' \in [Tasks -> 0 .. MailboxSize]
    BY <1>7, <2>1 DEF TypeOK, SendToMailbox
  <2>3. Idle \in [does : {"nothing", "send", "wait"}, with : Tasks \union {None}]
        /\ Idle.does = "nothing"
    BY DEF Idle
  <2> QED BY <1>7, <2>2, <2>3 DEF TypeOK, SendToMailbox
<1>8. ASSUME NEW a \in Addresses, StopWorker(a) PROVE TypeOK'
  <2>1. PICK t \in Tasks : records' = [records EXCEPT ![t].sender = FALSE]
    BY <1>8, ZenonT(30) DEF TypeOK, StopWorker
  <2>2. records' \in [Tasks -> [sender : BOOLEAN, state : {"Running", "Stopping"},
                                ready : BOOLEAN]]
    BY <2>1, RecordType, Zenon
  <2>3. UNCHANGED <<task_vars, client, address_records_map, alias_map, cluster_vars,
                    node_vars>>
    BY <1>8 DEF StopWorker
  <2> QED BY <2>2, <2>3 DEF TypeOK
<1>9. ASSUME NEW a \in Addresses, StopProcessor(a) PROVE TypeOK'
  <2>1. client' = WaitersReleased(address_records_map[a])
    BY <1>9 DEF StopProcessor
  <2> QED BY <1>9, <2>1, ReleasedType DEF TypeOK, StopProcessor
<1>10. CASE Graceful
  <2>1. CASE StopNextCluster(address_records_map, stopping, "waiting") /\ UNCHANGED timeout
    <3>1. stopping \in SUBSET Addresses BY Zenon DEF TypeOK
    <3> QED BY <1>10, <2>1, <3>1, NextClusterType DEF TypeOK, Graceful
  <2>2. ASSUME NEW failing, StopRecords(address_records_map, NonClusterWorkers, failing),
               stopping' = IF failing = {} THEN stopping \union NonClusterWorkers
                                           ELSE stopping,
               timeout' = TimeoutStarted(failing), stop_call' = "waiting",
               UNCHANGED <<cluster_order, clusters, router_open>>
        PROVE  TypeOK'
    <3>1. records' \in [Tasks -> [sender : BOOLEAN, state : {"Running", "Stopping"},
                                  ready : BOOLEAN]]
      BY <2>2, StoppedType DEF StopRecords
    <3>2. NonClusterWorkers \subseteq Addresses BY DEF NonClusterWorkers
    <3> QED BY <1>10, <2>2, <3>1, <3>2 DEF TypeOK, Graceful, TimeoutStarted
  <2> QED BY <1>10, <2>1, <2>2 DEF Graceful
<1>11. ASSUME ClearRecords
       PROVE  /\ address_records_map' \in [Addresses -> Tasks \union {None}]
              /\ client' \in [Clients -> [does : {"nothing", "send", "wait"},
                                          with : Tasks \union {None}]]
              /\ \A c \in Clients : client'[c].does # "nothing" => client'[c].with # None
  BY <1>11 DEF TypeOK, ClearRecords, Idle
<1>12. CASE AbortNode
  BY <1>11, <1>12, Zenon DEF TypeOK, AbortNode
<1>13. CASE Immediate
  BY Zenon, <1>11, <1>13 DEF TypeOK, Immediate
<1> QED BY <1>1, <1>2, <1>3, <1>4, <1>5, <1>6, <1>7, <1>8, <1>9, <1>10, <1>12, <1>13 DEF Next

-----------------------------------------------------------------------------
(* Tasks and their records.                                                *)

\* What the router does to records and clients when it starts nothing: records
\* are only removed, senders only dropped, no client gets a new one.
RecordsOnlyGo ==
  /\ \A a \in Addresses : address_records_map'[a] \in {address_records_map[a], None}
  /\ \A u \in Tasks : records'[u].sender => records[u].sender
  /\ \A c \in Clients : client'[c].does = "send" => client'[c] = client[c]

\* Such a step, with at most one task taken from its end to "gone", keeps the
\* invariant.
LEMMA RecordsOnlyGoStep ==
  ASSUME LifecycleInv, TypeOK', RecordsOnlyGo, UNCHANGED <<start, mailbox>>,
         \A u \in Tasks :
           \/ task'[u] = task[u]
           \/ /\ task'[u] = "gone" /\ task[u] \in Ended
              /\ kind[u] = "worker" => address_records_map'[primary[u]] # u
  PROVE  LifecycleInv'
<1>1. /\ \A t \in Tasks : start'[t] # "none" => task'[t] # "new"
      /\ \A t \in Tasks : kind[t] = "detached" /\ start'[t] = "sent" => task'[t] = "initialize"
  BY Zenon DEF LifecycleInv, Ended
<1>2. ASSUME NEW t \in Tasks, kind[t] = "worker", task'[t] \in Ended
      PROVE  MailboxClosed(t)' /\ mailbox'[t] = 0
  <2>1. task[t] \in Ended /\ MailboxClosed(t) /\ mailbox[t] = 0
    BY <1>2 DEF LifecycleInv
  <2>2. Unregistered(t) => Unregistered(t)'
    BY ZenonT(60) DEF Unregistered, RecordsOnlyGo, LifecycleInv, TypeOK
  <2>3. ~records[t].sender => ~records'[t].sender
    BY DEF RecordsOnlyGo
  <2>4. \A c \in Clients : client'[c] # [does |-> "send", with |-> t]
    BY <2>1 DEF RecordsOnlyGo, MailboxClosed
  <2> QED BY <2>1, <2>2, <2>3, <2>4 DEF MailboxClosed
<1>3. NoStaleRecords'
  BY DEF NoStaleRecords, RecordsOnlyGo, LifecycleInv, TypeOK, Ended
<1>4. OnlyAcceptedReceive'
  <2>1. OnlyAcceptedReceive BY DEF LifecycleInv
  <2>2. \A t \in Tasks : task'[t] = "handling" => task[t] = "handling"
    BY Zenon
  <2> QED BY <2>1, <2>2 DEF OnlyAcceptedReceive, RecordsOnlyGo
<1> QED BY <1>1, <1>2, <1>3, <1>4 DEF LifecycleInv

\* Releasing clients that wait gives none of them a sender.
LEMMA ReleasedSends ==
  ASSUME TypeOK, NEW t, client' = WaitersReleased(t)
  PROVE  \A c \in Clients : client'[c].does = "send" => client'[c] = client[c]
BY DEF TypeOK, WaitersReleased, Idle

\* AddressRecord::stop gives no record its sender back.
LEMMA StoppedSenders ==
  ASSUME TypeOK, NEW map, NEW addrs, NEW failing, StopRecords(map, addrs, failing)
  PROVE  \A u \in Tasks : records'[u].sender => records[u].sender
<1>1. ASSUME NEW some, records' = Stopped(map, some)
      PROVE  \A u \in Tasks : records'[u].sender => records[u].sender
  <2> SUFFICES ASSUME NEW u \in Tasks, records'[u].sender PROVE records[u].sender
    OBVIOUS
  <2>1. CASE \E a \in some : map[a] = u
    <3>1. records'[u] = [records[u] EXCEPT !.state = "Stopping",
                                           !.sender = @ /\ kind[u] = "processor"]
      BY <1>1, <2>1, Zenon DEF Stopped
    <3>2. records'[u].sender = (records[u].sender /\ kind[u] = "processor")
      <4>1. \A r \in [sender : BOOLEAN, state : {"Running", "Stopping"}, ready : BOOLEAN] :
              \A b : [r EXCEPT !.state = "Stopping", !.sender = b].sender = b
        OBVIOUS
      <4>2. records[u] \in [sender : BOOLEAN, state : {"Running", "Stopping"},
                            ready : BOOLEAN]
        BY DEF TypeOK
      <4> QED BY <3>1, <4>1, <4>2, Zenon
    <3> QED BY <3>2, Zenon
  <2>2. CASE ~\E a \in some : map[a] = u
    BY <1>1, <2>2, Zenon DEF Stopped
  <2> QED BY <2>1, <2>2
<1> QED BY <1>1 DEF StopRecords

\* The same of stop_next_cluster.
LEMMA NextClusterSenders ==
  ASSUME TypeOK, NEW map, NEW left, NEW call, StopNextCluster(map, left, call)
  PROVE  \A u \in Tasks : records'[u].sender => records[u].sender
<1>1. CASE UNCHANGED records
  BY <1>1
<1>2. CASE \E addrs, failing : StopRecords(map, addrs, failing)
  BY <1>2, StoppedSenders
<1> QED BY <1>1, <1>2, Zenon DEF StopNextCluster

\* The maps and mailboxes of a new node are empty.
LEMMA LifecycleInit == Init => LifecycleInv
<1> SUFFICES ASSUME Init PROVE LifecycleInv
  BY Zenon
<1>1. TypeOK
  <2>1. cluster_order \in Seq(Labels) BY EmptySeq DEF Init
  <2> QED BY <2>1 DEF Init, TypeOK, Idle, NewRecord
<1>2. /\ \A t \in Tasks : start[t] = "none" /\ task[t] \notin Ended
      /\ NoStaleRecords
      /\ OnlyAcceptedReceive
  BY DEF Init, Ended, NoStaleRecords, OnlyAcceptedReceive, Idle
<1> QED BY <1>1, <1>2 DEF LifecycleInv

\* The steps of a task and its relay: what reaches Ended has a closed mailbox.
LEMMA TaskStep ==
  ASSUME LifecycleInv, TypeOK', NEW t \in Tasks,
         Spawn(t) \/ Relay(t) \/ DropContext(t)
  PROVE  LifecycleInv'
<1> USE DEF task_vars, map_vars, cluster_vars, node_vars
<1>1. CASE Spawn(t)
  <2>1. /\ task[t] = "new" /\ start[t] = "none"
        /\ task' = [task EXCEPT ![t] = "initialize"]
        /\ start' = [start EXCEPT ![t] = "sent"]
        /\ UNCHANGED <<mailbox, client, address_records_map, records>>
    BY Zenon, <1>1 DEF Spawn, LifecycleInv, TypeOK
  <2>2. NoStaleRecords'
    BY <2>1 DEF NoStaleRecords, LifecycleInv, TypeOK
  <2>3. OnlyAcceptedReceive'
    <3>1. \A u \in Tasks : start[u] = "accepted" => start'[u] = "accepted"
      BY <2>1 DEF LifecycleInv, TypeOK
    <3>2. \A u \in Tasks : task'[u] = "handling" => task[u] = "handling"
      BY Zenon, <2>1 DEF LifecycleInv, TypeOK
    <3>3. \A c \in Clients : client[c].does = "send" => client[c].with \in Tasks
      BY DEF LifecycleInv, TypeOK
    <3> QED BY Zenon, <2>1, <3>1, <3>2, <3>3 DEF OnlyAcceptedReceive, LifecycleInv
  <2>4. ASSUME NEW u \in Tasks, kind[u] = "worker", task'[u] \in Ended
        PROVE  MailboxClosed(u)' /\ mailbox'[u] = 0
    <3>1. u # t /\ task[u] \in Ended /\ start'[u] = start[u]
      BY ZenonT(60), <2>1, <2>4 DEF LifecycleInv, TypeOK, Ended
    <3> QED BY Zenon, <2>1, <2>4, <3>1 DEF LifecycleInv, MailboxClosed, Unregistered
  <2>5. \A u \in Tasks : /\ start'[u] # "none" => task'[u] # "new"
                         /\ kind[u] = "detached" /\ start'[u] = "sent" =>
                              task'[u] = "initialize"
    BY Zenon, <2>1 DEF LifecycleInv, TypeOK
  <2> QED BY Zenon, <2>2, <2>3, <2>4, <2>5 DEF LifecycleInv
<1>2. ASSUME UNCHANGED <<start, client, address_records_map, records>>,
             \A u \in Tasks : u # t => task'[u] = task[u] /\ mailbox'[u] = mailbox[u],
             task'[t] \notin {"new", "gone"},
             kind[t] = "worker" /\ task'[t] \in Ended => MailboxClosed(t) /\ mailbox'[t] = 0,
             kind[t] = "detached" => start[t] # "sent",
             mailbox'[t] # 0 \/ task'[t] = "handling" => start[t] = "accepted"
      PROVE  LifecycleInv'
  <2>1. \A u \in Tasks : MailboxClosed(u)' <=> MailboxClosed(u)
    BY ZenonT(60), <1>2 DEF MailboxClosed, Unregistered
  <2>2. NoStaleRecords'
    BY <1>2 DEF NoStaleRecords, LifecycleInv, TypeOK
  <2>3. OnlyAcceptedReceive'
    BY ZenonT(60), <1>2 DEF OnlyAcceptedReceive, LifecycleInv
  <2>4. \A u \in Tasks : /\ start'[u] # "none" => task'[u] # "new"
                         /\ kind[u] = "detached" /\ start'[u] = "sent" =>
                              task'[u] = "initialize"
                         /\ kind[u] = "worker" /\ task'[u] \in Ended => mailbox'[u] = 0
                         /\ kind[u] = "worker" /\ task'[u] \in Ended => MailboxClosed(u)
    BY ZenonT(60), <1>2 DEF LifecycleInv
  <2> QED BY <2>1, <2>2, <2>3, <2>4 DEF LifecycleInv
<1>3. /\ mailbox[t] # 0 \/ task[t] = "handling" => start[t] = "accepted"
      /\ kind[t] = "detached" /\ start[t] = "sent" => task[t] = "initialize"
      /\ task \in [Tasks -> {"new", "initialize", "running", "handling", "shutdown",
                             "stopped", "gone"}]
      /\ mailbox \in [Tasks -> 0 .. MailboxSize]
  BY Zenon DEF LifecycleInv, OnlyAcceptedReceive, TypeOK
<1>4. CASE Initialized(t)
  BY ZenonT(60), <1>2, <1>3, <1>4 DEF Initialized, Ended
<1>5. CASE TakeMessage(t)
  <2>1. mailbox[t] # 0 /\ kind[t] = "worker"
    BY <1>3, <1>5 DEF TakeMessage
  <2> QED BY ZenonT(60), <1>2, <1>3, <1>5, <2>1 DEF TakeMessage, Ended
<1>6. CASE HandlerReturns(t) \/ HandlerCancelled(t)
  BY ZenonT(60), <1>2, <1>3, <1>6 DEF HandlerReturns, HandlerCancelled, Leave, Ended
<1>7. CASE NoMoreMessages(t)
  BY ZenonT(60), <1>2, <1>3, <1>7 DEF NoMoreMessages, Leave, Ended
<1>8. CASE Interrupt(t) \/ ProcessReturnsFalse(t) \/ DropContext(t)
  BY ZenonT(60), <1>2, <1>3, <1>8 DEF Interrupt, ProcessReturnsFalse, DropContext, Leave
<1>9. CASE ShutdownDone(t)
  <2>1. kind[t] = "worker" => MailboxClosed(t) /\ mailbox[t] = 0
    BY <1>9 DEF ShutdownDone, LifecycleInv, Ended
  <2> QED BY ZenonT(60), <1>2, <1>3, <1>9, <2>1 DEF ShutdownDone, Leave
<1> QED BY Zenon, <1>1, <1>4, <1>5, <1>6, <1>7, <1>8, <1>9 DEF Relay

\* The answers to a start message: a worker whose start is open has not ended.
LEMMA StartStep ==
  ASSUME LifecycleInv, TypeOK', NEW t \in Tasks, StartAccepted(t) \/ StartRejected(t)
  PROVE  LifecycleInv'
<1> USE DEF task_vars, map_vars, cluster_vars, node_vars
<1>1. /\ start[t] = "sent" /\ task[t] # "new"
      /\ kind[t] = "worker" => task[t] \notin Ended
  BY ZenonT(60) DEF StartAccepted, StartRejected, LifecycleInv, MailboxClosed
<1>2. /\ UNCHANGED <<mailbox, client, records>>
      /\ start'[t] \in {"accepted", "rejected"}
      /\ \A u \in Tasks : u # t => start'[u] = start[u]
      /\ \A u \in Tasks : task'[u] # task[u] =>
            u = t /\ kind[t] = "detached" /\ task'[t] \in {"running", "stopped"}
      /\ \/ UNCHANGED address_records_map
         \/ /\ start'[t] = "accepted"
            /\ address_records_map' = [address_records_map EXCEPT ![primary[t]] = t]
  BY DEF StartAccepted, StartRejected, ContextAfter, LifecycleInv, TypeOK
<1>3. /\ \A u \in Tasks : start'[u] # "none" => task'[u] # "new"
      /\ \A u \in Tasks : kind[u] = "detached" /\ start'[u] = "sent" => task'[u] = "initialize"
  BY Zenon, <1>1, <1>2 DEF LifecycleInv
<1>4. ASSUME NEW u \in Tasks, kind[u] = "worker", task'[u] \in Ended
      PROVE  MailboxClosed(u)' /\ mailbox'[u] = 0
  <2>1. u # t /\ task[u] \in Ended /\ start'[u] = start[u] /\ MailboxClosed(u)
        /\ mailbox'[u] = 0
    BY Zenon, <1>1, <1>2, <1>4 DEF LifecycleInv
  <2>2. Unregistered(u) => Unregistered(u)'
    BY ZenonT(60), <1>2, <2>1 DEF Unregistered, LifecycleInv, TypeOK
  <2> QED BY Zenon, <1>2, <2>1, <2>2 DEF MailboxClosed
<1>5. NoStaleRecords'
  <2> SUFFICES ASSUME NEW a \in Addresses, address_records_map'[a] # None
               PROVE  /\ primary[address_records_map'[a]] = a
                      /\ start'[address_records_map'[a]] = "accepted"
                      /\ kind[address_records_map'[a]] = "worker" =>
                            task'[address_records_map'[a]] # "gone"
    BY Zenon DEF NoStaleRecords
  <2>1. CASE address_records_map'[a] = address_records_map[a]
    <3> DEFINE u == address_records_map[a]
    <3>1. u \in Tasks /\ primary[u] = a /\ start[u] = "accepted"
          /\ (kind[u] = "worker" => task[u] # "gone")
      BY <2>1 DEF LifecycleInv, TypeOK, NoStaleRecords
    <3>2. u # t BY Zenon, <1>1, <3>1
    <3> QED BY Zenon, <1>2, <2>1, <3>1, <3>2
  <2>2. CASE address_records_map'[a] # address_records_map[a]
    <3>1. a = primary[t] /\ address_records_map'[a] = t /\ start'[t] = "accepted"
      BY <1>2, <2>2 DEF LifecycleInv, TypeOK
    <3> QED BY Zenon, <1>1, <1>2, <3>1 DEF Ended
  <2> QED BY <2>1, <2>2
<1>6. OnlyAcceptedReceive'
  <2>1. \A u \in Tasks : start[u] = "accepted" => start'[u] = "accepted"
    BY Zenon, <1>1, <1>2
  <2>2. \A u \in Tasks : task'[u] = "handling" => task[u] = "handling"
    BY Zenon, <1>2
  <2>3. \A c \in Clients : client[c].does = "send" => client[c].with \in Tasks
    BY DEF LifecycleInv, TypeOK
  <2> QED BY Zenon, <1>2, <2>1, <2>2, <2>3 DEF OnlyAcceptedReceive, LifecycleInv
<1> QED BY <1>3, <1>4, <1>5, <1>6 DEF LifecycleInv

\* The steps of a client: only a worker whose record has its sender is sent to.
LEMMA ClientStep ==
  ASSUME LifecycleInv, TypeOK', NEW c \in Clients,
         SendToMailbox(c) \/ \E a \in Addresses : SenderReq(c, a) \/ CheckReady(c, a)
  PROVE  LifecycleInv'
<1> USE DEF task_vars, map_vars, cluster_vars, node_vars
<1>1. ASSUME NEW a \in Addresses, SenderReq(c, a) PROVE LifecycleInv'
  <2> DEFINE t == address_records_map[alias_map[a]]
  <2>1. /\ t \in Tasks /\ alias_map[a] \in Addresses /\ records[t].sender
        /\ client' = [client EXCEPT ![c] = [does |-> "send", with |-> t]]
        /\ UNCHANGED <<task, start, mailbox, address_records_map, records>>
    <3>1. /\ alias_map[a] # None /\ t # None /\ records[t].sender
          /\ client' = [client EXCEPT ![c] = [does |-> "send", with |-> t]]
          /\ UNCHANGED <<task, start, mailbox, address_records_map, records>>
      BY <1>1, ZenonT(60) DEF SenderReq
    <3>2. /\ alias_map \in [Addresses -> Addresses \union {None}]
          /\ address_records_map \in [Addresses -> Tasks \union {None}]
      BY DEF LifecycleInv, TypeOK
    <3> QED BY <3>1, <3>2
  <2>2. primary[t] = alias_map[a] /\ start[t] = "accepted"
    BY ZenonT(60), <2>1 DEF LifecycleInv, NoStaleRecords
  <2>3. ~MailboxClosed(t)
    BY ZenonT(60), <2>1, <2>2 DEF MailboxClosed, Unregistered
  <2>4. ASSUME NEW u \in Tasks, MailboxClosed(u) PROVE MailboxClosed(u)'
    <3>1. u # t BY ZenonT(60), <2>3, <2>4
    <3>2. \A d \in Clients : client'[d] # [does |-> "send", with |-> u]
      BY <2>1, <2>4, <3>1 DEF MailboxClosed, LifecycleInv, TypeOK
    <3> QED BY Zenon, <2>1, <2>4, <3>2 DEF MailboxClosed, Unregistered
  <2>5. NoStaleRecords'
    BY ZenonT(60), <2>1 DEF NoStaleRecords, LifecycleInv
  <2>6. OnlyAcceptedReceive'
    <3>1. \A d \in Clients : client'[d] = client[d] \/ client'[d].with = t
      BY <2>1 DEF LifecycleInv, TypeOK
    <3>2. OnlyAcceptedReceive BY DEF LifecycleInv
    <3> QED BY Zenon, <2>1, <2>2, <3>1, <3>2 DEF OnlyAcceptedReceive
  <2> QED BY ZenonT(60), <2>1, <2>4, <2>5, <2>6 DEF LifecycleInv
<1>2. ASSUME NEW a \in Addresses, CheckReady(c, a) PROVE LifecycleInv'
  <2>1. RecordsOnlyGo /\ UNCHANGED <<start, mailbox, task>>
    BY ZenonT(60), <1>2 DEF CheckReady, RecordsOnlyGo, LifecycleInv, TypeOK
  <2> QED BY ZenonT(60), <2>1, RecordsOnlyGoStep
<1>3. CASE SendToMailbox(c)
  <2> DEFINE t == client[c].with
  <2>1. /\ t \in Tasks /\ client[c] = [does |-> "send", with |-> t]
        /\ mailbox' = [mailbox EXCEPT ![t] = @ + 1]
        /\ client' = [client EXCEPT ![c] = Idle]
        /\ UNCHANGED <<task, start, address_records_map, records>>
    BY Zenon, <1>3 DEF SendToMailbox, LifecycleInv, TypeOK
  <2>2. kind[t] = "worker" => task[t] \notin Ended
    BY Zenon, <2>1 DEF LifecycleInv, MailboxClosed
  <2>3. \A u \in Tasks : kind[u] = "worker" /\ task'[u] \in Ended => mailbox'[u] = 0
    <3>1. \A u \in Tasks : u # t => mailbox'[u] = mailbox[u]
      BY <2>1 DEF LifecycleInv, TypeOK
    <3> QED BY Zenon, <2>1, <2>2, <3>1 DEF LifecycleInv
  <2>4. ASSUME NEW u \in Tasks, MailboxClosed(u) PROVE MailboxClosed(u)'
    <3>1. \A d \in Clients : client'[d] # [does |-> "send", with |-> u]
      BY ZenonT(60), <2>1, <2>4 DEF MailboxClosed, LifecycleInv, TypeOK, Idle
    <3> QED BY Zenon, <2>1, <2>4, <3>1 DEF MailboxClosed, Unregistered
  <2>5. NoStaleRecords'
    BY Zenon, <2>1 DEF NoStaleRecords, LifecycleInv
  <2>6. OnlyAcceptedReceive'
    <3>1. \A u \in Tasks : mailbox'[u] # mailbox[u] => u = t
      BY Zenon, <2>1 DEF LifecycleInv, TypeOK
    <3>2. \A d \in Clients : client'[d] = client[d] \/ client'[d].does # "send"
      BY <2>1 DEF LifecycleInv, TypeOK, Idle
    <3>3. start[t] = "accepted" BY Zenon, <2>1, <1>3 DEF OnlyAcceptedReceive, LifecycleInv, SendToMailbox
    <3> QED BY Zenon, <2>1, <3>1, <3>2, <3>3 DEF OnlyAcceptedReceive, LifecycleInv
  <2> QED BY Zenon, <2>1, <2>3, <2>4, <2>5, <2>6 DEF LifecycleInv
<1> QED BY Zenon, <1>1, <1>2, <1>3

\* free_address removes one record and releases those who wait for it.
LEMMA FreeOnlyGo ==
  ASSUME TypeOK, NEW p \in Addresses, FreeAddress(p)
  PROVE  /\ \A a \in Addresses : address_records_map'[a] \in {address_records_map[a], None}
         /\ address_records_map'[p] = None
         /\ \A c \in Clients : client'[c].does = "send" => client'[c] = client[c]
<1>1. client' = WaitersReleased(address_records_map[p])
  BY DEF FreeAddress
<1>2. \A c \in Clients : client'[c].does = "send" => client'[c] = client[c]
  BY <1>1, ReleasedSends
<1> QED BY Zenon, <1>2 DEF FreeAddress, TypeOK

\* What the router does about a task, but for starting it.
LEMMA RouterStep ==
  ASSUME LifecycleInv, TypeOK', NEW t \in Tasks,
         StartPanics(t) \/ SetReady(t) \/ StopDetached(t) \/ StopAck(t)
  PROVE  LifecycleInv'
<1> USE DEF task_vars, map_vars, cluster_vars, node_vars
<1>1. CASE StartPanics(t)
  <2>1. RecordsOnlyGo /\ UNCHANGED <<start, mailbox, task>>
    BY Zenon, <1>1 DEF StartPanics, RecordsOnlyGo
  <2> QED BY <2>1, RecordsOnlyGoStep
<1>2. CASE SetReady(t)
  <2>1. client' = WaitersReleased(address_records_map[primary[t]])
    BY <1>2 DEF SetReady
  <2>2. \A c \in Clients : client'[c].does = "send" => client'[c] = client[c]
    BY Zenon, <2>1, ReleasedSends DEF LifecycleInv
  <2>3. \A u \in Tasks : records'[u].sender => records[u].sender
    BY <1>2 DEF SetReady, LifecycleInv, TypeOK
  <2>4. RecordsOnlyGo /\ UNCHANGED <<start, mailbox, task>>
    BY Zenon, <1>2, <2>2, <2>3 DEF SetReady, RecordsOnlyGo
  <2> QED BY <2>4, RecordsOnlyGoStep
<1>3. CASE StopDetached(t)
  <2> DEFINE p == alias_map[primary[t]]
  <2>1. /\ kind[t] = "detached" /\ task[t] = "stopped" /\ task' = [task EXCEPT ![t] = "gone"]
        /\ UNCHANGED <<start, mailbox, records>>
    BY ZenonT(60), <1>3 DEF StopDetached
  <2>2. RecordsOnlyGo
    <3>1. CASE p \in Addresses /\ FreeAddress(p)
      BY Zenon, <2>1, <3>1, FreeOnlyGo DEF RecordsOnlyGo, LifecycleInv
    <3>2. CASE UNCHANGED <<address_records_map, client>>
      BY ZenonT(60), <2>1, <3>2 DEF RecordsOnlyGo
    <3> QED BY <1>3, <3>1, <3>2 DEF StopDetached, LifecycleInv, TypeOK
  <2>3. \A u \in Tasks :
           task'[u] = task[u] \/ (task'[u] = "gone" /\ task[u] \in Ended /\ kind[u] # "worker")
    BY <2>1 DEF LifecycleInv, TypeOK, Ended
  <2> QED BY Zenon, <2>1, <2>2, <2>3, RecordsOnlyGoStep
<1>4. CASE StopAck(t)
  <2>1. /\ task[t] = "stopped" /\ task' = [task EXCEPT ![t] = "gone"]
        /\ FreeAddress(primary[t]) /\ primary[t] \in Addresses
        /\ UNCHANGED <<start, mailbox>>
        /\ \/ UNCHANGED records
           \/ StopNextCluster(address_records_map', stopping \ {primary[t]}, stop_call)
    BY Zenon, <1>4 DEF StopAck
  <2>2. \A u \in Tasks : records'[u].sender => records[u].sender
    BY <2>1, NextClusterSenders, ZenonT(60) DEF LifecycleInv
  <2>3. RecordsOnlyGo /\ address_records_map'[primary[t]] = None
    BY ZenonT(60), <2>1, <2>2, FreeOnlyGo DEF RecordsOnlyGo, LifecycleInv
  <2>4. \A u \in Tasks :
           \/ task'[u] = task[u]
           \/ /\ task'[u] = "gone" /\ task[u] \in Ended
              /\ address_records_map'[primary[u]] # u
    <3>1. \A u \in Tasks : task'[u] = task[u] \/ (u = t /\ task'[u] = "gone")
      BY <2>1 DEF LifecycleInv, TypeOK
    <3>2. task[t] \in Ended /\ address_records_map'[primary[t]] # t
      BY <2>1, <2>3 DEF Ended
    <3> QED BY Zenon, <3>1, <3>2
  <2> QED BY Zenon, <2>1, <2>3, <2>4, RecordsOnlyGoStep
<1> QED BY Zenon, <1>1, <1>2, <1>3, <1>4

\* The calls that stop tasks, clusters and the node.
LEMMA StopStep ==
  ASSUME LifecycleInv, TypeOK',
         \/ \E t \in Tasks, label \in Labels : SetCluster(t, label)
         \/ \E a \in Addresses : StopWorker(a) \/ StopProcessor(a)
         \/ Graceful \/ AbortNode \/ Immediate
  PROVE  LifecycleInv'
<1> USE DEF task_vars, map_vars, cluster_vars, node_vars
<1> SUFFICES RecordsOnlyGo /\ UNCHANGED <<start, mailbox, task>>
  BY ZenonT(60), RecordsOnlyGoStep
<1>1. CASE \E t \in Tasks, label \in Labels : SetCluster(t, label)
  BY Zenon, <1>1 DEF SetCluster, RecordsOnlyGo
<1>2. ASSUME NEW a \in Addresses, StopWorker(a)
      PROVE  RecordsOnlyGo /\ UNCHANGED <<start, mailbox, task>>
  <2>1. PICK u \in Tasks : records' = [records EXCEPT ![u].sender = FALSE]
    <3> DEFINE u == address_records_map[alias_map[a]]
    <3>1. alias_map[a] # None /\ u # None /\ records' = [records EXCEPT ![u].sender = FALSE]
      BY <1>2, ZenonT(60) DEF StopWorker
    <3>2. /\ alias_map \in [Addresses -> Addresses \union {None}]
          /\ address_records_map \in [Addresses -> Tasks \union {None}]
      BY DEF LifecycleInv, TypeOK
    <3>3. u \in Tasks BY ZenonT(60), <3>1, <3>2
    <3> QED BY <3>1, <3>3, Zenon
  <2>2. \A v \in Tasks : records'[v].sender => records[v].sender
    BY <2>1 DEF LifecycleInv, TypeOK
  <2> QED BY <1>2, <2>2 DEF StopWorker, RecordsOnlyGo
<1>3. ASSUME NEW a \in Addresses, StopProcessor(a)
      PROVE  RecordsOnlyGo /\ UNCHANGED <<start, mailbox, task>>
  <2>1. client' = WaitersReleased(address_records_map[a])
    BY <1>3 DEF StopProcessor
  <2>2. \A c \in Clients : client'[c].does = "send" => client'[c] = client[c]
    BY <2>1, ReleasedSends, ZenonT(60) DEF LifecycleInv
  <2> QED BY <1>3, <2>2 DEF StopProcessor, RecordsOnlyGo, LifecycleInv, TypeOK
<1>4. CASE Graceful
  <2>1. \A u \in Tasks : records'[u].sender => records[u].sender
    <3>1. CASE StopNextCluster(address_records_map, stopping, "waiting")
      BY ZenonT(60), <3>1, NextClusterSenders DEF LifecycleInv
    <3>2. CASE \E failing : StopRecords(address_records_map, NonClusterWorkers, failing)
      BY ZenonT(60), <3>2, StoppedSenders DEF LifecycleInv
    <3> QED BY Zenon, <1>4, <3>1, <3>2 DEF Graceful
  <2> QED BY <1>4, <2>1 DEF Graceful, RecordsOnlyGo
<1>5. CASE AbortNode \/ Immediate
  <2>1. CASE ClearRecords
    BY Zenon, <1>5, <2>1 DEF AbortNode, Immediate, ClearRecords, RecordsOnlyGo, Idle,
                      LifecycleInv, TypeOK
  <2>2. CASE UNCHANGED <<address_records_map, client>>
    BY Zenon, <1>5, <2>2 DEF AbortNode, Immediate, RecordsOnlyGo
  <2> QED BY <1>5, <2>1, <2>2 DEF AbortNode, Immediate
<1> QED BY <1>1, <1>2, <1>3, <1>4, <1>5

\* Every step of the node keeps the invariant.
LEMMA LifecycleStep ==
  ASSUME LifecycleInv, [Next]_vars
  PROVE  LifecycleInv'
<1>1. TypeOK'
  BY Zenon, TypeStep DEF LifecycleInv
<1>2. CASE UNCHANGED vars
  <2>1. RecordsOnlyGo /\ UNCHANGED <<start, mailbox, task>>
    BY ZenonT(60), <1>2 DEF vars, task_vars, map_vars, RecordsOnlyGo
  <2> QED BY <1>1, <2>1, RecordsOnlyGoStep
<1>3. CASE Next
  <2>1. ASSUME NEW t \in Tasks, Handle(t) PROVE LifecycleInv'
    BY <1>1, <2>1, StartStep, RouterStep DEF Handle
  <2> QED BY Zenon, <1>1, <1>3, <2>1, TaskStep, ClientStep, StopStep DEF Next
<1> QED BY Zenon, <1>2, <1>3

\* The invariant of tasks and records holds in every behaviour of the node.
THEOREM LifecycleInvariance == Spec => []LifecycleInv
<1>1. Init => LifecycleInv BY LifecycleInit
<1>2. LifecycleInv /\ [Next]_vars => LifecycleInv' BY LifecycleStep
<1> QED BY <1>1, <1>2, PTL DEF Spec

\* Tasks, the router's maps and the node's state stay well-typed, the mailboxes
\* within their capacity.
THEOREM RouterTypes == Spec => []TypeOK
<1>1. LifecycleInv => TypeOK BY Zenon DEF LifecycleInv
<1> QED BY <1>1, LifecycleInvariance, PTL

\* The router keeps no record of a worker that is gone, and none at an address
\* other than the first of its task.
THEOREM RecordsAreLive == Spec => []NoStaleRecords
<1>1. LifecycleInv => NoStaleRecords BY Zenon DEF LifecycleInv
<1> QED BY <1>1, LifecycleInvariance, PTL

-----------------------------------------------------------------------------
(* Starts while the node stops.                                            *)

\* A node that does not run registers nothing.
LEMMA NoStartStep ==
  ASSUME TypeOK, Next, node_state # "Running", NEW a \in Addresses
  PROVE  address_records_map'[a] \in {address_records_map[a], None}
<1> USE DEF task_vars, map_vars, cluster_vars, node_vars
<1>1. ASSUME NEW t \in Tasks, Spawn(t) \/ Relay(t) \/ DropContext(t)
      PROVE  UNCHANGED address_records_map
  BY Zenon, <1>1 DEF Spawn, Relay, DropContext, Initialized, TakeMessage, HandlerReturns,
              HandlerCancelled, NoMoreMessages,
              Interrupt, ProcessReturnsFalse, ShutdownDone, Leave
<1>2. ASSUME NEW t \in Tasks, Handle(t)
      PROVE  address_records_map'[a] \in {address_records_map[a], None}
  <2>1. ASSUME NEW p \in Addresses, FreeAddress(p)
        PROVE  address_records_map'[a] \in {address_records_map[a], None}
    BY Zenon, <2>1, FreeOnlyGo
  <2>2. CASE StopDetached(t)
    BY <2>1, <2>2 DEF StopDetached, TypeOK
  <2>3. CASE StopAck(t)
    BY <2>1, <2>3, ZenonT(60) DEF StopAck
  <2> QED BY Zenon, <1>2, <2>2, <2>3
          DEF Handle, StartAccepted, StartRejected, StartPanics, SetReady
<1>3. CASE \E c \in Clients, b \in Addresses : SenderReq(c, b) \/ CheckReady(c, b)
  BY <1>3 DEF SenderReq, CheckReady
<1>4. ASSUME NEW b \in Addresses, StopWorker(b) PROVE UNCHANGED address_records_map
  BY Zenon, <1>4 DEF StopWorker
<1>7. ASSUME NEW b \in ProcessorStops, StopProcessor(b)
      PROVE  address_records_map'[a] \in {address_records_map[a], None}
  <2>1. address_records_map' = [address_records_map EXCEPT ![b] = None]
    BY Zenon, <1>7 DEF StopProcessor
  <2>2. address_records_map \in [Addresses -> Tasks \union {None}]
    BY Zenon DEF TypeOK
  <2> QED BY Zenon, <2>1, <2>2
<1>5. CASE Graceful
  BY Zenon, <1>5 DEF Graceful
<1>6. CASE AbortNode \/ Immediate
  BY <1>6 DEF AbortNode, Immediate, ClearRecords, TypeOK
<1> QED BY <1>1, <1>2, <1>3, <1>4, <1>5, <1>6, <1>7, ZenonT(60) DEF Next, SetCluster, SendToMailbox

-----------------------------------------------------------------------------
(* The two maps.                                                           *)

\* What a step does to the router's two maps: only a start adds to them, a
\* StopProcessor or free_address takes one record out, and stop_now or the
\* timeout, which closes the router, clear the records.
LEMMA MapsStep ==
  ASSUME LifecycleInv, Next
  PROVE  \/ UNCHANGED <<address_records_map, alias_map>>
         \/ \E t \in Tasks : StartAccepted(t)
         \/ \E a \in ProcessorStops : StopProcessor(a)
         \/ \E p \in Addresses : FreeAddress(p)
         \/ StopNow /\ Immediate
         \/ AbortNode /\ ~router_open'
<1> USE DEF task_vars, map_vars, cluster_vars, node_vars
<1>1. ASSUME NEW t \in Tasks, Spawn(t) \/ Relay(t) \/ DropContext(t)
      PROVE  UNCHANGED <<address_records_map, alias_map>>
  BY ZenonT(60), <1>1 DEF Spawn, Relay, DropContext, Initialized, TakeMessage, HandlerReturns,
              HandlerCancelled, NoMoreMessages,
              Interrupt, ProcessReturnsFalse, ShutdownDone, Leave
<1>2. ASSUME NEW t \in Tasks, Handle(t)
      PROVE  \/ UNCHANGED <<address_records_map, alias_map>>
             \/ StartAccepted(t)
             \/ \E p \in Addresses : FreeAddress(p)
  <2>1. CASE StartRejected(t) \/ StartPanics(t) \/ SetReady(t)
    BY <2>1 DEF StartRejected, StartPanics, SetReady
  <2>2. CASE StopDetached(t)
    <3>1. alias_map[primary[t]] # None => alias_map[primary[t]] \in Addresses
      BY DEF LifecycleInv, TypeOK
    <3> QED BY <2>2, <3>1, ZenonT(60) DEF StopDetached
  <2>3. CASE StopAck(t)
    <3>1. FreeAddress(primary[t]) /\ primary[t] \in Addresses
      BY Zenon, <2>3 DEF StopAck
    <3> QED BY <3>1, Zenon
  <2> QED BY <1>2, <2>1, <2>2, <2>3 DEF Handle
<1>3. CASE \E c \in Clients, b \in Addresses : SenderReq(c, b) \/ CheckReady(c, b)
  BY ZenonT(60), <1>3 DEF SenderReq, CheckReady
<1>4. CASE \E b \in Addresses : StopWorker(b)
  BY <1>4, Zenon DEF StopWorker
<1>5. CASE Graceful
  BY Zenon, <1>5 DEF Graceful
<1>6. CASE AbortNode
  BY <1>6 DEF AbortNode
<1>7. CASE \/ \E t \in Tasks, label \in Labels : SetCluster(t, label)
           \/ \E c \in Clients : SendToMailbox(c)
  BY <1>7, ZenonT(60) DEF SetCluster, SendToMailbox
<1> QED BY <1>1, <1>2, <1>3, <1>4, <1>5, <1>6, <1>7, Zenon DEF Next

\* A record taken out with all aliases of its task, as by free_address.
LEMMA TakenOutStep ==
  ASSUME LifecycleInv, AliasInv, UniqueAddresses, ~StopNow, router_open,
         NEW p \in Addresses, NEW t \in Tasks, address_records_map[p] = t,
         address_records_map' = [address_records_map EXCEPT ![p] = None],
         alias_map' = [a \in Addresses |->
                         IF a \in address_set[t] THEN None ELSE alias_map[a]]
  PROVE  AliasInv'
<1>1. primary[t] = p /\ t # None /\ TypeOK
  <2>1. t # None BY Zenon
  <2> QED BY Zenon, <2>1 DEF LifecycleInv, NoStaleRecords
<1>2. ASSUME NEW u \in Tasks, NEW a \in address_set[u]
      PROVE  AliasLeads(u, a)'
  <2>1. a \in Addresses /\ None \notin Tasks BY Zenon
  <2>2. CASE u = t
    <3>1. address_records_map'[primary[u]] = None /\ alias_map'[a] = None
      BY Zenon, <1>1, <2>1, <2>2 DEF TypeOK
    <3> QED BY Zenon, <2>1, <3>1 DEF AliasLeads
  <2>3. CASE u # t
    <3>1. a \notin address_set[t] /\ primary[u] # p
      BY Zenon, <1>1, <2>3 DEF UniqueAddresses
    <3>2. address_records_map'[primary[u]] = address_records_map[primary[u]]
          /\ alias_map'[a] = alias_map[a]
      BY <1>1, <2>1, <3>1 DEF TypeOK
    <3> QED BY ZenonT(60), <3>2 DEF AliasInv, AliasLeads
  <2> QED BY ZenonT(60), <2>2, <2>3
<1>3. \A a \in Addresses : alias_map'[a] # None => \E u \in Tasks : a \in address_set[u]
  BY Zenon DEF AliasInv
<1> QED BY ZenonT(60), <1>2, <1>3 DEF AliasInv

\* Every step keeps an alias and the record it leads to together.
LEMMA AliasStep ==
  ASSUME LifecycleInv, AliasInv, [Next]_vars
  PROVE  AliasInv'
<1> USE DEF task_vars, map_vars, cluster_vars, node_vars
<1> SUFFICES ASSUME UniqueAddresses, ~StopNow, router_open', router_open PROVE AliasInv'
  <2>1. router_open' => router_open BY ZenonT(60) DEF Next, vars
  <2> QED BY Zenon, <2>1 DEF AliasInv, UniqueAddresses
<1>1. TypeOK BY Zenon DEF LifecycleInv
<1>2. CASE UNCHANGED <<address_records_map, alias_map>>
  BY Zenon, <1>2 DEF AliasInv, AliasLeads
<1>3. ASSUME NEW t \in Tasks, StartAccepted(t) PROVE AliasInv'
  <2>1. /\ address_records_map[primary[t]] = None
        /\ address_records_map' = [address_records_map EXCEPT ![primary[t]] = t]
        /\ alias_map' = [a \in Addresses |->
                           IF a \in address_set[t] THEN primary[t] ELSE alias_map[a]]
    BY ZenonT(60), <1>3 DEF StartAccepted
  <2>2. ASSUME NEW u \in Tasks, NEW a \in address_set[u]
        PROVE  AliasLeads(u, a)'
    <3>1. a \in Addresses BY Zenon
    <3>2. CASE u = t
      <4>1. address_records_map'[primary[u]] = u /\ alias_map'[a] = primary[u]
        BY Zenon, <1>1, <2>1, <3>1, <3>2 DEF TypeOK
      <4> QED BY Zenon, <4>1 DEF AliasLeads
    <3>3. CASE u # t
      <4>1. a \notin address_set[t] /\ primary[u] # primary[t]
        BY Zenon, <3>3 DEF UniqueAddresses
      <4>2. address_records_map'[primary[u]] = address_records_map[primary[u]]
            /\ alias_map'[a] = alias_map[a]
        BY Zenon, <1>1, <2>1, <3>1, <4>1 DEF TypeOK
      <4> QED BY Zenon, <4>2 DEF AliasInv, AliasLeads
    <3> QED BY Zenon, <3>2, <3>3
  <2>3. \A a \in Addresses : alias_map'[a] # None => \E u \in Tasks : a \in address_set[u]
    BY <2>1 DEF AliasInv
  <2> QED BY <2>2, <2>3 DEF AliasInv
<1>4. ASSUME NEW p \in ProcessorStops, StopProcessor(p) PROVE AliasInv'
  <2>1. PICK t \in Tasks : address_records_map[p] = t
    BY <1>1, <1>4 DEF StopProcessor, TypeOK
  <2>2. /\ primary[t] = p /\ t # None
        /\ address_records_map' = [address_records_map EXCEPT ![p] = None]
        /\ alias_map' = [alias_map EXCEPT ![p] = None]
    BY Zenon, <1>4, <2>1 DEF StopProcessor, LifecycleInv, NoStaleRecords
  <2>3. ASSUME NEW u \in Tasks, NEW a \in address_set[u] PROVE AliasLeads(u, a)'
    <3>1. AliasLeads(u, a) /\ a \in Addresses BY Zenon DEF AliasInv
    <3>2. CASE u = t
      <4>1. address_records_map'[p] = None BY Zenon, <1>1, <2>2 DEF TypeOK
      <4>2. CASE a = p
        <5>1. alias_map'[a] = None BY Zenon, <1>1, <2>2, <3>1, <4>2 DEF TypeOK
        <5> QED BY Zenon, <2>2, <3>2, <4>1, <5>1 DEF AliasLeads
      <4>3. CASE a # p
        <5>1. alias_map'[a] = p
          BY <1>1, <2>1, <2>2, <3>1, <3>2, <4>3 DEF AliasLeads, TypeOK
        <5> QED BY Zenon, <2>2, <3>2, <4>1, <4>3, <5>1 DEF AliasLeads
      <4> QED BY Zenon, <4>2, <4>3
    <3>3. CASE u # t
      <4>1. a # p /\ primary[u] # p
        <5>1. p \in address_set[t] /\ primary[u] \in address_set[u] BY Zenon, <2>2
        <5> QED BY <3>3, <5>1 DEF UniqueAddresses
      <4>2. address_records_map'[primary[u]] = address_records_map[primary[u]]
            /\ alias_map'[a] = alias_map[a]
        BY Zenon, <1>1, <2>2, <3>1, <4>1 DEF TypeOK
      <4> QED BY Zenon, <3>1, <4>2 DEF AliasLeads
    <3> QED BY Zenon, <3>2, <3>3
  <2>4. \A a \in Addresses : alias_map'[a] # None => \E u \in Tasks : a \in address_set[u]
    BY <1>1, <2>2 DEF AliasInv, TypeOK
  <2> QED BY Zenon, <2>3, <2>4 DEF AliasInv
<1>5. ASSUME NEW p \in Addresses, FreeAddress(p) PROVE AliasInv'
  <2>1. CASE address_records_map[p] = None
    <3>1. UNCHANGED <<address_records_map, alias_map>>
      BY Zenon, <1>1, <1>5, <2>1 DEF FreeAddress, TypeOK
    <3> QED BY <1>2, <3>1
  <2>2. CASE address_records_map[p] # None
    <3>1. PICK t \in Tasks : address_records_map[p] = t
      BY Zenon, <1>1, <2>2 DEF TypeOK
    <3>2. /\ address_records_map' = [address_records_map EXCEPT ![p] = None]
          /\ alias_map' = [b \in Addresses |-> IF b \in address_set[t] THEN None
                                               ELSE alias_map[b]]
      BY Zenon, <1>5, <2>2, <3>1 DEF FreeAddress
    <3> QED BY Zenon, <3>1, <3>2, TakenOutStep
  <2> QED BY Zenon, <2>1, <2>2
<1>6. CASE UNCHANGED vars
  BY Zenon, <1>2, <1>6 DEF vars
<1>7. CASE Next
  BY <1>2, <1>3, <1>4, <1>5, <1>7, MapsStep
<1> QED BY <1>6, <1>7

\* The two maps agree in every behaviour.
THEOREM AliasInvariance == Spec => []AliasInv
<1>1. Init => AliasInv
  <2>1. \A t \in Tasks : t # None BY Zenon
  <2> QED BY <2>1 DEF Init, AliasInv, AliasLeads
<1>2. LifecycleInv /\ AliasInv /\ [Next]_vars => AliasInv'
  BY AliasStep
<1> QED BY <1>1, <1>2, LifecycleInvariance, PTL DEF Spec

\* On a node whose tasks share no address and that does not call stop_now, every
\* alias leads to the record of the task it is an address of, but for those that
\* stop_processor leaves behind, and every record is reached by all the addresses
\* of its task, while the router is in its loop.
THEOREM AliasesAgree == Spec => []AliasesHaveRecords
<1>1. ASSUME LifecycleInv, AliasInv PROVE AliasesHaveRecords
  <2> SUFFICES ASSUME UniqueAddresses, ~StopNow, router_open, NEW a \in Addresses
               PROVE  LET p == alias_map[a]
                          t == IF p = None THEN None ELSE address_records_map[p]
                      IN  /\ p = None => \A u \in Tasks : a \in address_set[u] =>
                                                           address_records_map[primary[u]] # u
                          /\ t # None => a \in address_set[t]
                          /\ p # None /\ t = None => p \in ProcessorStops \ {a}
    BY Zenon DEF AliasesHaveRecords
  <2>1. \A t \in Tasks : a \in address_set[t] => AliasLeads(t, a)
    BY Zenon, <1>1 DEF AliasInv
  <2>2. CASE alias_map[a] = None
    <3>1. \A t \in Tasks : primary[t] # None BY ZenonT(60)
    <3> QED BY <2>1, <2>2, <3>1 DEF AliasLeads
  <2>3. CASE alias_map[a] # None
    <3>1. PICK t \in Tasks : a \in address_set[t]
      BY Zenon, <1>1, <2>3 DEF AliasInv
    <3>2. \/ address_records_map[alias_map[a]] = t
          \/ /\ address_records_map[alias_map[a]] = None
             /\ alias_map[a] \in ProcessorStops \ {a}
      BY <2>1, <2>3, <3>1 DEF AliasLeads
    <3>3. t # None BY Zenon
    <3> QED BY Zenon, <2>3, <3>1, <3>2, <3>3
  <2> QED BY Zenon, <2>2, <2>3
<1> QED BY <1>1, LifecycleInvariance, AliasInvariance, PTL

-----------------------------------------------------------------------------
(* The record of a worker.                                                 *)

\* The state of the node: without stop_now it is never dead, and the timeout runs
\* only while the node stops and ends the router's loop.
NodeRuns ==
  /\ node_state # "Dead"
  /\ timeout # "off" => node_state = "Stopping"
  /\ timeout = "fired" => ~router_open

\* Only Context::stop and its timeout change it.
LEMMA NodeStep ==
  ASSUME TypeOK, NodeRuns, ~StopNow, Next
  PROVE  NodeRuns' /\ (timeout' = "fired" => AbortNode)
<1> USE DEF task_vars, map_vars, cluster_vars, node_vars
<1>1. router_open /\ timeout # "fired" BY Zenon DEF Next, NodeRuns
<1>2. CASE UNCHANGED <<node_state, timeout>>
  BY Zenon, <1>1, <1>2 DEF NodeRuns
<1>3. ASSUME NEW t \in Tasks, Spawn(t) \/ Relay(t) \/ DropContext(t)
      PROVE  UNCHANGED <<node_state, timeout>>
  BY Zenon, <1>3 DEF Spawn, Relay, DropContext, Initialized, TakeMessage, HandlerReturns,
              HandlerCancelled, NoMoreMessages,
              Interrupt, ProcessReturnsFalse, ShutdownDone, Leave
<1>4. ASSUME NEW t \in Tasks, Handle(t) PROVE UNCHANGED <<node_state, timeout>>
  BY ZenonT(60), <1>4 DEF Handle, StartAccepted, StartRejected, StartPanics, SetReady,
                          StopDetached, StopAck
<1>5. CASE \/ \E c \in Clients, b \in Addresses : SenderReq(c, b) \/ CheckReady(c, b)
           \/ \E b \in Addresses : StopWorker(b)
           \/ \E b \in ProcessorStops : StopProcessor(b)
           \/ \E t \in Tasks, label \in Labels : SetCluster(t, label)
           \/ \E c \in Clients : SendToMailbox(c)
  <2>1. UNCHANGED <<node_state, timeout>>
    BY ZenonT(60), <1>5 DEF SenderReq, CheckReady, StopWorker, StopProcessor, SetCluster,
                            SendToMailbox
  <2> QED BY Zenon, <1>2, <2>1
<1>6. CASE Graceful
  <2>1. node_state' = "Stopping" /\ timeout' \in {timeout, "running"}
    BY ZenonT(60), <1>6 DEF Graceful, TimeoutStarted
  <2> QED BY <1>1, <2>1 DEF NodeRuns
<1>7. CASE AbortNode
  <2>1. node_state' = "Stopping" /\ router_open' = FALSE
    <3>1. node_state = "Stopping" BY <1>7 DEF AbortNode, NodeRuns
    <3> QED BY Zenon, <1>7, <3>1 DEF AbortNode
  <2> QED BY <1>7, <2>1 DEF NodeRuns
<1> QED BY Zenon, <1>2, <1>3, <1>4, <1>5, <1>6, <1>7 DEF Next

\* A worker no handler of which was cancelled, and that has its record until it
\* is gone.
Kept(t) ==
  /\ t \notin cancelled
  /\ start[t] = "accepted" /\ task[t] # "gone" => address_records_map[primary[t]] = t

\* What relays, clients and the calls that leave the records alone do to such a
\* worker.
LEMMA KeptByTasks ==
  ASSUME LifecycleInv, NEW t \in Tasks, Kept(t),
         \/ \E u \in Tasks : Spawn(u) \/ Relay(u) \/ DropContext(u)
         \/ \E c \in Clients, b \in Addresses : SenderReq(c, b) \/ CheckReady(c, b)
         \/ \E b \in Addresses : StopWorker(b)
         \/ \E u \in Tasks, label \in Labels : SetCluster(u, label)
         \/ \E c \in Clients : SendToMailbox(c)
         \/ Graceful
  PROVE  Kept(t)'
<1> USE DEF task_vars, map_vars, cluster_vars, node_vars
<1>1. ASSUME t \notin cancelled', UNCHANGED address_records_map,
             start'[t] = "accepted" => start[t] = "accepted",
             task[t] = "gone" => task'[t] = "gone"
      PROVE  Kept(t)'
  BY Zenon, <1>1 DEF Kept
<1>2. /\ task \in [Tasks -> {"new", "initialize", "running", "handling", "shutdown",
                             "stopped", "gone"}]
      /\ start \in [Tasks -> {"none", "sent", "accepted", "rejected"}]
      /\ t \notin cancelled
  BY Zenon DEF LifecycleInv, TypeOK, Kept
<1>3. ASSUME NEW u \in Tasks, Spawn(u) PROVE Kept(t)'
  <2>1. /\ start'[t] = "accepted" => start[t] = "accepted"
        /\ task[t] = "gone" => task'[t] = "gone"
    BY <1>2, <1>3 DEF Spawn
  <2> QED BY Zenon, <1>1, <1>2, <1>3, <2>1 DEF Spawn
<1>4. ASSUME NEW u \in Tasks, NEW s, task' = [task EXCEPT ![u] = s], task[u] # "gone",
             t \notin cancelled', UNCHANGED <<address_records_map, start>>
      PROVE  Kept(t)'
  <2>1. task[t] = "gone" => task'[t] = "gone" BY <1>2, <1>4
  <2> QED BY Zenon, <1>1, <1>4, <2>1
<1>5. ASSUME NEW u \in Tasks, HandlerCancelled(u) PROVE Kept(t)'
  <2>1. u # t
    <3>1. task[u] = "handling" /\ Unregistered(u) BY Zenon, <1>5 DEF HandlerCancelled
    <3>2. start[u] = "accepted" BY Zenon, <3>1 DEF LifecycleInv, OnlyAcceptedReceive
    <3>3. task[u] # "gone" BY Zenon, <3>1
    <3> QED BY Zenon, <3>1, <3>2, <3>3 DEF Kept, Unregistered
  <2>2. t \notin cancelled' BY Zenon, <1>2, <1>5, <2>1 DEF HandlerCancelled
  <2>3. task[u] # "gone" BY <1>5 DEF HandlerCancelled
  <2> QED BY Zenon, <1>4, <1>5, <2>2, <2>3 DEF HandlerCancelled
<1>6. ASSUME NEW u \in Tasks, Relay(u) \/ DropContext(u) PROVE Kept(t)'
  <2>1. CASE Initialized(u) \/ TakeMessage(u)
    <3>1. task[u] # "gone" BY <2>1 DEF Initialized, TakeMessage
    <3> QED BY Zenon, <1>2, <1>4, <2>1, <3>1 DEF Initialized, TakeMessage
  <2>2. CASE \/ HandlerReturns(u) \/ NoMoreMessages(u) \/ Interrupt(u)
             \/ ProcessReturnsFalse(u) \/ ShutdownDone(u) \/ DropContext(u)
    <3>1. task[u] # "gone"
      BY Zenon, <2>2 DEF HandlerReturns, NoMoreMessages, Interrupt, ProcessReturnsFalse, ShutdownDone,
                  DropContext
    <3> QED BY ZenonT(60), <1>2, <1>4, <2>2, <3>1
            DEF HandlerReturns, NoMoreMessages, Interrupt, ProcessReturnsFalse, ShutdownDone,
                DropContext, Leave
  <2> QED BY Zenon, <1>5, <1>6, <2>1, <2>2 DEF Relay
<1>7. ASSUME UNCHANGED <<task, start, cancelled, address_records_map>> PROVE Kept(t)'
  BY Zenon, <1>7 DEF Kept
<1>8. CASE \/ \E c \in Clients, b \in Addresses : SenderReq(c, b) \/ CheckReady(c, b)
           \/ \E b \in Addresses : StopWorker(b)
           \/ \E u \in Tasks, label \in Labels : SetCluster(u, label)
           \/ \E c \in Clients : SendToMailbox(c)
           \/ Graceful
  BY ZenonT(60), <1>7, <1>8 DEF SenderReq, CheckReady, StopWorker, SetCluster, SendToMailbox,
                                Graceful
<1> QED BY Zenon, <1>3, <1>6, <1>8

\* What the router does to such a worker with the messages of all tasks, and with
\* calls of stop_processor for others.
LEMMA KeptByRouter ==
  ASSUME LifecycleInv, AliasInv, UniqueAddresses, ~StopNow, router_open,
         NEW t \in Tasks, Kept(t), kind[t] = "worker", primary[t] \notin ProcessorStops,
         \/ \E u \in Tasks : Handle(u)
         \/ \E b \in ProcessorStops : StopProcessor(b)
  PROVE  Kept(t)'
<1> USE DEF task_vars, map_vars, cluster_vars, node_vars
<1>1. /\ TypeOK
      /\ task \in [Tasks -> {"new", "initialize", "running", "handling", "shutdown",
                             "stopped", "gone"}]
      /\ start \in [Tasks -> {"none", "sent", "accepted", "rejected"}]
      /\ address_records_map \in [Addresses -> Tasks \union {None}]
      /\ \A u \in Tasks : u # t => primary[u] # primary[t]
  <2>1. \A u \in Tasks : primary[u] \in address_set[u] BY Zenon
  <2> QED BY Zenon, <2>1 DEF LifecycleInv, TypeOK, UniqueAddresses
<1>2. ASSUME UNCHANGED cancelled,
             address_records_map'[primary[t]] = address_records_map[primary[t]],
             start'[t] = "accepted" => start[t] = "accepted",
             task[t] = "gone" => task'[t] = "gone"
      PROVE  Kept(t)'
  BY Zenon, <1>2 DEF Kept
<1>3. ASSUME NEW u \in Tasks, StartAccepted(u) PROVE Kept(t)'
  <2>1. CASE u = t
    <3>1. address_records_map'[primary[t]] = t
      BY Zenon, <1>1, <1>3, <2>1 DEF StartAccepted
    <3> QED BY Zenon, <1>3, <3>1 DEF StartAccepted, Kept
  <2>2. CASE u # t
    <3>1. /\ address_records_map'[primary[t]] = address_records_map[primary[t]]
          /\ start'[t] = start[t] /\ task'[t] = task[t]
      BY Zenon, <1>1, <1>3, <2>2 DEF StartAccepted, ContextAfter
    <3> QED BY Zenon, <1>2, <1>3, <3>1 DEF StartAccepted
  <2> QED BY Zenon, <2>1, <2>2
<1>4. ASSUME NEW u \in Tasks, StartRejected(u) PROVE Kept(t)'
  <2>1. start'[t] = "accepted" => start[t] = "accepted" /\ u # t
    BY <1>1, <1>4 DEF StartRejected
  <2>2. task'[t] = task[t]
    BY <1>1, <1>4 DEF StartRejected, ContextAfter
  <2> QED BY Zenon, <1>2, <1>4, <2>1, <2>2 DEF StartRejected
<1>5. ASSUME NEW u \in Tasks, StartPanics(u) \/ SetReady(u) PROVE Kept(t)'
  BY Zenon, <1>2, <1>5 DEF StartPanics, SetReady
<1>6. ASSUME NEW p \in Addresses, FreeAddress(p), p # primary[t]
      PROVE  address_records_map'[primary[t]] = address_records_map[primary[t]]
  BY <1>1, <1>6 DEF FreeAddress
<1>7. ASSUME NEW u \in Tasks, StopDetached(u) PROVE Kept(t)'
  <2>1. u # t /\ primary[u] # primary[t] BY Zenon, <1>1, <1>7 DEF StopDetached
  <2>2. alias_map[primary[u]] \in {primary[u], None}
    <3>1. AliasLeads(u, primary[u]) BY Zenon DEF AliasInv
    <3> QED BY Zenon, <3>1 DEF AliasLeads
  <2>3. address_records_map'[primary[t]] = address_records_map[primary[t]]
    BY ZenonT(60), <1>6, <1>7, <2>1, <2>2 DEF StopDetached
  <2>4. task'[t] = task[t] BY <1>1, <1>7, <2>1 DEF StopDetached
  <2> QED BY Zenon, <1>2, <1>7, <2>3, <2>4 DEF StopDetached
<1>8. ASSUME NEW u \in Tasks, StopAck(u) PROVE Kept(t)'
  <2>1. task' = [task EXCEPT ![u] = "gone"] /\ UNCHANGED <<start, cancelled>>
        /\ FreeAddress(primary[u])
    BY Zenon, <1>8 DEF StopAck
  <2>2. CASE u = t
    <3>1. task'[t] = "gone" BY <1>1, <2>1, <2>2
    <3> QED BY Zenon, <2>1, <3>1 DEF Kept
  <2>3. CASE u # t
    <3>1. task'[t] = task[t] BY <1>1, <2>1, <2>3
    <3>2. address_records_map'[primary[t]] = address_records_map[primary[t]]
      BY Zenon, <1>1, <1>6, <2>1, <2>3
    <3> QED BY Zenon, <1>2, <2>1, <3>1, <3>2
  <2> QED BY Zenon, <2>2, <2>3
<1>9. ASSUME NEW b \in ProcessorStops, StopProcessor(b) PROVE Kept(t)'
  <2>1. address_records_map'[primary[t]] = address_records_map[primary[t]]
    BY <1>1, <1>9 DEF StopProcessor
  <2> QED BY Zenon, <1>2, <1>9, <2>1 DEF StopProcessor
<1> QED BY Zenon, <1>3, <1>4, <1>5, <1>7, <1>8, <1>9 DEF Handle

\* Every step keeps the invariant.
LEMMA RecordStep ==
  ASSUME LifecycleInv, AliasInv, RecordInv, [Next]_vars
  PROVE  RecordInv'
<1> USE DEF task_vars, map_vars, cluster_vars, node_vars
<1> SUFFICES ASSUME ~StopNow PROVE RecordInv'
  BY Zenon DEF RecordInv
<1>1. CASE UNCHANGED vars
  BY Zenon, <1>1 DEF vars, RecordInv, KeepsRecord, UniqueAddresses
<1>2. CASE Next
  <2>1. TypeOK /\ NodeRuns /\ router_open /\ timeout # "fired"
    BY Zenon, <1>2 DEF Next, LifecycleInv, RecordInv, NodeRuns
  <2>2. NodeRuns' /\ (timeout' = "fired" => AbortNode) BY Zenon, <1>2, <2>1, NodeStep
  <2>3. ASSUME NEW t \in Tasks, kind[t] = "worker", KeepsRecord(t)
        PROVE  t \notin cancelled' /\ (timeout' # "fired" => Kept(t)')
    <3>1. Kept(t) /\ UniqueAddresses /\ primary[t] \notin ProcessorStops
      BY Zenon, <2>1, <2>3 DEF RecordInv, Kept, KeepsRecord
    <3>2. CASE AbortNode
      <4>1. timeout' = "fired" /\ UNCHANGED cancelled BY Zenon, <3>2 DEF AbortNode
      <4> QED BY Zenon, <3>1, <4>1 DEF Kept
    <3>3. CASE Kept(t)' BY Zenon, <3>3 DEF Kept
    <3> QED BY ZenonT(60), <1>2, <2>1, <2>3, <3>1, <3>2, <3>3, KeptByTasks, KeptByRouter DEF Next
  <2> QED BY Zenon, <2>2, <2>3 DEF RecordInv, NodeRuns, Kept, KeepsRecord, UniqueAddresses
<1> QED BY <1>1, <1>2

\* A worker whose addresses no other task has and stop_processor is not called
\* with has its record until it is gone or the timeout fires, and no handler of it
\* is cancelled.
THEOREM RecordInvariance == Spec => []RecordInv
<1>1. Init => RecordInv
  BY Zenon DEF Init, RecordInv
<1>2. LifecycleInv /\ AliasInv /\ RecordInv /\ [Next]_vars => RecordInv'
  BY RecordStep
<1> QED BY <1>1, <1>2, LifecycleInvariance, AliasInvariance, PTL DEF Spec

\* A worker runs its shutdown hook after the last message clients put into its
\* mailbox is taken out, and while it keeps its record the handlers of all of them
\* return, however many clients hold clones of its sender when it is stopped.
THEOREM NoMessageLeftBehind == Spec => []MailboxesDrained
<1>1. LifecycleInv /\ RecordInv => MailboxesDrained
  BY Zenon DEF LifecycleInv, RecordInv, MailboxesDrained, Ended, KeepsRecord
<1> QED BY <1>1, LifecycleInvariance, RecordInvariance, PTL

-----------------------------------------------------------------------------
(* The shutdown of a node of workers and detached contexts.                *)

\* The addresses map has workers' records for are awaited or in a cluster, and
\* clusters with addresses are in the order.
Covered(map, left, order, groups) ==
  /\ \A l \in Labels : groups[l] # {} => \E i \in 1 .. Len(order) : order[i] = l
  /\ \A a \in Addresses : map[a] # None /\ kind[map[a]] = "worker" =>
                           a \in left \/ \E l \in Labels : a \in groups[l]

\* stop_next_cluster signals every worker of the cluster it takes, and ends the
\* shutdown only when there is none.
LEMMA NextClusterCovers ==
  ASSUME TypeOK, PlainNode, router_open, node_state' = "Stopping",
         NEW map \in [Addresses -> Tasks \union {None}],
         NEW left \in SUBSET Addresses, NEW call, StopNextCluster(map, left, call),
         Covered(map, left, cluster_order, clusters)
  PROVE  \/ /\ stop_call' = "ok" /\ ~router_open'
            /\ \A a \in Addresses : map[a] # None /\ kind[map[a]] = "worker" => a \in left
            /\ Covered(map, stopping', cluster_order', clusters')
         \/ /\ stop_call' = call /\ router_open'
            /\ Covered(map, stopping', cluster_order', clusters')
<1>1. CASE cluster_order = <<>>
  <2>1. /\ stop_call' = "ok" /\ ~router_open' /\ stopping' = left
        /\ UNCHANGED <<cluster_order, clusters>>
    BY <1>1, ZenonT(60) DEF StopNextCluster
  <2>2. \A l \in Labels : clusters[l] = {}
    BY <1>1 DEF Covered
  <2> QED BY <2>1, <2>2 DEF Covered
<1>2. CASE cluster_order # <<>>
  <2> DEFINE last == Len(cluster_order)
             label == cluster_order[last]
             members == {a \in Addresses : map[a] # None /\ a \in clusters[label]}
  <2>1. /\ cluster_order' = SubSeq(cluster_order, 1, last - 1)
        /\ clusters' = [clusters EXCEPT ![label] = {}]
        /\ \E failing \in SUBSET MayFail(map, members) :
             stopping' = IF failing = {} THEN left \union members ELSE left
        /\ router_open' /\ stop_call' = call
    BY <1>2, Zenon DEF StopNextCluster
  <2>2. MayFail(map, members) = {}
    BY Zenon DEF MayFail, PlainNode
  <2>3. stopping' = left \union members
    BY <2>1, <2>2, ZenonT(60)
  <2>4. cluster_order \in Seq(Labels) /\ last \in Nat \ {0} /\ label \in Labels
    <3>1. cluster_order \in Seq(Labels) BY Zenon DEF TypeOK
    <3>2. last \in Nat \ {0} BY Zenon, <1>2, <3>1, EmptySeq, LenProperties
    <3> QED BY <3>1, <3>2, ElementOfSeq
  <2>5. /\ Len(cluster_order') = last - 1
        /\ \A i \in 1 .. last - 1 : cluster_order'[i] = cluster_order[i]
    <3> DEFINE k == last - 1
               q == SubSeq(cluster_order, 1, k)
    <3>1. k \in Nat BY <2>4
    <3>2. \A i \in 1 .. k : cluster_order[i] \in Labels BY <2>4, <3>1, ElementOfSeq
    <3>3. /\ Len(q) = IF 1 <= k THEN k - 1 + 1 ELSE 0
          /\ \A i \in 1 .. k - 1 + 1 : q[i] = cluster_order[1 + i - 1]
      BY <3>1, <3>2, SubSeqProperties
    <3> HIDE DEF q, k
    <3>4. k - 1 + 1 = k /\ Len(q) = k BY <3>1, <3>3
    <3>5. ASSUME NEW i \in 1 .. k PROVE q[i] = cluster_order[i]
      <4>1. 1 + i - 1 = i BY <3>1
      <4> QED BY Zenon, <3>3, <3>4, <4>1
    <3> QED BY Zenon, <2>1, <3>4, <3>5 DEF q, k
  <2>6. ASSUME NEW l \in Labels, clusters'[l] # {}
        PROVE  \E i \in 1 .. Len(cluster_order') : cluster_order'[i] = l
    <3>1. l # label /\ clusters[l] # {}
      BY <2>1, <2>4, <2>6 DEF TypeOK
    <3>2. PICK i \in 1 .. last : cluster_order[i] = l
      BY Zenon, <3>1 DEF Covered
    <3>3. i \in 1 .. last - 1
      <4>1. i # last BY <3>1, <3>2, ZenonT(60)
      <4>2. last \in Nat BY Zenon, LenProperties DEF TypeOK
      <4> HIDE DEF last
      <4> QED BY <4>1, <4>2
    <3> QED BY Zenon, <2>5, <3>2, <3>3
  <2>7. ASSUME NEW a \in Addresses, map[a] # None, kind[map[a]] = "worker"
        PROVE  a \in stopping' \/ \E l \in Labels : a \in clusters'[l]
    <3>1. CASE a \in left BY ZenonT(60), <2>3, <3>1
    <3>2. ASSUME NEW l \in Labels, a \in clusters[l]
          PROVE  a \in stopping' \/ a \in clusters'[l]
      BY ZenonT(60), <2>1, <2>3, <2>4, <2>7, <3>2 DEF TypeOK
    <3> QED BY <2>7, <3>1, <3>2 DEF Covered
  <2> QED BY Zenon, <2>1, <2>6, <2>7 DEF Covered
<1> QED BY ZenonT(60), <1>1, <1>2

\* Steps that touch neither clusters nor the node's state, and stop waiting only
\* for addresses that have no record.
LEMMA QuietStep ==
  ASSUME LifecycleInv, PlainNode, ShutdownInv, Next,
         UNCHANGED <<cluster_order, clusters, node_vars>>,
         \A a \in stopping : address_records_map'[a] # None => a \in stopping'
  PROVE  ShutdownInv'
<1>1. TypeOK /\ router_open /\ stop_call # "ok"
  BY Zenon DEF LifecycleInv, Next, ShutdownInv
<1>2. UNCHANGED <<node_state, router_open, timeout, stop_call>>
  BY Zenon DEF node_vars
<1>3. SafeShutdown' BY Zenon, <1>1, <1>2 DEF SafeShutdown
<1>4. ASSUME node_state' = "Stopping", timeout' # "fired", NEW a \in Addresses,
             address_records_map'[a] # None, kind[address_records_map'[a]] = "worker"
      PROVE  a \in stopping' \/ \E l \in Labels : a \in clusters'[l]
  <2>1. node_state = "Stopping" /\ timeout # "fired" BY Zenon, <1>2, <1>4
  <2>2. node_state # "Running" BY <2>1
  <2>3. address_records_map'[a] = address_records_map[a]
    BY Zenon, <1>1, <1>4, <2>2, NoStartStep
  <2>4. a \in stopping \/ \E l \in Labels : a \in clusters[l]
    BY Zenon, <1>4, <2>1, <2>3 DEF ShutdownInv
  <2> QED BY Zenon, <1>4, <2>4
<1>5. \A l \in Labels : clusters'[l] # {} =>
        \E i \in 1 .. Len(cluster_order') : cluster_order'[i] = l
  BY Zenon DEF ShutdownInv
<1> QED BY Zenon, <1>1, <1>2, <1>3, <1>4, <1>5 DEF ShutdownInv

\* What tasks, clients and single starts and stops do.
LEMMA QuietSteps ==
  ASSUME LifecycleInv, PlainNode, ShutdownInv, Next,
         \/ \E t \in Tasks : \/ Spawn(t) \/ Relay(t) \/ DropContext(t)
                             \/ StartAccepted(t) \/ StartRejected(t) \/ StopDetached(t)
                             \/ SetReady(t)
         \/ \E c \in Clients, b \in Addresses : SenderReq(c, b) \/ CheckReady(c, b)
         \/ \E c \in Clients : SendToMailbox(c)
         \/ \E b \in Addresses : StopWorker(b)
         \/ \E b \in ProcessorStops : StopProcessor(b)
  PROVE  ShutdownInv'
<1> USE DEF task_vars, map_vars, cluster_vars
<1>1. CASE UNCHANGED <<cluster_vars, node_vars>>
  BY Zenon, <1>1, QuietStep
<1>2. ASSUME NEW t \in Tasks, StopDetached(t) PROVE ShutdownInv'
  <2> DEFINE p == alias_map[primary[t]]
  <2>1. UNCHANGED <<cluster_order, clusters, node_vars>>
    BY ZenonT(60), <1>2 DEF StopDetached
  <2>2. CASE p # None /\ address_records_map[p] # None
    <3>1. stopping' = stopping \ {p} /\ FreeAddress(p)
      BY ZenonT(60), <1>2, <2>2 DEF StopDetached
    <3>2. \A a \in Addresses : address_records_map'[a] # None => a # p
      BY <3>1 DEF FreeAddress, LifecycleInv, TypeOK
    <3>3. stopping \subseteq Addresses BY Zenon DEF LifecycleInv, TypeOK
    <3> QED BY Zenon, <2>1, <3>1, <3>2, <3>3, QuietStep
  <2>3. CASE ~(p # None /\ address_records_map[p] # None)
    <3>1. UNCHANGED stopping BY ZenonT(60), <1>2, <2>3 DEF StopDetached
    <3> QED BY Zenon, <2>1, <3>1, QuietStep
  <2> QED BY Zenon, <2>2, <2>3
<1>3. ASSUME NEW t \in Tasks, Spawn(t) \/ Relay(t) \/ DropContext(t)
      PROVE  UNCHANGED <<cluster_vars, node_vars>>
  BY ZenonT(60), <1>3 DEF Spawn, Relay, DropContext, Initialized, TakeMessage, HandlerReturns,
              HandlerCancelled, NoMoreMessages,
              Interrupt, ProcessReturnsFalse, ShutdownDone, Leave
<1>4. ASSUME NEW t \in Tasks, StartAccepted(t) \/ StartRejected(t) \/ SetReady(t)
      PROVE  UNCHANGED <<cluster_vars, node_vars>>
  BY Zenon, <1>4 DEF StartAccepted, StartRejected, SetReady
<1>5. CASE \/ \E c \in Clients, b \in Addresses : SenderReq(c, b) \/ CheckReady(c, b)
           \/ \E c \in Clients : SendToMailbox(c)
           \/ \E b \in Addresses : StopWorker(b)
           \/ \E b \in ProcessorStops : StopProcessor(b)
  <2>1. UNCHANGED <<cluster_vars, node_vars>>
    BY ZenonT(60), <1>5 DEF SenderReq, CheckReady, StopWorker, StopProcessor, SendToMailbox
  <2> QED BY Zenon, <1>1, <2>1
<1> QED BY Zenon, <1>1, <1>2, <1>3, <1>4, <1>5

\* When no worker has a record, all of them are gone.
LEMMA SafeWhenBare ==
  ASSUME PlainNode, RecordInv',
         \A a \in Addresses : ~(/\ address_records_map'[a] # None
                                /\ kind[address_records_map'[a]] = "worker")
  PROVE  SafeShutdown'
<1> SUFFICES ASSUME NEW t \in Tasks, timeout' # "fired", start'[t] = "accepted",
                    kind[t] = "worker", primary[t] \notin ProcessorStops, task'[t] # "gone"
             PROVE  FALSE
  BY Zenon DEF SafeShutdown
<1>1. ~StopNow /\ KeepsRecord(t) BY Zenon DEF PlainNode, KeepsRecord
<1>2. KeepsRecord(t)' BY Zenon, <1>1 DEF KeepsRecord, UniqueAddresses
<1>3. address_records_map'[primary[t]] = t BY Zenon, <1>1, <1>2 DEF RecordInv
<1>4. t # None /\ primary[t] \in Addresses BY Zenon
<1> QED BY Zenon, <1>3, <1>4

\* A StopAck: the worker is gone with its record, and when the shutdown ends
\* there is no other.
LEMMA AckStep ==
  ASSUME LifecycleInv, RecordInv', PlainNode, ShutdownInv, router_open,
         NEW t \in Tasks, StopAck(t), node_state # "Dead", timeout # "fired"
  PROVE  ShutdownInv'
<1> DEFINE left == stopping \ {primary[t]}
<1>1. TypeOK /\ node_state \in {"Running", "Stopping"} /\ stop_call # "ok"
  BY Zenon DEF LifecycleInv, ShutdownInv, TypeOK
<1>2. /\ task' = [task EXCEPT ![t] = "gone"]
      /\ address_records_map' = [address_records_map EXCEPT ![primary[t]] = None]
      /\ UNCHANGED <<start, timeout, node_state>>
  BY Zenon DEF StopAck, FreeAddress
<1>3. /\ address_records_map' \in [Addresses -> Tasks \union {None}]
      /\ \A a \in Addresses : address_records_map'[a] # None =>
           a # primary[t] /\ address_records_map'[a] = address_records_map[a]
  BY ZenonT(60), <1>1, <1>2 DEF TypeOK
<1>4. node_state = "Stopping" => Covered(address_records_map', left, cluster_order, clusters)
  <2> SUFFICES ASSUME node_state = "Stopping", NEW a \in Addresses,
                      address_records_map'[a] # None, kind[address_records_map'[a]] = "worker"
               PROVE  a \in left \/ \E l \in Labels : a \in clusters[l]
    BY Zenon DEF ShutdownInv, Covered
  <2>1. a # primary[t] /\ address_records_map'[a] = address_records_map[a] BY Zenon, <1>3
  <2>2. a \in stopping \/ \E l \in Labels : a \in clusters[l]
    BY Zenon, <2>1 DEF ShutdownInv
  <2> QED BY Zenon, <2>1, <2>2
<1>5. CASE /\ stopping' = left
           /\ UNCHANGED <<records, cluster_order, clusters, router_open, stop_call>>
  <2>1. node_state' = "Stopping" => \A a \in Addresses :
          address_records_map'[a] # None /\ kind[address_records_map'[a]] = "worker" =>
            a \in stopping' \/ \E l \in Labels : a \in clusters'[l]
    BY ZenonT(60), <1>2, <1>4, <1>5 DEF Covered
  <2>2. \A l \in Labels : clusters'[l] # {} =>
          \E i \in 1 .. Len(cluster_order') : cluster_order'[i] = l
    BY Zenon, <1>5 DEF ShutdownInv
  <2> QED BY ZenonT(60), <1>1, <1>2, <1>5, <2>1, <2>2 DEF ShutdownInv, SafeShutdown
<1>6. CASE node_state = "Stopping" /\ left = {}
           /\ StopNextCluster(address_records_map', left, stop_call)
  <2>1. node_state' = "Stopping" /\ left \in SUBSET Addresses
    BY <1>1, <1>2, <1>6
  <2>2. \/ /\ stop_call' = "ok" /\ ~router_open'
           /\ \A a \in Addresses :
                address_records_map'[a] # None /\ kind[address_records_map'[a]] = "worker" =>
                  a \in left
           /\ Covered(address_records_map', stopping', cluster_order', clusters')
        \/ /\ stop_call' = stop_call /\ router_open'
           /\ Covered(address_records_map', stopping', cluster_order', clusters')
    BY ZenonT(60), <1>1, <1>3, <1>4, <1>6, <2>1, NextClusterCovers
  <2>3. SafeShutdown'
    <3>1. CASE stop_call' = "ok"
      <4>1. \A a \in Addresses : ~(/\ address_records_map'[a] # None
                                   /\ kind[address_records_map'[a]] = "worker")
        BY Zenon, <1>1, <1>6, <2>2, <3>1
      <4> QED BY Zenon, <4>1, SafeWhenBare
    <3>2. CASE stop_call' # "ok" BY <3>2 DEF SafeShutdown
    <3> QED BY <3>1, <3>2
  <2> QED BY ZenonT(60), <1>1, <1>2, <2>1, <2>2, <2>3 DEF ShutdownInv, Covered
<1> QED BY <1>1, <1>5, <1>6, ZenonT(60) DEF StopAck

\* StopNode(Graceful): every worker is signalled or in a cluster to come.
LEMMA GracefulStep ==
  ASSUME LifecycleInv, RecordInv', PlainNode, ShutdownInv, router_open, Graceful
  PROVE  ShutdownInv'
<1> USE DEF task_vars
<1>1. /\ TypeOK /\ node_state' = "Stopping"
      /\ UNCHANGED <<task, start, address_records_map>>
      /\ \A l \in Labels : clusters[l] # {} =>
           \E i \in 1 .. Len(cluster_order) : cluster_order[i] = l
  BY ZenonT(60) DEF LifecycleInv, ShutdownInv, Graceful
<1>3. CASE /\ NonClusterWorkers = {} /\ UNCHANGED timeout
           /\ StopNextCluster(address_records_map, stopping, "waiting")
  <2>1. \A a \in Addresses :
          address_records_map[a] # None /\ kind[address_records_map[a]] = "worker" =>
            \E l \in Labels : a \in clusters[l]
    <3>1. \A a \in Addresses : a \notin NonClusterWorkers
      BY Zenon, <1>3
    <3>2. \A k : k = "worker" => k # "detached" BY SMT
    <3> QED BY Zenon, <3>1, <3>2 DEF NonClusterWorkers
  <2>2. Covered(address_records_map, stopping, cluster_order, clusters)
    BY Zenon, <1>1, <2>1 DEF Covered
  <2>3. /\ address_records_map \in [Addresses -> Tasks \union {None}]
        /\ stopping \in SUBSET Addresses
    BY <1>1 DEF TypeOK
  <2>4. \/ /\ stop_call' = "ok" /\ ~router_open'
           /\ Covered(address_records_map, stopping', cluster_order', clusters')
        \/ /\ stop_call' = "waiting" /\ router_open'
           /\ Covered(address_records_map, stopping', cluster_order', clusters')
    BY Zenon, <1>1, <1>3, <2>2, <2>3, NextClusterCovers
  <2>5. SafeShutdown'
    <3>1. CASE cluster_order = <<>>
      <4>1. \A l \in Labels : clusters[l] = {}
        BY <1>1, <3>1
      <4>2. \A a \in Addresses : ~(/\ address_records_map'[a] # None
                                   /\ kind[address_records_map'[a]] = "worker")
        BY Zenon, <1>1, <2>1, <4>1
      <4> QED BY Zenon, <4>2, SafeWhenBare
    <3>2. CASE cluster_order # <<>>
      <4>1. stop_call' = "waiting" BY <1>3, <3>2 DEF StopNextCluster
      <4> QED BY Zenon, <4>1 DEF SafeShutdown
    <3> QED BY Zenon, <3>1, <3>2
  <2> QED BY ZenonT(60), <1>1, <1>3, <2>4, <2>5 DEF ShutdownInv, Covered
<1>4. CASE /\ stopping' = stopping \union NonClusterWorkers /\ stop_call' = "waiting"
           /\ timeout' = "running" /\ UNCHANGED <<cluster_order, clusters, router_open>>
  <2>1. \A a \in Addresses :
          address_records_map'[a] # None /\ kind[address_records_map'[a]] = "worker" =>
            a \in stopping' \/ \E l \in Labels : a \in clusters'[l]
    BY <1>1, <1>4 DEF NonClusterWorkers
  <2>2. \A l \in Labels : clusters'[l] # {} =>
          \E i \in 1 .. Len(cluster_order') : cluster_order'[i] = l
    BY ZenonT(60), <1>1, <1>4
  <2> QED BY ZenonT(60), <1>1, <1>4, <2>1, <2>2 DEF ShutdownInv, SafeShutdown
<1>5. MayFail(address_records_map, NonClusterWorkers) = {}
  BY <1>1 DEF MayFail, NonClusterWorkers, PlainNode, TypeOK
<1> QED BY <1>3, <1>4, <1>5, Zenon DEF Graceful, TimeoutStarted

\* Appending to a sequence leaves its elements where they are.
LEMMA AppendKeeps ==
  ASSUME NEW S, NEW s \in Seq(S), NEW e \in S
  PROVE  /\ \A i \in 1 .. Len(s) : i \in 1 .. Len(Append(s, e)) /\ Append(s, e)[i] = s[i]
         /\ \E i \in 1 .. Len(Append(s, e)) : Append(s, e)[i] = e
<1>1. /\ Len(s) \in Nat /\ Len(Append(s, e)) = Len(s) + 1
      /\ Append(s, e)[Len(s) + 1] = e
      /\ \A i \in 1 .. Len(s) : Append(s, e)[i] = s[i]
  BY AppendProperties, LenProperties
<1>2. Len(s) + 1 \in 1 .. Len(Append(s, e)) BY <1>1
<1>3. \A i \in 1 .. Len(s) : i \in 1 .. Len(Append(s, e)) BY <1>1
<1> QED BY Zenon, <1>1, <1>2, <1>3

\* SetCluster adds to a cluster and keeps it in the order.
LEMMA ClusterStep ==
  ASSUME LifecycleInv, PlainNode, ShutdownInv, router_open,
         NEW t \in Tasks, NEW label \in Labels, SetCluster(t, label)
  PROVE  ShutdownInv'
<1> USE DEF task_vars, map_vars, node_vars
<1>1. TypeOK /\ cluster_order \in Seq(Labels)
  BY Zenon DEF LifecycleInv, TypeOK
<1>2. /\ UNCHANGED <<task, start, address_records_map, stopping, node_vars>>
      /\ \A l \in Labels : clusters[l] \subseteq clusters'[l]
      /\ \A l \in Labels : l # label => clusters'[l] = clusters[l]
  BY <1>1 DEF SetCluster, TypeOK
<1>3. /\ \A i \in 1 .. Len(cluster_order) : i \in 1 .. Len(cluster_order')
                                            /\ cluster_order'[i] = cluster_order[i]
      /\ \E i \in 1 .. Len(cluster_order') : cluster_order'[i] = label
  <2>1. CASE \E i \in 1 .. Len(cluster_order) : cluster_order[i] = label
    BY ZenonT(60), <2>1 DEF SetCluster
  <2>2. CASE cluster_order' = Append(cluster_order, label)
    <3> DEFINE grown == Append(cluster_order, label)
    <3>1. /\ \A i \in 1 .. Len(cluster_order) : i \in 1 .. Len(grown) /\ grown[i] = cluster_order[i]
          /\ \E i \in 1 .. Len(grown) : grown[i] = label
      BY <1>1, AppendKeeps
    <3>2. cluster_order' = grown BY <2>2
    <3> HIDE DEF grown
    <3> QED BY Zenon, <3>1, <3>2
  <2> QED BY ZenonT(60), <2>1, <2>2 DEF SetCluster
<1>4. \A l \in Labels : clusters'[l] # {} =>
        \E i \in 1 .. Len(cluster_order') : cluster_order'[i] = l
  <2> SUFFICES ASSUME NEW l \in Labels, clusters'[l] # {}, l # label
               PROVE  \E i \in 1 .. Len(cluster_order') : cluster_order'[i] = l
    BY <1>3
  <2>1. PICK i \in 1 .. Len(cluster_order) : cluster_order[i] = l
    BY ZenonT(60), <1>2 DEF ShutdownInv
  <2> QED BY Zenon, <1>3, <2>1
<1>5. timeout' # "fired" /\ node_state' = "Stopping" => \A a \in Addresses :
        address_records_map'[a] # None /\ kind[address_records_map'[a]] = "worker" =>
          a \in stopping' \/ \E l \in Labels : a \in clusters'[l]
  BY Zenon, <1>2 DEF ShutdownInv
<1> QED BY ZenonT(60), <1>2, <1>4, <1>5 DEF ShutdownInv, SafeShutdown

\* Every step of a node without processors keeps the invariant of its shutdown.
LEMMA ShutdownStep ==
  ASSUME LifecycleInv, RecordInv, RecordInv', ShutdownInv, [Next]_vars
  PROVE  ShutdownInv'
<1> USE DEF task_vars, map_vars, cluster_vars, node_vars
<1> SUFFICES ASSUME PlainNode PROVE ShutdownInv'
  BY Zenon DEF ShutdownInv, PlainNode, UniqueAddresses
<1>1. CASE UNCHANGED vars
  BY ZenonT(60), <1>1 DEF vars, ShutdownInv, SafeShutdown
<1>2. CASE Next
  <2>1. /\ TypeOK /\ router_open /\ ~StopNow
        /\ node_state # "Dead" /\ timeout # "fired"
        /\ timeout # "off" => node_state = "Stopping"
    BY Zenon, <1>2 DEF Next, LifecycleInv, PlainNode, RecordInv
  <2>2. CASE AbortNode
    <3>1. node_state = "Stopping" BY <2>1, <2>2 DEF AbortNode
    <3>2. /\ timeout' = "fired" /\ router_open' = FALSE
          /\ UNCHANGED <<clusters, cluster_order>>
      BY Zenon, <2>2, <3>1 DEF AbortNode
    <3>3. SafeShutdown' BY Zenon, <3>2 DEF SafeShutdown
    <3> QED BY Zenon, <3>2, <3>3 DEF ShutdownInv
  <2>3. \A t \in Tasks : ~StartPanics(t)
    BY Zenon, <2>1 DEF StartPanics
  <2>4. ASSUME NEW t \in Tasks, Spawn(t) \/ Relay(t) \/ DropContext(t) \/ Handle(t)
        PROVE  ShutdownInv'
    BY Zenon, <1>2, <2>1, <2>3, <2>4, QuietSteps, AckStep DEF Handle
  <2>5. CASE \/ \E c \in Clients, b \in Addresses : SenderReq(c, b) \/ CheckReady(c, b)
             \/ \E c \in Clients : SendToMailbox(c)
             \/ \E b \in Addresses : StopWorker(b)
             \/ \E b \in ProcessorStops : StopProcessor(b)
    BY Zenon, <1>2, <2>5, QuietSteps
  <2> QED BY Zenon, <1>2, <2>1, <2>2, <2>4, <2>5, GracefulStep, ClusterStep DEF Next
<1> QED BY <1>1, <1>2

\* The invariant of the shutdown holds in every behaviour of a node of workers
\* and detached contexts.
THEOREM ShutdownInvariance == Spec => []ShutdownInv
<1>1. Init => ShutdownInv
  BY Zenon DEF Init, ShutdownInv, SafeShutdown
<1>2. LifecycleInv /\ RecordInv /\ RecordInv' /\ ShutdownInv /\ [Next]_vars => ShutdownInv'
  BY ShutdownStep
<1> QED BY <1>1, <1>2, LifecycleInvariance, RecordInvariance, PTL DEF Spec

\* Context::stop of a node of workers and detached contexts at addresses of their
\* own, without calls of stop_now, returns before the timeout only when every
\* worker it started, but for those stop_processor was called for, has run its
\* shutdown hook, whatever clusters they are in.
THEOREM StopIsSafe == PlainNode => (Spec => []SafeShutdown)
<1> SUFFICES ASSUME PlainNode PROVE Spec => []SafeShutdown
  BY Zenon
<1>1. ShutdownInv => SafeShutdown
  BY DEF ShutdownInv
<1> QED BY <1>1, ShutdownInvariance, PTL

-----------------------------------------------------------------------------
(* The order in which such a node is stopped.                              *)

\* The state of task t after a stop of the records at addrs.
StateAfter(map, addrs, t) ==
  records'[t].state = IF \E a \in addrs : map[a] = t THEN "Stopping" ELSE records[t].state

\* AddressRecord::stop marks the records at addrs, and no other.
LEMMA StoppedStates ==
  ASSUME TypeOK, NEW map, NEW addrs, records' = Stopped(map, addrs), NEW t \in Tasks
  PROVE  StateAfter(map, addrs, t)
<1>1. CASE \E a \in addrs : map[a] = t
  <2>1. records'[t] = [records[t] EXCEPT !.state = "Stopping",
                                         !.sender = @ /\ kind[t] = "processor"]
    BY <1>1, Zenon DEF Stopped
  <2>2. \A r \in [sender : BOOLEAN, state : {"Running", "Stopping"}, ready : BOOLEAN] :
          \A b : [r EXCEPT !.state = "Stopping", !.sender = b].state = "Stopping"
    BY Zenon
  <2>3. records[t] \in [sender : BOOLEAN, state : {"Running", "Stopping"}, ready : BOOLEAN]
    BY DEF TypeOK
  <2> QED BY <1>1, <2>1, <2>2, <2>3, Zenon DEF StateAfter
<1>2. CASE ~\E a \in addrs : map[a] = t
  BY <1>2, ZenonT(60) DEF Stopped, StateAfter
<1> QED BY Zenon, <1>1, <1>2

\* The workers signalled at the addresses addrs of map, which are then awaited
\* with those of left.
Signalled(map, addrs, left) ==
  /\ \A t \in Tasks : records'[t].state = IF map[primary[t]] = t /\ primary[t] \in addrs
                                          THEN "Stopping" ELSE records[t].state
  /\ \A t \in Tasks : map[primary[t]] = t /\ primary[t] \in addrs =>
                        primary[t] \in stopping'
  /\ left \subseteq stopping'

\* A loop over workers' records stops all of them.
LEMMA WorkersSignalled ==
  ASSUME TypeOK, PlainNode, NEW map \in [Addresses -> Tasks \union {None}],
         NEW addrs \in SUBSET Addresses, NEW left,
         \A a \in Addresses : map[a] # None => primary[map[a]] = a,
         NEW failing \in SUBSET MayFail(map, addrs), \A a \in addrs : map[a] # None,
         StopRecords(map, addrs, failing),
         stopping' = IF failing = {} THEN left \union addrs ELSE left
  PROVE  Signalled(map, addrs, left)
<1>1. failing = {}
  BY ZenonT(60) DEF MayFail, PlainNode
<1>2. records' = Stopped(map, addrs) /\ stopping' = left \union addrs
  BY Zenon, <1>1 DEF StopRecords
<1>3. ASSUME NEW t \in Tasks
      PROVE  (\E a \in addrs : map[a] = t) <=> (map[primary[t]] = t /\ primary[t] \in addrs)
  BY DEF PlainNode
<1>4. \A t \in Tasks : records'[t].state =
                         IF map[primary[t]] = t /\ primary[t] \in addrs
                         THEN "Stopping" ELSE records[t].state
  <2> SUFFICES ASSUME NEW t \in Tasks
               PROVE  records'[t].state = IF map[primary[t]] = t /\ primary[t] \in addrs
                                          THEN "Stopping" ELSE records[t].state
    BY Zenon
  <2>1. StateAfter(map, addrs, t)
    BY Zenon, <1>2, StoppedStates
  <2>2. (\E a \in addrs : map[a] = t) <=> (map[primary[t]] = t /\ primary[t] \in addrs)
    BY <1>3
  <2>3. CASE map[primary[t]] = t /\ primary[t] \in addrs
    BY Zenon, <2>1, <2>2, <2>3 DEF StateAfter
  <2>4. CASE ~(map[primary[t]] = t /\ primary[t] \in addrs)
    BY ZenonT(60), <2>1, <2>2, <2>4 DEF StateAfter
  <2> QED BY ZenonT(60), <2>3, <2>4
<1> QED BY ZenonT(60), <1>2, <1>4 DEF Signalled

\* stop_next_cluster signals the workers of the cluster made last.
LEMMA NextClusterSignals ==
  ASSUME TypeOK, PlainNode, NEW map \in [Addresses -> Tasks \union {None}],
         NEW left, NEW call, StopNextCluster(map, left, call),
         \A a \in Addresses : map[a] # None => primary[map[a]] = a
  PROVE  \E addrs \in SUBSET Addresses :
           /\ Signalled(map, addrs, left)
           /\ \A a \in addrs : cluster_order # <<>> /\
                               a \in clusters[cluster_order[Len(cluster_order)]]
<1>1. CASE cluster_order = <<>>
  <2>1. UNCHANGED records /\ stopping' = left
    BY <1>1, ZenonT(60) DEF StopNextCluster
  <2>2. Signalled(map, {}, left)
    BY <2>1 DEF Signalled
  <2> QED BY <2>2
<1>2. CASE cluster_order # <<>>
  <2> DEFINE members == {a \in Addresses :
                           map[a] # None /\ a \in clusters[cluster_order[Len(cluster_order)]]}
  <2>1. PICK failing \in SUBSET MayFail(map, members) :
          /\ StopRecords(map, members, failing)
          /\ stopping' = IF failing = {} THEN left \union members ELSE left
    BY <1>2, ZenonT(60) DEF StopNextCluster
  <2>2. members \in SUBSET Addresses /\ \A a \in members : map[a] # None
    OBVIOUS
  <2> HIDE DEF members
  <2>3. Signalled(map, members, left)
    BY Zenon, <2>1, <2>2, WorkersSignalled
  <2>4. \A a \in members : a \in clusters[cluster_order[Len(cluster_order)]]
    BY Zenon DEF members
  <2> QED BY <1>2, <2>2, <2>3, <2>4, Zenon
<1> QED BY Zenon, <1>1, <1>2

\* What a step of such a node signals: nothing; the workers in no cluster or the
\* last cluster, when Context::stop is called; or the last cluster, when the
\* StopAck of a worker t leaves no one to wait for.
LEMMA SignalStep ==
  ASSUME LifecycleInv, AliasInv, RecordInv, PlainNode, Next
  PROVE  \/ /\ \A u \in Tasks : records'[u].state = records[u].state
            /\ \/ UNCHANGED <<stopping, stop_call, node_state>>
               \/ \E t \in Tasks : /\ task'[t] = "gone" /\ stopping' = stopping \ {primary[t]}
                                   /\ UNCHANGED <<stop_call, node_state>>
               \/ ~router_open' /\ stop_call' = "ok"
         \/ /\ stop_call = "none" /\ stop_call' # "none"
            /\ \E addrs \in SUBSET Addresses :
                 /\ Signalled(address_records_map, addrs, stopping)
                 /\ \A a \in addrs :
                      \/ \A l \in Labels : a \notin clusters[l]
                      \/ cluster_order # <<>> /\ a \in clusters[cluster_order[Len(cluster_order)]]
         \/ \E t \in Tasks, addrs \in SUBSET Addresses :
              /\ task'[t] = "gone" /\ node_state = "Stopping" /\ stopping \subseteq {primary[t]}
              /\ stop_call' \in {stop_call, "ok"} /\ UNCHANGED node_state
              /\ Signalled(address_records_map', addrs, {})
              /\ \A a \in addrs :
                   cluster_order # <<>> /\ a \in clusters[cluster_order[Len(cluster_order)]]
<1> USE DEF task_vars, map_vars, cluster_vars, node_vars
<1> DEFINE Quiet == /\ \A u \in Tasks : records'[u].state = records[u].state
                    /\ UNCHANGED <<stopping, stop_call, node_state>>
<1>1. /\ TypeOK /\ node_state # "Dead" /\ (timeout # "off" => node_state = "Stopping")
      /\ UniqueAddresses /\ ~StopNow /\ router_open
  BY Zenon DEF LifecycleInv, RecordInv, PlainNode, Next
<1>2. ASSUME NEW t \in Tasks, Spawn(t) \/ Relay(t) \/ DropContext(t)
      PROVE  Quiet
  BY Zenon, <1>2 DEF Spawn, Relay, DropContext, Initialized, TakeMessage, HandlerReturns,
              HandlerCancelled, NoMoreMessages,
              Interrupt, ProcessReturnsFalse, ShutdownDone, Leave
<1>3. ASSUME NEW t \in Tasks,
             StartAccepted(t) \/ StartRejected(t) \/ StartPanics(t) \/ SetReady(t)
      PROVE  Quiet
  <2>1. CASE SetReady(t)
    <3>1. PICK u : records' = records \/ records' = [records EXCEPT ![u].ready = TRUE]
      BY <2>1, Zenon DEF SetReady
    <3>2. \A v \in Tasks : records'[v].state = records[v].state
      <4>1. CASE records' = records BY <4>1
      <4>2. CASE records' = [records EXCEPT ![u].ready = TRUE]
        BY <1>1, <4>2 DEF TypeOK
      <4> QED BY Zenon, <3>1, <4>1, <4>2
    <3> QED BY <2>1, <3>2 DEF SetReady
  <2> QED BY Zenon, <1>3, <2>1 DEF StartAccepted, StartRejected, StartPanics
<1>4. ASSUME NEW t \in Tasks, StopDetached(t)
      PROVE  \/ Quiet
             \/ /\ task'[t] = "gone" /\ stopping' = stopping \ {primary[t]}
                /\ UNCHANGED <<records, stop_call, node_state>>
  <2>1. task'[t] = "gone" /\ UNCHANGED <<records, stop_call, node_state>>
    BY Zenon, <1>1, <1>4 DEF StopDetached, TypeOK
  <2>2. alias_map[primary[t]] \in {primary[t], None}
    <3>1. AliasLeads(t, primary[t]) BY Zenon, <1>1 DEF AliasInv
    <3> QED BY Zenon, <3>1 DEF AliasLeads
  <2>3. stopping' = stopping \/ stopping' = stopping \ {primary[t]}
    BY ZenonT(60), <1>4, <2>2 DEF StopDetached
  <2> QED BY Zenon, <2>1, <2>3
<1>5. ASSUME NEW c \in Clients, NEW a \in Addresses, SenderReq(c, a) \/ CheckReady(c, a)
      PROVE  Quiet
  BY Zenon, <1>5 DEF SenderReq, CheckReady
<1>6. ASSUME NEW a \in Addresses, StopWorker(a) PROVE Quiet
  <2>1. PICK u : records' = [records EXCEPT ![u].sender = FALSE]
    BY <1>6, ZenonT(60) DEF StopWorker
  <2> QED BY <1>1, <1>6, <2>1 DEF StopWorker, TypeOK
<1>7. ASSUME NEW a \in Addresses, StopProcessor(a) PROVE Quiet
  BY Zenon, <1>7 DEF StopProcessor
<1>8. ASSUME NEW t \in Tasks, NEW label \in Labels, SetCluster(t, label) PROVE Quiet
  BY Zenon, <1>8 DEF SetCluster
<1>9. ASSUME NEW c \in Clients, SendToMailbox(c) PROVE Quiet
  BY <1>9 DEF SendToMailbox
<1>10. CASE AbortNode
  <2>1. UNCHANGED records /\ ~router_open' /\ stop_call' = "ok"
    <3>1. node_state = "Stopping" BY <1>1, <1>10 DEF AbortNode
    <3> QED BY Zenon, <1>10, <3>1 DEF AbortNode
  <2> QED BY ZenonT(60), <2>1
<1>11. ~StopNow BY DEF PlainNode
<1>12. ASSUME NEW map \in [Addresses -> Tasks \union {None}],
              map = address_records_map \/ map = address_records_map',
              LifecycleInv'
       PROVE  \A a \in Addresses : map[a] # None => primary[map[a]] = a
  <2>1. NoStaleRecords /\ NoStaleRecords' BY Zenon, <1>12 DEF LifecycleInv
  <2>2. CASE map = address_records_map BY Zenon, <2>1, <2>2 DEF NoStaleRecords
  <2>3. CASE map = address_records_map' BY Zenon, <2>1, <2>3 DEF NoStaleRecords
  <2> QED BY Zenon, <1>12, <2>2, <2>3
<1>13. LifecycleInv' BY LifecycleStep
<1>14. CASE Graceful
  <2>1. stop_call = "none" /\ stop_call' # "none"
    <3>1. CASE StopNextCluster(address_records_map, stopping, "waiting")
      BY <1>14, <3>1, ZenonT(60) DEF StopNextCluster, Graceful
    <3> QED BY <1>14, <3>1 DEF Graceful
  <2>2. address_records_map \in [Addresses -> Tasks \union {None}]
    BY Zenon, <1>1 DEF TypeOK
  <2>3. \A a \in Addresses : address_records_map[a] # None =>
                               primary[address_records_map[a]] = a
    BY <1>12, <1>13, <2>2
  <2>4. CASE StopNextCluster(address_records_map, stopping, "waiting")
    <3>1. PICK addrs \in SUBSET Addresses :
            /\ Signalled(address_records_map, addrs, stopping)
            /\ \A a \in addrs : cluster_order # <<>> /\
                                a \in clusters[cluster_order[Len(cluster_order)]]
      BY ZenonT(60), <1>1, <2>2, <2>3, <2>4, NextClusterSignals
    <3> QED BY <2>1, <3>1, Zenon
  <2>5. ASSUME NEW failing \in SUBSET MayFail(address_records_map, NonClusterWorkers),
               StopRecords(address_records_map, NonClusterWorkers, failing),
               stopping' = IF failing = {} THEN stopping \union NonClusterWorkers
                                           ELSE stopping
        PROVE  /\ NonClusterWorkers \in SUBSET Addresses
               /\ Signalled(address_records_map, NonClusterWorkers, stopping)
               /\ \A a \in NonClusterWorkers : \A l \in Labels : a \notin clusters[l]
    <3>1. /\ NonClusterWorkers \in SUBSET Addresses
          /\ \A a \in NonClusterWorkers : address_records_map[a] # None
          /\ \A a \in NonClusterWorkers : \A l \in Labels : a \notin clusters[l]
      BY Zenon DEF NonClusterWorkers
    <3> QED BY Zenon, <1>1, <2>2, <2>3, <2>5, <3>1, WorkersSignalled
  <2> QED BY <1>14, <2>1, <2>4, <2>5, ZenonT(60) DEF Graceful
<1>15. ASSUME NEW t \in Tasks, StopAck(t)
       PROVE  \/ /\ task'[t] = "gone" /\ stopping' = stopping \ {primary[t]}
                 /\ UNCHANGED <<records, stop_call, node_state>>
              \/ \E addrs \in SUBSET Addresses :
                   /\ task'[t] = "gone" /\ node_state = "Stopping"
                   /\ stopping \subseteq {primary[t]}
                   /\ stop_call' \in {stop_call, "ok"} /\ UNCHANGED node_state
                   /\ Signalled(address_records_map', addrs, {})
                   /\ \A a \in addrs : cluster_order # <<>> /\
                                       a \in clusters[cluster_order[Len(cluster_order)]]
  <2>1. task'[t] = "gone" /\ UNCHANGED node_state
    BY Zenon, <1>1, <1>15 DEF StopAck, TypeOK
  <2>2. CASE node_state = "Running" \/ stopping \ {primary[t]} # {}
    BY Zenon, <1>15, <2>1, <2>2 DEF StopAck
  <2>3. CASE ~(node_state = "Running" \/ stopping \ {primary[t]} # {})
    <3>1. /\ node_state = "Stopping" /\ stopping \ {primary[t]} = {}
          /\ StopNextCluster(address_records_map', {}, stop_call)
      <4>1. node_state \in {"Running", "Stopping"} BY <1>1 DEF TypeOK
      <4>2. stopping \ {primary[t]} = {} BY <2>3
      <4>3. StopNextCluster(address_records_map', stopping \ {primary[t]}, stop_call)
        BY <1>15, <2>3, Zenon DEF StopAck
      <4> QED BY Zenon, <2>3, <4>1, <4>2, <4>3
    <3>2. address_records_map' \in [Addresses -> Tasks \union {None}]
      BY ZenonT(60), <1>13 DEF LifecycleInv, TypeOK
    <3>3. \A a \in Addresses : address_records_map'[a] # None =>
                                 primary[address_records_map'[a]] = a
      BY <1>12, <1>13, <3>2
    <3>4. PICK addrs \in SUBSET Addresses :
            /\ Signalled(address_records_map', addrs, {})
            /\ \A a \in addrs : cluster_order # <<>> /\
                                a \in clusters[cluster_order[Len(cluster_order)]]
      BY ZenonT(60), <1>1, <3>1, <3>2, <3>3, NextClusterSignals
    <3>5. stop_call' \in {stop_call, "ok"}
      BY <3>1, Zenon DEF StopNextCluster
    <3>6. stopping \subseteq {primary[t]} BY <3>1
    <3> QED BY <2>1, <3>1, <3>4, <3>5, <3>6, ZenonT(60)
  <2> QED BY Zenon, <2>2, <2>3
<1>16. ASSUME NEW t \in Tasks, Handle(t)
       PROVE  Quiet \/ StopAck(t) \/ StopDetached(t)
  BY Zenon, <1>3, <1>16 DEF Handle
<1>17. \/ Quiet \/ Graceful \/ AbortNode \/ \E t \in Tasks : StopAck(t) \/ StopDetached(t)
  BY <1>2, <1>5, <1>6, <1>7, <1>8, <1>9, <1>11, <1>16, Zenon DEF Next
<1>18. ASSUME NEW t \in Tasks, task'[t] = "gone" /\ stopping' = stopping \ {primary[t]}
                                /\ UNCHANGED <<records, stop_call, node_state>>
       PROVE  /\ \A u \in Tasks : records'[u].state = records[u].state
              /\ \E v \in Tasks : /\ task'[v] = "gone" /\ stopping' = stopping \ {primary[v]}
                                  /\ UNCHANGED <<stop_call, node_state>>
  BY ZenonT(60), <1>18
<1>19. CASE Quiet BY <1>19
<1>20. CASE \E t \in Tasks : StopAck(t)
  BY ZenonT(60), <1>15, <1>18, <1>20
<1>21. CASE \E t \in Tasks : StopDetached(t)
  BY ZenonT(60), <1>4, <1>18, <1>19, <1>21
<1> QED BY ZenonT(60), <1>10, <1>14, <1>17, <1>19, <1>20, <1>21

\* No task comes back after its last message.
LEMMA GoneStays ==
  ASSUME LifecycleInv, Next, NEW t \in Tasks, task[t] = "gone"
  PROVE  task'[t] = "gone"
<1> USE DEF task_vars, map_vars, cluster_vars, node_vars
<1>1. /\ task \in [Tasks -> {"new", "initialize", "running", "handling", "shutdown",
                             "stopped", "gone"}]
      /\ ~(kind[t] = "detached" /\ start[t] = "sent")
  BY DEF LifecycleInv, TypeOK
<1>2. ASSUME NEW u \in Tasks, Spawn(u) \/ Relay(u) \/ DropContext(u)
      PROVE  task'[t] = "gone"
  <2>1. u # t
    BY Zenon, <1>2 DEF Spawn, Relay, DropContext, Initialized, TakeMessage, HandlerReturns,
                HandlerCancelled, NoMoreMessages, Interrupt, ProcessReturnsFalse, ShutdownDone
  <2>2. \E state : task' = [task EXCEPT ![u] = state]
    BY <1>2, Zenon DEF Spawn, Relay, DropContext, Initialized, TakeMessage, HandlerReturns,
                       HandlerCancelled, NoMoreMessages, Interrupt, ProcessReturnsFalse, ShutdownDone, Leave
  <2> QED BY <1>1, <2>1, <2>2
<1>3. ASSUME NEW u \in Tasks, Handle(u) PROVE task'[t] = "gone"
  <2>1. CASE StartAccepted(u) \/ StartRejected(u)
    <3>1. start[u] = "sent" /\ \E outcome : task' = ContextAfter(u, outcome)
      BY <2>1, Zenon DEF StartAccepted, StartRejected
    <3>2. UNCHANGED task \/ (u # t /\ \E state : task' = [task EXCEPT ![u] = state])
      BY <1>1, <3>1, Zenon DEF ContextAfter
    <3> QED BY <1>1, <3>2
  <2>2. CASE StartPanics(u) \/ SetReady(u) \/ StopDetached(u) \/ StopAck(u)
    <3>1. UNCHANGED task \/ task' = [task EXCEPT ![u] = "gone"]
      BY <2>2, Zenon DEF StartPanics, SetReady, StopDetached, StopAck
    <3> QED BY <1>1, <3>1
  <2> QED BY Zenon, <1>3, <2>1, <2>2 DEF Handle
<1>4. CASE \E c \in Clients, b \in Addresses : SenderReq(c, b) \/ CheckReady(c, b)
  BY Zenon, <1>4 DEF SenderReq, CheckReady
<1>5. CASE \/ \E b \in Addresses : StopWorker(b)
           \/ \E b \in ProcessorStops : StopProcessor(b)
  BY Zenon, <1>5 DEF StopWorker, StopProcessor
<1>6. CASE Graceful \/ AbortNode \/ Immediate
  BY <1>6 DEF Graceful, AbortNode, Immediate
<1>7. CASE \/ \E u \in Tasks, label \in Labels : SetCluster(u, label)
           \/ \E c \in Clients : SendToMailbox(c)
  BY Zenon, <1>7 DEF SetCluster, SendToMailbox
<1> QED BY <1>2, <1>3, <1>4, <1>5, <1>6, <1>7, Zenon DEF Next

\* A task that was signalled stays one the shutdown waits for until it is gone.
LEMMA TurnStep ==
  ASSUME LifecycleInv, AliasInv, RecordInv, TurnInv, [Next]_vars
  PROVE  TurnInv'
<1> USE DEF task_vars, map_vars, cluster_vars, node_vars
<1> SUFFICES ASSUME PlainNode PROVE TurnInv'
  BY Zenon DEF TurnInv, PlainNode, UniqueAddresses
<1>1. CASE UNCHANGED vars
  BY Zenon, <1>1 DEF vars, TurnInv
<1>2. CASE Next
  <2>1. /\ TypeOK /\ router_open
        /\ \A u \in Tasks : task[u] = "gone" => task'[u] = "gone"
        /\ \A t, u \in Tasks : primary[t] = primary[u] => t = u
    BY Zenon, <1>2, GoneStays DEF Next, LifecycleInv, PlainNode, UniqueAddresses
  <2>2. CASE /\ \A u \in Tasks : records'[u].state = records[u].state
             /\ UNCHANGED <<stopping, stop_call, node_state>>
    BY ZenonT(60), <2>1, <2>2 DEF TurnInv
  <2>3. ASSUME NEW t \in Tasks, task'[t] = "gone", stopping' = stopping \ {primary[t]},
               \A u \in Tasks : records'[u].state = records[u].state,
               UNCHANGED <<stop_call, node_state>>
        PROVE  TurnInv'
    BY Zenon, <2>1, <2>3 DEF TurnInv
  <2>4. CASE ~router_open' /\ stop_call' = "ok"
    BY Zenon, <2>4 DEF TurnInv
  <2>5. ASSUME stop_call = "none", stop_call' # "none",
               NEW addrs, Signalled(address_records_map, addrs, stopping)
        PROVE  TurnInv'
    <3>1. \A t \in Tasks : records[t].state = "Running"
      BY Zenon, <2>5 DEF TurnInv
    <3>2. ASSUME NEW t \in Tasks, records'[t].state = "Stopping"
          PROVE  primary[t] \in stopping'
      BY Zenon, <2>5, <3>1, <3>2 DEF Signalled
    <3> QED BY Zenon, <2>5, <3>2 DEF TurnInv
  <2>6. ASSUME NEW t \in Tasks, NEW addrs, task'[t] = "gone", node_state = "Stopping",
               stopping \subseteq {primary[t]}, stop_call' \in {stop_call, "ok"},
               Signalled(address_records_map', addrs, {})
        PROVE  TurnInv'
    <3>1. stop_call' # "none"
      BY Zenon, <2>6 DEF TurnInv
    <3>2. ASSUME NEW u \in Tasks, records'[u].state = "Stopping"
          PROVE  task'[u] = "gone" \/ primary[u] \in stopping'
      <4>1. CASE records[u].state = "Stopping"
        <5>1. task[u] = "gone" \/ primary[u] = primary[t]
          BY Zenon, <2>1, <2>6, <4>1 DEF TurnInv
        <5> QED BY Zenon, <2>1, <2>6, <5>1
      <4>2. CASE records[u].state # "Stopping"
        BY Zenon, <2>6, <3>2, <4>2 DEF Signalled
      <4> QED BY Zenon, <4>1, <4>2
    <3> QED BY Zenon, <3>1, <3>2 DEF TurnInv
  <2> QED BY Zenon, <1>2, <2>2, <2>3, <2>4, <2>5, <2>6, SignalStep
<1> QED BY ZenonT(60), <1>1, <1>2

\* On a node of workers and detached contexts at addresses of their own, without
\* calls of stop_now, those signalled before are over whenever more are signalled,
\* and those of a cluster are signalled after the clusters made later.
THEOREM ClustersStopInTurn == PlainNode => (Spec => StopsInTurn)
<1> SUFFICES ASSUME PlainNode PROVE Spec => StopsInTurn
  BY Zenon
<1>1. Init => TurnInv
  BY DEF Init, TurnInv, NewRecord
<1>2. LifecycleInv /\ AliasInv /\ RecordInv /\ TurnInv /\ [Next]_vars => TurnInv'
  BY TurnStep
<1>3. ASSUME LifecycleInv, AliasInv, RecordInv, TurnInv, Next, NEW t \in Tasks, NEW u \in Tasks,
             records[t].state = "Running", records'[t].state = "Stopping"
      PROVE  /\ records[u].state = "Stopping" => task'[u] = "gone"
             /\ \A i \in 1 .. Len(cluster_order) :
                  primary[t] \in clusters[cluster_order[i]] =>
                    i = Len(cluster_order)
                    \/ primary[t] \in clusters[cluster_order[Len(cluster_order)]]
  <2>1. /\ TypeOK /\ router_open
        /\ task[u] = "gone" => task'[u] = "gone"
        /\ \A v \in Tasks : primary[u] = primary[v] => u = v
    BY Zenon, <1>3, GoneStays DEF Next, LifecycleInv, PlainNode, UniqueAddresses
  <2>2. \A i \in 1 .. Len(cluster_order) : cluster_order[i] \in Labels
    BY Zenon, <2>1, ElementOfSeq DEF TypeOK
  <2>3. ASSUME NEW addrs, NEW map, NEW left, Signalled(map, addrs, left),
               \A a \in addrs :
                 \/ \A l \in Labels : a \notin clusters[l]
                 \/ cluster_order # <<>> /\ a \in clusters[cluster_order[Len(cluster_order)]]
        PROVE  \A i \in 1 .. Len(cluster_order) :
                 primary[t] \in clusters[cluster_order[i]] =>
                   i = Len(cluster_order)
                   \/ primary[t] \in clusters[cluster_order[Len(cluster_order)]]
    <3>1. primary[t] \in addrs
      BY <1>3, <2>3 DEF Signalled
    <3> QED BY ZenonT(60), <2>2, <2>3, <3>1
  <2>4. ASSUME stop_call = "none", NEW addrs, Signalled(address_records_map, addrs, stopping)
        PROVE  records[u].state # "Stopping"
    BY ZenonT(60), <1>3, <2>4 DEF TurnInv
  <2>5. ASSUME NEW v \in Tasks, task'[v] = "gone", stopping \subseteq {primary[v]},
               records[u].state = "Stopping"
        PROVE  task'[u] = "gone"
    BY Zenon, <1>3, <2>1, <2>5 DEF TurnInv
  <2>6. \/ /\ stop_call = "none"
           /\ \E addrs \in SUBSET Addresses :
                /\ Signalled(address_records_map, addrs, stopping)
                /\ \A a \in addrs :
                     \/ \A l \in Labels : a \notin clusters[l]
                     \/ cluster_order # <<>> /\ a \in clusters[cluster_order[Len(cluster_order)]]
        \/ \E v \in Tasks, addrs \in SUBSET Addresses :
             /\ task'[v] = "gone" /\ stopping \subseteq {primary[v]}
             /\ Signalled(address_records_map', addrs, {})
             /\ \A a \in addrs :
                  cluster_order # <<>> /\ a \in clusters[cluster_order[Len(cluster_order)]]
    BY ZenonT(60), <1>3, SignalStep
  <2> QED BY Zenon, <2>3, <2>4, <2>5, <2>6
<1>4. LifecycleInv /\ AliasInv /\ RecordInv /\ TurnInv /\ [Next]_vars =>
        [\A t, u \in Tasks :
           records[t].state = "Running" /\ records'[t].state = "Stopping" =>
             /\ records[u].state = "Stopping" => task'[u] = "gone"
             /\ \A i \in 1 .. Len(cluster_order) :
                  primary[t] \in clusters[cluster_order[i]] =>
                    i = Len(cluster_order)
                    \/ primary[t] \in clusters[cluster_order[Len(cluster_order)]]]_vars
  BY Zenon, <1>3
<1> QED BY <1>1, <1>2, <1>4, LifecycleInvariance, AliasInvariance, RecordInvariance, PTL
        DEF Spec, StopsInTurn

-----------------------------------------------------------------------------
(* Whom the shutdown waits for.                                            *)

\* Every primary address leads to itself, while it has a record or an alias.
PrimariesLead ==
  /\ \A t \in Tasks : alias_map[primary[t]] \in {primary[t], None}
  /\ \A a \in Addresses : address_records_map[a] # None => alias_map[a] = a

\* The types of the two maps of addresses.
LEMMA MapTypes ==
  ASSUME TypeOK
  PROVE  /\ address_records_map \in [Addresses -> Tasks \union {None}]
         /\ \A a \in Addresses : address_records_map[a] # None => address_records_map[a] \in Tasks
         /\ \A a \in Addresses : alias_map[a] # None => alias_map[a] \in Addresses
<1>1. /\ address_records_map \in [Addresses -> Tasks \union {None}]
      /\ alias_map \in [Addresses -> Addresses \union {None}]
  BY Zenon DEF TypeOK
<1> QED BY <1>1

\* Freeing an address leaves the record of every other one.
LEMMA RecordElsewhere ==
  ASSUME NEW f \in [Addresses -> Tasks \union {None}], NEW p, NEW a \in Addresses, a # p
  PROVE  [f EXCEPT ![p] = None][a] = f[a]
BY Zenon

\* Starts and stops keep it, where no primary address is another task's alias.
LEMMA PrimariesStep ==
  ASSUME LifecycleInv, PrimariesOwn, PrimariesLead, Next
  PROVE  PrimariesLead'
<1>1. /\ TypeOK
      /\ \A a \in Addresses : address_records_map[a] # None =>
           address_records_map[a] \in Tasks /\ primary[address_records_map[a]] = a
  <2>1. TypeOK /\ NoStaleRecords BY Zenon DEF LifecycleInv
  <2>2. address_records_map \in [Addresses -> Tasks \union {None}] BY Zenon, <2>1 DEF TypeOK
  <2> QED BY Zenon, <2>1, <2>2 DEF NoStaleRecords
<1>2. CASE UNCHANGED <<address_records_map, alias_map>>
  BY Zenon, <1>2 DEF PrimariesLead
<1>3. ASSUME NEW t \in Tasks, StartAccepted(t) PROVE PrimariesLead'
  <2>1. /\ address_records_map' = [address_records_map EXCEPT ![primary[t]] = t]
        /\ alias_map' = [a \in Addresses |->
                           IF a \in address_set[t] THEN primary[t] ELSE alias_map[a]]
    BY Zenon, <1>3 DEF StartAccepted
  <2>2. \A u \in Tasks : alias_map'[primary[u]] \in {primary[u], None}
    BY Zenon, <2>1 DEF PrimariesLead, PrimariesOwn
  <2>3. ASSUME NEW a \in Addresses, address_records_map'[a] # None PROVE alias_map'[a] = a
    <3>1. CASE a = primary[t] BY Zenon, <2>1, <3>1
    <3>2. CASE a # primary[t]
      <4>1. address_records_map'[a] = address_records_map[a] BY Zenon, <1>1, <2>1, <3>2 DEF TypeOK
      <4>2. PICK u \in Tasks : primary[u] = a BY Zenon, <1>1, <2>3, <4>1
      <4>3. a \notin address_set[t] BY Zenon, <3>2, <4>2 DEF PrimariesOwn
      <4> QED BY Zenon, <2>1, <2>3, <4>1, <4>3 DEF PrimariesLead
    <3> QED BY Zenon, <3>1, <3>2
  <2> QED BY Zenon, <2>2, <2>3 DEF PrimariesLead
<1>4. ASSUME NEW a \in ProcessorStops, StopProcessor(a) PROVE PrimariesLead'
  <2>1. /\ address_records_map' = [address_records_map EXCEPT ![a] = None]
        /\ alias_map' = [alias_map EXCEPT ![a] = None]
    BY Zenon, <1>4 DEF StopProcessor
  <2>2. a \in Addresses BY Zenon
  <2> QED BY ZenonT(60), <1>1, <2>1, <2>2 DEF PrimariesLead, TypeOK
<1>5. ASSUME NEW p \in Addresses, FreeAddress(p) PROVE PrimariesLead'
  <2>1. CASE address_records_map[p] = None
    <3>1. UNCHANGED <<address_records_map, alias_map>>
      BY ZenonT(60), <1>1, <1>5, <2>1 DEF FreeAddress, TypeOK
    <3> QED BY <1>2, <3>1
  <2>2. CASE address_records_map[p] # None
    <3>1. PICK t \in Tasks : address_records_map[p] = t /\ primary[t] = p
      BY Zenon, <1>1, <2>2
    <3>2. /\ address_records_map' = [address_records_map EXCEPT ![p] = None]
          /\ alias_map' = [b \in Addresses |-> IF b \in address_set[t] THEN None
                                               ELSE alias_map[b]]
      BY Zenon, <1>5, <2>2, <3>1 DEF FreeAddress
    <3>3. ASSUME NEW a \in Addresses, address_records_map'[a] # None PROVE alias_map'[a] = a
      <4>1. a # p /\ address_records_map'[a] = address_records_map[a]
        BY Zenon, <1>1, <3>2, <3>3 DEF TypeOK
      <4>2. PICK u \in Tasks : primary[u] = a BY Zenon, <1>1, <3>3, <4>1
      <4>3. a \notin address_set[t] BY Zenon, <3>1, <4>1, <4>2 DEF PrimariesOwn
      <4> QED BY Zenon, <3>2, <3>3, <4>1, <4>3 DEF PrimariesLead
    <3>4. \A u \in Tasks : alias_map'[primary[u]] \in {primary[u], None}
      BY Zenon, <3>2 DEF PrimariesLead
    <3> QED BY Zenon, <3>3, <3>4 DEF PrimariesLead
  <2> QED BY Zenon, <2>1, <2>2
<1>6. CASE AbortNode \/ Immediate
  <2>1. UNCHANGED alias_map /\ (ClearRecords \/ UNCHANGED address_records_map)
    BY <1>6 DEF AbortNode, Immediate
  <2> QED BY <2>1 DEF ClearRecords, PrimariesLead
<1> QED BY Zenon, <1>2, <1>3, <1>4, <1>5, <1>6, MapsStep

\* A task is gone by its StopAck or, as a detached context, by its StopWorker.
LEMMA GoneBy ==
  ASSUME TypeOK, Next, NEW t \in Tasks, task'[t] = "gone", task[t] # "gone"
  PROVE  StopDetached(t) \/ StopAck(t)
<1> USE DEF task_vars, map_vars, cluster_vars, node_vars
<1>1. ASSUME NEW u \in Tasks, Spawn(u) \/ Relay(u) \/ DropContext(u) PROVE task'[t] # "gone"
  <2>1. UNCHANGED task \/ \E state : state # "gone" /\ task' = [task EXCEPT ![u] = state]
    BY Zenon, <1>1 DEF Spawn, Relay, DropContext, Initialized, TakeMessage, HandlerReturns,
                HandlerCancelled, NoMoreMessages, Interrupt, ProcessReturnsFalse, ShutdownDone, Leave
  <2> QED BY <2>1 DEF TypeOK
<1>2. ASSUME NEW u \in Tasks, StartAccepted(u) \/ StartRejected(u) \/ StartPanics(u) \/ SetReady(u)
      PROVE  task'[t] # "gone"
  <2>1. UNCHANGED task \/ \E state : state # "gone" /\ task' = [task EXCEPT ![u] = state]
    BY Zenon, <1>2 DEF StartAccepted, StartRejected, StartPanics, SetReady, ContextAfter
  <2> QED BY <2>1 DEF TypeOK
<1>3. ASSUME NEW u \in Tasks, StopDetached(u) \/ StopAck(u) PROVE u = t
  <2>1. task' = [task EXCEPT ![u] = "gone"] BY Zenon, <1>3 DEF StopDetached, StopAck
  <2> QED BY <2>1 DEF TypeOK
<1>4. ASSUME NEW u \in Tasks, Handle(u) PROVE StopDetached(t) \/ StopAck(t)
  BY Zenon, <1>2, <1>3, <1>4 DEF Handle
<1>5. CASE \E c \in Clients, b \in Addresses : SenderReq(c, b) \/ CheckReady(c, b)
  BY Zenon, <1>5 DEF SenderReq, CheckReady
<1>6. CASE \/ \E b \in Addresses : StopWorker(b)
           \/ \E b \in ProcessorStops : StopProcessor(b)
  BY Zenon, <1>6 DEF StopWorker, StopProcessor
<1>7. CASE Graceful \/ AbortNode \/ Immediate
  BY <1>7 DEF Graceful, AbortNode, Immediate
<1>8. CASE \/ \E u \in Tasks, label \in Labels : SetCluster(u, label)
           \/ \E c \in Clients : SendToMailbox(c)
  BY ZenonT(60), <1>8 DEF SetCluster, SendToMailbox
<1> QED BY <1>1, <1>4, <1>5, <1>6, <1>7, <1>8, ZenonT(60) DEF Next

\* A detached context that is gone has no record.
LEMMA ContextStep ==
  ASSUME LifecycleInv, AwaitInv, PrimariesOwn, Next, NEW a \in Addresses,
         address_records_map'[a] # None, kind[address_records_map'[a]] = "detached"
  PROVE  task'[address_records_map'[a]] # "gone"
<1>1. TypeOK /\ TypeOK' BY TypeStep DEF LifecycleInv
<1>2. PICK t \in Tasks : address_records_map'[a] = t
  BY ZenonT(60), <1>1 DEF TypeOK
<1>3. primary[t] = a /\ kind[t] = "detached"
  <2>1. LifecycleInv' BY ZenonT(60), LifecycleStep
  <2> QED BY Zenon, <1>2, <2>1 DEF LifecycleInv, NoStaleRecords
<1>4. CASE address_records_map[a] = t
  <2>1. task[t] # "gone" /\ alias_map[a] = a
    BY Zenon, <1>2, <1>3, <1>4 DEF AwaitInv
  <2>2. ~StopDetached(t)
    <3> SUFFICES ASSUME StopDetached(t) PROVE FALSE
      BY Zenon
    <3>1. t # None /\ a # None OBVIOUS
    <3>2. FreeAddress(a)
      BY Zenon, <1>3, <1>4, <2>1, <3>1 DEF StopDetached
    <3> QED BY Zenon, <1>1, <1>2, <3>1, <3>2, FreeOnlyGo
  <2>3. ~StopAck(t) BY Zenon, <1>3 DEF StopAck
  <2> QED BY ZenonT(60), <1>1, <1>2, <2>1, <2>2, <2>3, GoneBy
<1>5. CASE address_records_map[a] # t
  <2>1. PICK u \in Tasks : StartAccepted(u)
    <3>1. ASSUME NEW p \in Addresses, FreeAddress(p)
          PROVE  address_records_map'[a] \in {address_records_map[a], None}
      BY ZenonT(60), <1>1, <3>1, FreeOnlyGo
    <3>2. ASSUME NEW b \in ProcessorStops, StopProcessor(b)
          PROVE  address_records_map'[a] \in {address_records_map[a], None}
      <4>1. /\ address_records_map \in [Addresses -> Tasks \union {None}]
            /\ address_records_map' = [address_records_map EXCEPT ![b] = None]
        BY Zenon, <1>1, <3>2, MapTypes DEF StopProcessor
      <4> QED BY <1>1, <4>1
    <3>3. CASE AbortNode \/ Immediate
      BY Zenon, <1>1, <1>2, <1>5, <3>3 DEF AbortNode, Immediate, ClearRecords
    <3> QED BY Zenon, <1>2, <1>5, <3>1, <3>2, <3>3, MapsStep
  <2>2. u = t
    <3>1. /\ address_records_map \in [Addresses -> Tasks \union {None}]
          /\ address_records_map' = [address_records_map EXCEPT ![primary[u]] = u]
      BY Zenon, <1>1, <2>1, MapTypes DEF StartAccepted
    <3> QED BY <1>1, <1>2, <1>5, <3>1
  <2> QED BY Zenon, <1>1, <1>2, <1>3, <2>1, <2>2 DEF StartAccepted, ContextAfter, TypeOK
<1> QED BY ZenonT(60), <1>4, <1>5

\* A task that was signalled stays so.
LEMMA StateStays ==
  ASSUME LifecycleInv, Next, NEW t \in Tasks, records[t].state = "Stopping"
  PROVE  records'[t].state = "Stopping"
<1> USE DEF task_vars, map_vars, cluster_vars, node_vars
<1>1. TypeOK BY Zenon DEF LifecycleInv
<1>2. CASE UNCHANGED records BY Zenon, <1>2
<1>3. ASSUME NEW u \in Tasks, Spawn(u) \/ Relay(u) \/ DropContext(u) PROVE UNCHANGED records
  BY Zenon, <1>3 DEF Spawn, Relay, DropContext, Initialized, TakeMessage, HandlerReturns,
              HandlerCancelled, NoMoreMessages,
              Interrupt, ProcessReturnsFalse, ShutdownDone, Leave
<1>4. ASSUME NEW map, NEW addrs, NEW failing, StopRecords(map, addrs, failing)
      PROVE  records'[t].state = "Stopping"
  <2>1. PICK some : records' = Stopped(map, some) BY Zenon, <1>4 DEF StopRecords
  <2>2. StateAfter(map, some, t) BY Zenon, <1>1, <2>1, StoppedStates
  <2> QED BY Zenon, <2>2 DEF StateAfter
<1>5. ASSUME NEW map, NEW left, NEW call, StopNextCluster(map, left, call)
      PROVE  records'[t].state = "Stopping"
  <2>1. CASE cluster_order = <<>> BY Zenon, <1>2, <1>5, <2>1 DEF StopNextCluster
  <2>2. CASE cluster_order # <<>>
    <3>1. \E addrs, failing : StopRecords(map, addrs, failing)
      BY Zenon, <1>5, <2>2 DEF StopNextCluster
    <3> QED BY Zenon, <1>4, <3>1
  <2> QED BY Zenon, <2>1, <2>2
<1>6. ASSUME NEW u \in Tasks, Handle(u) PROVE records'[t].state = "Stopping"
  <2>1. CASE SetReady(u)
    <3>1. PICK v : records' = records \/ records' = [records EXCEPT ![v].ready = TRUE]
      BY <2>1, Zenon DEF SetReady
    <3>2. CASE records' = [records EXCEPT ![v].ready = TRUE]
      BY <1>1, <3>2 DEF TypeOK
    <3> QED BY Zenon, <1>2, <3>1, <3>2
  <2>2. CASE StopAck(u)
    BY ZenonT(60), <1>2, <1>5, <2>2 DEF StopAck
  <2> QED BY Zenon, <1>2, <1>6, <2>1, <2>2
          DEF Handle, StartAccepted, StartRejected, StartPanics, StopDetached
<1>7. ASSUME NEW b \in Addresses, StopWorker(b) PROVE records'[t].state = "Stopping"
  <2>1. PICK u : records' = [records EXCEPT ![u].sender = FALSE]
    BY <1>7, ZenonT(60) DEF StopWorker
  <2> QED BY <1>1, <2>1 DEF TypeOK
<1>8. CASE Graceful
  BY ZenonT(60), <1>4, <1>5, <1>8 DEF Graceful
<1>9. CASE \/ \E c \in Clients, b \in Addresses : SenderReq(c, b) \/ CheckReady(c, b)
           \/ \E u \in Tasks, label \in Labels : SetCluster(u, label)
           \/ \E c \in Clients : SendToMailbox(c)
           \/ \E b \in ProcessorStops : StopProcessor(b)
           \/ AbortNode \/ Immediate
  <2>1. UNCHANGED records
    BY ZenonT(60), <1>9 DEF SenderReq, CheckReady, SetCluster, SendToMailbox, StopProcessor,
                            AbortNode, Immediate
  <2> QED BY Zenon, <1>2, <2>1
<1> QED BY Zenon, <1>2, <1>3, <1>6, <1>7, <1>8, <1>9 DEF Next

\* The record at an address the shutdown begins to wait for was signalled.
SignalledAt(map, a) == a \in Addresses /\ map[a] \in Tasks /\ records'[map[a]].state = "Stopping"

\* A loop over the records at addrs signals all of them, if no stop fails.
LEMMA AllSignalled ==
  ASSUME TypeOK, NEW map \in [Addresses -> Tasks \union {None}], NEW addrs \in SUBSET Addresses,
         \A a \in addrs : map[a] # None, StopRecords(map, addrs, {})
  PROVE  \A a \in addrs : SignalledAt(map, a)
<1>1. records' = Stopped(map, addrs) BY Zenon DEF StopRecords
<1> SUFFICES ASSUME NEW a \in addrs PROVE SignalledAt(map, a)
  BY Zenon
<1>2. a \in Addresses /\ map[a] \in Tasks BY Zenon
<1>3. StateAfter(map, addrs, map[a]) BY Zenon, <1>1, <1>2, StoppedStates
<1> QED BY Zenon, <1>2, <1>3 DEF StateAfter, SignalledAt

\* stop_next_cluster waits for more addresses only if it signalled their records,
\* and ends the shutdown with no more than it was given.
LEMMA NextClusterAwaits ==
  ASSUME TypeOK, NEW map \in [Addresses -> Tasks \union {None}], NEW left, NEW call,
         StopNextCluster(map, left, call)
  PROVE  /\ \A a \in stopping' : a \in left \/ SignalledAt(map, a)
         /\ stop_call' = call \/ (stop_call' = "ok" /\ node_state' = "Stopping")
         /\ router_open' = router_open \/ stopping' = left
<1>1. CASE cluster_order = <<>>
  BY <1>1, Zenon DEF StopNextCluster
<1>2. CASE cluster_order # <<>>
  <2> DEFINE members == {a \in Addresses :
                           map[a] # None /\ a \in clusters[cluster_order[Len(cluster_order)]]}
  <2>1. PICK failing :
          /\ StopRecords(map, members, failing)
          /\ stopping' = IF failing = {} THEN left \union members ELSE left
    BY <1>2, ZenonT(60) DEF StopNextCluster
  <2>2. router_open' = router_open /\ stop_call' = call
    BY <1>2, Zenon DEF StopNextCluster, TypeOK
  <2>3. members \in SUBSET Addresses /\ \A a \in members : map[a] # None
    OBVIOUS
  <2> HIDE DEF members
  <2>4. failing = {} => \A a \in members : SignalledAt(map, a)
    BY Zenon, <2>1, <2>3, AllSignalled
  <2> QED BY Zenon, <2>1, <2>2, <2>4
<1> QED BY Zenon, <1>1, <1>2

\* An address the shutdown waited for keeps its record, unless stop_processor takes
\* it, and the workers it was signalled for.
Remains(a) ==
  /\ \/ address_records_map'[a] = address_records_map[a]
     \/ a \in ProcessorStops /\ UNCHANGED task
  /\ \A u \in Tasks : primary[u] = a /\ kind[u] = "worker" /\ task[u] # "gone" =>
                       task'[u] # "gone"

\* An address the shutdown waits for after a step.
StillAwaited(a) ==
  \/ SignalledAt(address_records_map', a)
  \/ node_state = "Stopping" /\ a \in stopping /\ Remains(a)

\* What a step does to the addresses the shutdown waits for: what is added has a
\* record that was signalled, an address whose record is freed is taken off, and
\* the router leaves its loop with nobody to wait for, with the timeout, or in a
\* panic.
LEMMA StoppingStep ==
  ASSUME LifecycleInv, AwaitInv, PrimariesOwn, Next
  PROVE  /\ stop_call' = "none" => stopping' = {} /\ node_state' # "Stopping"
         /\ router_open' /\ node_state' = "Stopping" =>
              \A a \in stopping' : StillAwaited(a)
         /\ ~router_open' => \/ stopping' = {}
                             \/ UNCHANGED <<task, records, stopping, node_state>>
<1> USE DEF task_vars, map_vars, cluster_vars, node_vars
<1> DEFINE Goal == /\ stop_call' = "none" => stopping' = {} /\ node_state' # "Stopping"
                   /\ router_open' /\ node_state' = "Stopping" =>
                        \A a \in stopping' : StillAwaited(a)
                   /\ ~router_open' => \/ stopping' = {}
                                       \/ UNCHANGED <<task, records, stopping, node_state>>
<1> SUFFICES Goal OBVIOUS
<1>1. /\ TypeOK /\ TypeOK' /\ router_open
      /\ stop_call = "none" => stopping = {} /\ node_state # "Stopping"
      /\ node_state = "Dead" => \A a \in Addresses : address_records_map[a] = None
  BY Zenon, TypeStep DEF LifecycleInv, Next, AwaitInv
<1>2. ASSUME NEW p, NEW a \in Addresses, a # p,
             address_records_map' = [address_records_map EXCEPT ![p] = None]
      PROVE  address_records_map'[a] = address_records_map[a]
  BY ZenonT(60), <1>1, <1>2, MapTypes, RecordElsewhere
<1>3. ASSUME NEW t \in Tasks, StopAck(t) PROVE Goal
  <2> DEFINE left == stopping \ {primary[t]}
  <2>1. /\ FreeAddress(primary[t]) /\ primary[t] \in Addresses /\ UNCHANGED node_state
        /\ task' = [task EXCEPT ![t] = "gone"]
        /\ address_records_map' = [address_records_map EXCEPT ![primary[t]] = None]
    BY Zenon, <1>3 DEF StopAck, FreeAddress
  <2>2. ASSUME node_state = "Stopping", NEW a \in left PROVE StillAwaited(a)
    <3>1. a \in Addresses /\ a # primary[t] BY Zenon, <1>1 DEF TypeOK
    <3>2. address_records_map'[a] = address_records_map[a] BY Zenon, <1>2, <2>1, <3>1
    <3>3. \A u \in Tasks : u # t => task'[u] = task[u] BY <1>1, <2>1 DEF TypeOK
    <3> QED BY Zenon, <2>2, <3>1, <3>2, <3>3 DEF StillAwaited, Remains
  <2>3. CASE stopping' = left /\ UNCHANGED <<router_open, stop_call>>
    BY Zenon, <1>1, <2>1, <2>2, <2>3
  <2>4. CASE left = {} /\ StopNextCluster(address_records_map', left, stop_call)
    <3>1. /\ \A a \in stopping' : SignalledAt(address_records_map', a)
          /\ stop_call' = stop_call \/ (stop_call' = "ok" /\ node_state' = "Stopping")
          /\ router_open' = router_open \/ stopping' = {}
      <4>1. left = {} BY Zenon, <2>4
      <4>2. address_records_map' \in [Addresses -> Tasks \union {None}]
        BY Zenon, <1>1 DEF TypeOK
      <4> HIDE DEF left
      <4> QED BY ZenonT(60), <1>1, <2>4, <4>1, <4>2, NextClusterAwaits
    <3>2. stop_call' = "none" => stopping' = {} /\ node_state' # "Stopping"
      <4> SUFFICES ASSUME stop_call' = "none" PROVE stopping' = {} /\ node_state' # "Stopping"
        OBVIOUS
      <4>1. stop_call = "none" /\ node_state \in {"Running", "Dead"}
        BY Zenon, <1>1, <3>1 DEF TypeOK
      <4>2. CASE node_state = "Running"
        <5>1. stopping' = left
          BY ZenonT(60), <1>3, <4>2 DEF StopAck
        <5> QED BY Zenon, <1>1, <2>1, <2>4, <4>2, <5>1
      <4>3. CASE node_state = "Dead"
        <5>1. \A a \in Addresses : address_records_map'[a] = None
          BY ZenonT(60), <1>1, <2>1, <4>3, FreeOnlyGo
        <5>2. \A a : ~SignalledAt(address_records_map', a)
          BY Zenon, <5>1 DEF SignalledAt
        <5> QED BY Zenon, <2>1, <3>1, <4>3, <5>2
      <4> QED BY Zenon, <4>1, <4>2, <4>3
    <3> QED BY Zenon, <1>1, <3>1, <3>2 DEF StillAwaited
  <2> QED BY <1>3, <2>3, <2>4, Zenon DEF StopAck
<1> SUFFICES ASSUME \A t \in Tasks : ~StopAck(t) PROVE Goal
  <2> HIDE DEF Goal
  <2> QED BY Zenon, <1>3
<1>4. \A u \in Tasks : kind[u] = "worker" /\ task[u] # "gone" => task'[u] # "gone"
  <2>1. \A u \in Tasks : kind[u] = "worker" => ~StopDetached(u) BY Zenon DEF StopDetached
  <2> QED BY Zenon, <1>1, <2>1, GoneBy
<1>5. ASSUME UNCHANGED <<stopping, node_state, stop_call, router_open>>,
             node_state = "Stopping" => UNCHANGED address_records_map
      PROVE  Goal
  BY ZenonT(60), <1>1, <1>4, <1>5 DEF StillAwaited, Remains
<1>6. ASSUME NEW t \in Tasks, Spawn(t) \/ Relay(t) \/ DropContext(t) PROVE Goal
  <2>1. UNCHANGED <<stopping, node_state, stop_call, router_open, address_records_map>>
    BY ZenonT(60), <1>6 DEF Spawn, Relay, DropContext, Initialized, TakeMessage, HandlerReturns,
              HandlerCancelled, NoMoreMessages,
                Interrupt, ProcessReturnsFalse, ShutdownDone, Leave
  <2> HIDE DEF Goal
  <2> QED BY <1>5, <2>1
<1>7. ASSUME NEW t \in Tasks, StartAccepted(t) \/ StartRejected(t) \/ SetReady(t) PROVE Goal
  <2>1. /\ UNCHANGED <<stopping, node_state, stop_call, router_open>>
        /\ node_state = "Stopping" => UNCHANGED address_records_map
    BY <1>7 DEF StartAccepted, StartRejected, SetReady
  <2> HIDE DEF Goal
  <2> QED BY <1>5, <2>1
<1>8. ASSUME NEW t \in Tasks, StartPanics(t) PROVE Goal
  BY ZenonT(60), <1>1, <1>8 DEF StartPanics
<1>9. ASSUME NEW t \in Tasks, StopDetached(t) PROVE Goal
  <2> DEFINE p == alias_map[primary[t]]
  <2>1. UNCHANGED <<node_state, stop_call, router_open>>
    BY ZenonT(60), <1>9 DEF StopDetached
  <2>2. CASE p # None /\ address_records_map[p] # None
    <3>1. p \in Addresses BY Zenon, <1>1, <2>2, MapTypes, ProfileAssumption
    <3>2. FreeAddress(p) /\ stopping' = stopping \ {p}
      BY Zenon, <1>9, <2>2 DEF StopDetached
    <3> HIDE DEF p
    <3>3. \A a \in stopping' : a \in Addresses /\ a # p
      BY ZenonT(60), <1>1, <3>2 DEF TypeOK
    <3>4. \A a \in stopping' : address_records_map'[a] = address_records_map[a]
      BY Zenon, <1>2, <3>2, <3>3 DEF FreeAddress
    <3>5. node_state = "Stopping" => \A a \in stopping' : StillAwaited(a)
      BY Zenon, <1>4, <3>2, <3>4 DEF StillAwaited, Remains
    <3> QED BY ZenonT(60), <1>1, <2>1, <3>2, <3>5
  <2>3. CASE ~(p # None /\ address_records_map[p] # None)
    <3>1. UNCHANGED <<stopping, address_records_map>>
      BY Zenon, <1>9, <2>3 DEF StopDetached
    <3> HIDE DEF Goal
    <3> QED BY <1>5, <2>1, <3>1
  <2> QED BY Zenon, <2>2, <2>3
<1>10. ASSUME NEW t \in Tasks, Handle(t) PROVE Goal
  <2> HIDE DEF Goal
  <2> QED BY Zenon, <1>7, <1>8, <1>9, <1>3, <1>10 DEF Handle
<1>11. CASE \/ \E c \in Clients, b \in Addresses : SenderReq(c, b) \/ CheckReady(c, b)
            \/ \E t \in Tasks, label \in Labels : SetCluster(t, label)
            \/ \E c \in Clients : SendToMailbox(c)
            \/ \E b \in Addresses : StopWorker(b)
  <2>1. UNCHANGED <<stopping, node_state, stop_call, router_open, address_records_map>>
    BY ZenonT(60), <1>11 DEF SenderReq, CheckReady, SetCluster, SendToMailbox, StopWorker
  <2> HIDE DEF Goal
  <2> QED BY <1>5, <2>1
<1>12. ASSUME NEW b \in ProcessorStops, StopProcessor(b) PROVE Goal
  <2>1. /\ UNCHANGED <<task, stopping, node_state, stop_call, router_open>>
        /\ address_records_map' = [address_records_map EXCEPT ![b] = None]
    BY Zenon, <1>12 DEF StopProcessor
  <2>2. ASSUME NEW a \in stopping, node_state = "Stopping" PROVE StillAwaited(a)
    <3>1. a \in Addresses BY ZenonT(60), <1>1 DEF TypeOK
    <3>2. a # b => address_records_map'[a] = address_records_map[a]
      BY Zenon, <1>2, <2>1, <3>1
    <3> QED BY Zenon, <1>4, <2>1, <2>2, <3>2 DEF StillAwaited, Remains
  <2> QED BY Zenon, <1>1, <2>1, <2>2
<1>13. CASE Graceful
  <2>1. stop_call = "none" /\ stopping = {} /\ UNCHANGED <<task, address_records_map>>
        /\ stop_call' # "none"
    <3>1. StopNextCluster(address_records_map, stopping, "waiting") => stop_call' # "none"
      BY Zenon DEF StopNextCluster
    <3> QED BY Zenon, <1>1, <1>13, <3>1 DEF Graceful
  <2>2. address_records_map \in [Addresses -> Tasks \union {None}] BY Zenon, <1>1, MapTypes
  <2>3. /\ \A a \in stopping' : SignalledAt(address_records_map, a)
        /\ router_open' = router_open \/ stopping' = {}
    <3>1. CASE StopNextCluster(address_records_map, stopping, "waiting")
      BY Zenon, <1>1, <2>1, <2>2, <3>1, NextClusterAwaits
    <3>2. ASSUME NEW failing, StopRecords(address_records_map, NonClusterWorkers, failing),
                 stopping' = IF failing = {} THEN stopping \union NonClusterWorkers
                                             ELSE stopping,
                 UNCHANGED router_open
          PROVE  /\ \A a \in stopping' : SignalledAt(address_records_map, a)
                 /\ router_open' = router_open \/ stopping' = {}
      <4>1. /\ NonClusterWorkers \in SUBSET Addresses
            /\ \A a \in NonClusterWorkers : address_records_map[a] # None
        BY Zenon DEF NonClusterWorkers
      <4>2. failing = {} => \A a \in NonClusterWorkers : SignalledAt(address_records_map, a)
        BY Zenon, <1>1, <2>2, <3>2, <4>1, AllSignalled
      <4> QED BY Zenon, <2>1, <3>2, <4>2
    <3> QED BY Zenon, <1>13, <3>1, <3>2 DEF Graceful
  <2>4. \A a \in stopping' : StillAwaited(a)
    BY Zenon, <2>1, <2>3 DEF StillAwaited, SignalledAt
  <2> QED BY Zenon, <1>1, <2>1, <2>3, <2>4
<1>14. CASE AbortNode
  <2>1. CASE node_state = "Stopping"
    BY Zenon, <1>14, <2>1 DEF AbortNode
  <2>2. CASE node_state # "Stopping"
    <3>1. UNCHANGED <<stopping, node_state, stop_call, router_open, address_records_map>>
      BY <1>14, <2>2 DEF AbortNode
    <3> HIDE DEF Goal
    <3> QED BY <1>5, <3>1
  <2> QED BY Zenon, <2>1, <2>2
<1>15. CASE Immediate
  BY Zenon, <1>1, <1>15 DEF Immediate
<1> HIDE DEF Goal
<1> QED BY <1>6, <1>10, <1>11, <1>12, <1>13, <1>14, <1>15, Zenon DEF Next

\* Every step keeps the invariant of the addresses the shutdown waits for.
LEMMA AwaitStep ==
  ASSUME LifecycleInv, AwaitInv, [Next]_vars
  PROVE  AwaitInv'
<1> USE DEF task_vars, map_vars, cluster_vars, node_vars
<1> SUFFICES ASSUME PrimariesOwn PROVE AwaitInv'
  BY ZenonT(60) DEF AwaitInv, PrimariesOwn
<1>1. CASE UNCHANGED vars
  <2>1. WaitsForTheLiving BY ZenonT(60) DEF AwaitInv
  <2>2. WaitsForTheLiving' BY <1>1, <2>1 DEF vars, WaitsForTheLiving
  <2>3. \A t, a : AwaitedAs(t, a) => AwaitedAs(t, a)' BY Zenon, <1>1 DEF vars, AwaitedAs
  <2> QED BY ZenonT(60), <1>1, <2>2, <2>3 DEF vars, AwaitInv
<1>2. CASE Next
  <2>1. PrimariesLead'
    BY Zenon, <1>2, PrimariesStep DEF AwaitInv, PrimariesLead
  <2>2. \A a \in Addresses : address_records_map'[a] # None =>
          (kind[address_records_map'[a]] = "detached" => task'[address_records_map'[a]] # "gone")
    BY Zenon, <1>2, ContextStep
  <2>3. /\ stop_call' = "none" => stopping' = {} /\ node_state' # "Stopping"
        /\ router_open' /\ node_state' = "Stopping" =>
             \A a \in stopping' : StillAwaited(a)
        /\ ~router_open' => \/ stopping' = {}
                            \/ UNCHANGED <<task, records, stopping, node_state>>
    BY <1>2, StoppingStep
  <2>4. TypeOK /\ TypeOK' /\ NoStaleRecords'
    BY ZenonT(60), LifecycleStep DEF LifecycleInv
  <2>5. node_state' = "Dead" => \A a \in Addresses : address_records_map'[a] = None
    <3> SUFFICES ASSUME node_state' = "Dead"
                 PROVE  \A a \in Addresses : address_records_map'[a] = None
      BY Zenon
    <3>1. CASE node_state = "Dead"
      BY <1>2, <2>4, <3>1, NoStartStep DEF AwaitInv
    <3>2. CASE node_state # "Dead"
      <4>1. Immediate
        <5>1. ASSUME NEW t \in Tasks, Spawn(t) \/ Relay(t) \/ DropContext(t)
              PROVE  UNCHANGED node_state
          BY Zenon, <5>1 DEF Spawn, Relay, DropContext, Initialized, TakeMessage, HandlerReturns,
              HandlerCancelled, NoMoreMessages,
                      Interrupt, ProcessReturnsFalse, ShutdownDone, Leave
        <5>2. ASSUME NEW t \in Tasks, Handle(t) PROVE UNCHANGED node_state
          BY <5>2, Zenon DEF Handle, StartAccepted, StartRejected, StartPanics, SetReady,
                             StopDetached, StopAck
        <5>3. CASE \/ \E c \in Clients, b \in Addresses : SenderReq(c, b) \/ CheckReady(c, b)
                   \/ \E t \in Tasks, label \in Labels : SetCluster(t, label)
                   \/ \E c \in Clients : SendToMailbox(c)
                   \/ \E b \in Addresses : StopWorker(b)
                   \/ \E b \in ProcessorStops : StopProcessor(b)
          BY ZenonT(60), <3>2, <5>3 DEF SenderReq, CheckReady, SetCluster, SendToMailbox, StopWorker,
                            StopProcessor
        <5>4. CASE Graceful BY Zenon, <5>4 DEF Graceful
        <5>5. CASE AbortNode BY Zenon, <3>2, <5>5 DEF AbortNode
        <5> QED BY Zenon, <1>2, <3>2, <5>1, <5>2, <5>3, <5>4, <5>5 DEF Next
      <4> QED BY ZenonT(60), <4>1 DEF Immediate, ClearRecords
    <3> QED BY Zenon, <3>1, <3>2
  <2>6. ASSUME router_open', node_state' = "Stopping", NEW a \in stopping'
        PROVE  \E t \in Tasks : AwaitedAs(t, a)'
    <3>1. a \in Addresses /\ StillAwaited(a) BY Zenon, <2>3, <2>4, <2>6 DEF TypeOK
    <3>2. CASE SignalledAt(address_records_map', a)
      <4>1. PICK t \in Tasks : address_records_map'[a] = t /\ records'[t].state = "Stopping"
        BY Zenon, <3>2 DEF SignalledAt
      <4>2. t # None BY Zenon
      <4>3. primary[t] = a BY Zenon, <2>4, <3>1, <4>1, <4>2 DEF NoStaleRecords
      <4> QED BY Zenon, <4>1, <4>3 DEF AwaitedAs
    <3>3. CASE node_state = "Stopping" /\ a \in stopping /\ Remains(a)
      <4>1. PICK t \in Tasks : AwaitedAs(t, a)
        BY Zenon, <1>2, <3>3 DEF AwaitInv, Next
      <4>2. primary[t] = a /\ records'[t].state = "Stopping"
        BY Zenon, <1>2, <4>1, StateStays DEF AwaitedAs
      <4>3. CASE address_records_map[a] = t /\ address_records_map'[a] # t
        <5>1. a \in ProcessorStops /\ UNCHANGED task BY Zenon, <3>3, <4>3 DEF Remains
        <5>2. t # None BY Zenon
        <5>3. kind[t] = "worker" => task'[t] # "gone"
          BY Zenon, <3>1, <4>3, <5>1, <5>2 DEF LifecycleInv, NoStaleRecords
        <5>4. kind[t] \in {"worker", "processor", "detached"} BY Zenon
        <5> QED BY Zenon, <4>2, <5>1, <5>3, <5>4 DEF AwaitedAs
      <4>4. CASE address_records_map'[a] = t BY Zenon, <4>2, <4>4 DEF AwaitedAs
      <4>5. CASE kind[t] = "worker" /\ task[t] # "gone"
        BY Zenon, <3>3, <4>2, <4>5 DEF AwaitedAs, Remains
      <4> QED BY Zenon, <4>1, <4>2, <4>3, <4>4, <4>5 DEF AwaitedAs
    <3> QED BY Zenon, <3>1, <3>2, <3>3 DEF StillAwaited
  <2>7. WaitsForTheLiving'
    <3>1. CASE ~router_open'
      <4>1. CASE stopping' = {} BY Zenon, <4>1 DEF WaitsForTheLiving
      <4>2. CASE UNCHANGED <<task, records, stopping, node_state>>
        <5>1. WaitsForTheLiving BY Zenon DEF AwaitInv
        <5> QED BY <4>2, <5>1 DEF WaitsForTheLiving
      <4> QED BY Zenon, <2>3, <3>1, <4>1, <4>2
    <3>2. CASE router_open'
      <4> SUFFICES ASSUME node_state' = "Stopping", NEW a \in stopping'
                   PROVE  \E t \in Tasks :
                            /\ primary[t] = a /\ records'[t].state = "Stopping"
                            /\ \/ task'[t] # "gone"
                               \/ kind[t] = "processor"
                               \/ kind[t] = "detached" /\ a \in ProcessorStops
        BY Zenon DEF WaitsForTheLiving
      <4>1. PICK t \in Tasks : AwaitedAs(t, a)'
        BY Zenon, <2>6, <3>2
      <4>2. CASE address_records_map'[a] = t
        <5>1. t # None /\ a \in Addresses BY ZenonT(60), <2>4 DEF TypeOK
        <5>2. kind[t] # "processor" => task'[t] # "gone"
          <6>1. kind[t] = "worker" => task'[t] # "gone"
            BY Zenon, <2>4, <4>2, <5>1 DEF NoStaleRecords
          <6>2. kind[t] = "detached" => task'[t] # "gone"
            BY ZenonT(60), <2>2, <4>2, <5>1
          <6>3. kind[t] \in {"worker", "processor", "detached"} BY Zenon
          <6> QED BY Zenon, <6>1, <6>2, <6>3
        <5> QED BY Zenon, <4>1, <5>2 DEF AwaitedAs
      <4>3. CASE address_records_map'[a] # t
        BY Zenon, <4>1, <4>3 DEF AwaitedAs
      <4> QED BY Zenon, <4>2, <4>3
    <3> QED BY Zenon, <3>1, <3>2
  <2> QED BY Zenon, <2>1, <2>2, <2>3, <2>5, <2>6, <2>7 DEF AwaitInv, PrimariesLead
<1> QED BY <1>1, <1>2

\* The shutdown of a node on which no primary address is another task's alias
\* waits for an address only while a worker or detached context it signalled there
\* is not gone, processors and calls of stop_processor for a context excepted:
\* free_address takes them off, whatever stops, starts, aborts and calls of stop_now
\* come between.
THEOREM ShutdownWaitsForTheLiving == PrimariesOwn => (Spec => []WaitsForTheLiving)
<1> SUFFICES ASSUME PrimariesOwn PROVE Spec => []WaitsForTheLiving
  OBVIOUS
<1>1. Init => AwaitInv
  BY ZenonT(60) DEF Init, AwaitInv, WaitsForTheLiving
<1>2. LifecycleInv /\ AwaitInv /\ [Next]_vars => AwaitInv'
  BY AwaitStep
<1>3. AwaitInv => WaitsForTheLiving
  BY Zenon DEF AwaitInv
<1> QED BY <1>1, <1>2, <1>3, LifecycleInvariance, PTL DEF Spec
=============================================================================
