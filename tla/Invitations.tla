---------------------------- MODULE Invitations -----------------------------
(***************************************************************************)
(* Invitations to shared services: the controller that keeps them          *)
(* (ockam_api/src/cloud/share), the desktop application that lists them    *)
(* and runs a node with a TCP inlet for each one accepted                  *)
(* (ockam_app/src/invitations), and the share commands of the CLI          *)
(* (ockam_command/src/share), which work through an embedded node.         *)
(*                                                                         *)
(* A refresh is spawned at every interval and after every acceptance, so   *)
(* refreshes overlap; the list they write is guarded by an RwLock that     *)
(* each holds for reading while it deletes and creates nodes.              *)
(***************************************************************************)
EXTENDS Integers, Sequences, FiniteSets, SequencesExt

CONSTANTS Ids,        \* invitations, numbers: the order in which they are listed
          Details,    \* Ids -> [kind, project, service]: what the invitation gives access to
          Tasks,      \* slots for tasks of the application
          Clis,       \* processes of the CLI
          Commands,   \* the share commands they run
          Enrolled,   \* whether the user's own project is known at first
          MaxFails, MaxCrashes, MaxCommands  \* bounds

VARIABLES cloud,   \* the controller: invitations received, accepted; number sent
          ui,      \* InvitationState and its lock
          disk,    \* default project, the project saved as "default"
          node,    \* local nodes: <<project, service>> -> state
          task, due, cli, fails, crashes, commands

vars == <<cloud, ui, disk, node, task, due, cli, fails, crashes, commands>>

Nodes == {<<Details[k].project, Details[k].service>> : k \in Ids}
Idle == [pc |-> "idle", got |-> [received |-> {}, accepted |-> {}], left |-> <<>>, id |-> 0]
NoCommand == [cmd |-> <<"none">>, pc |-> "idle", embedded |-> FALSE, ok |-> TRUE]

Init ==
    /\ cloud = [known |-> Enrolled, received |-> Ids, accepted |-> {}, sent |-> 0]
    /\ ui = [received |-> {}, accepted |-> {}, readers |-> {}]
    /\ disk = [dflt |-> IF Enrolled THEN "own" ELSE "none", named |-> IF Enrolled THEN "own" ELSE "none"]
    /\ node = [n \in Nodes |-> "none"]
    /\ task = [i \in Tasks |-> Idle]
    /\ due = TRUE
    /\ cli = [c \in Clis |-> NoCommand]
    /\ fails = 0 /\ crashes = 0 /\ commands = 0

Free(i) == task[i].pc = "idle"
Goto(i, pc) == task' = [task EXCEPT ![i].pc = pc]
End(i) == task' = [task EXCEPT ![i] = Idle]
Fail == fails < MaxFails /\ fails' = fails + 1

----------------------------------------------------------------------------
(* The controller. *)
CreateInvitation == cloud' = [cloud EXCEPT !.sent = @ + 1]
CreateServiceInvitation == cloud' = [cloud EXCEPT !.sent = @ + 1]
\* v0/redeem_invite
AcceptInvitation(k) ==
    /\ k \in cloud.received
    /\ cloud' = [cloud EXCEPT !.received = @ \ {k}, !.accepted = @ \cup {k}]
ListShares == [received |-> cloud.received, accepted |-> cloud.accepted]
ShowInvitation(k) == k \in cloud.received \cup cloud.accepted

----------------------------------------------------------------------------
(* Enrolment, as far as it matters here: the controller knows the identity *)
(* long before the user's own project is ready and saved.                  *)
Auth0 ==
    /\ ~cloud.known
    /\ cloud' = [cloud EXCEPT !.known = TRUE]
    /\ UNCHANGED <<ui, disk, node, task, due, cli, fails, crashes, commands>>

\* projects.overwrite: the first project that is saved becomes the default.
Overwrite(name, p) == [dflt |-> IF disk.dflt = "none" THEN p ELSE disk.dflt,
                       named |-> IF name = "default" THEN p ELSE disk.named]

SaveOwnProject ==
    /\ cloud.known /\ disk.named = "none"
    /\ disk' = Overwrite("default", "own")
    /\ UNCHANGED <<cloud, ui, node, task, due, cli, fails, crashes, commands>>

----------------------------------------------------------------------------
(* Tasks of the application. *)
Refresh(i) ==
    /\ due /\ Free(i)
    /\ due' = FALSE /\ Goto(i, "list")
    /\ UNCHANGED <<cloud, ui, disk, node, cli, fails, crashes, commands>>

\* The interval of the plugin.
Tick ==
    /\ ~due /\ \E i \in Tasks : Free(i)
    /\ due' = TRUE
    /\ UNCHANGED <<cloud, ui, disk, node, task, cli, fails, crashes, commands>>

\* refresh_invitations: the list is asked for, then written, then read again.
List(i) ==
    /\ task[i].pc = "list"
    /\ \/ cloud.known /\ task' = [task EXCEPT ![i].pc = "write", ![i].got = ListShares] /\ UNCHANGED fails
       \/ ~cloud.known /\ End(i) /\ UNCHANGED fails
       \/ cloud.known /\ Fail /\ End(i)
    /\ UNCHANGED <<cloud, ui, disk, node, due, cli, crashes, commands>>

Write(i) ==
    /\ task[i].pc = "write" /\ ui.readers = {}
    /\ ui' = [ui EXCEPT !.received = task[i].got.received, !.accepted = task[i].got.accepted]
    /\ Goto(i, "read")
    /\ UNCHANGED <<cloud, disk, node, due, cli, fails, crashes, commands>>

InOrder(S) == SetToSortSeq(S, <)

\* refresh_inlets takes the lock for reading until it returns.
Read(i) ==
    /\ task[i].pc = "read"
    /\ IF ui.accepted = {} THEN End(i) /\ UNCHANGED ui
       ELSE /\ task' = [task EXCEPT ![i].pc = "inlet", ![i].left = InOrder(ui.accepted)]
            /\ ui' = [ui EXCEPT !.readers = @ \cup {i}]
    /\ UNCHANGED <<cloud, disk, node, due, cli, fails, crashes, commands>>

\* InletDataFromInvitation::new gives nothing for an invitation without access to a
\* service or without a project, and fails for a ticket that cannot be decoded.
HasInlet(k) == Details[k].kind = "service"
NodeOf(k) == <<Details[k].project, Details[k].service>>

\* The project is saved under its id.
NameOfProject(k) == Details[k].project

\* A node that does not run is made anew.
Inlet(i) ==
    /\ task[i].pc = "inlet" /\ task[i].left # <<>>
    /\ LET k == Head(task[i].left) IN
       IF ~HasInlet(k)
       THEN task' = [task EXCEPT ![i].left = Tail(@)] /\ UNCHANGED disk
       ELSE /\ disk' = Overwrite(NameOfProject(k), Details[k].project)
            /\ task' = IF node[NodeOf(k)] = "running" THEN [task EXCEPT ![i].left = Tail(@)]
                       ELSE [task EXCEPT ![i].pc = "delete", ![i].id = k]
    /\ UNCHANGED <<cloud, ui, node, due, cli, fails, crashes, commands>>

DeleteNode(i) ==
    /\ task[i].pc = "delete"
    /\ node' = [node EXCEPT ![NodeOf(task[i].id)] = "none"]
    /\ Goto(i, "create")
    /\ UNCHANGED <<cloud, ui, disk, due, cli, fails, crashes, commands>>

\* `ockam run` creates the node and its inlet, or fails; an error ends the refresh.
CreateInlet(i) ==
    /\ task[i].pc = "create"
    /\ \/ /\ node' = [node EXCEPT ![NodeOf(task[i].id)] = "running"]
          /\ task' = [task EXCEPT ![i].pc = "inlet", ![i].left = Tail(@)]
          /\ UNCHANGED <<ui, fails>>
       \/ /\ Fail /\ End(i)
          /\ node' = [node EXCEPT ![NodeOf(task[i].id)] = "stopped"]
          /\ ui' = [ui EXCEPT !.readers = @ \ {i}]
    /\ UNCHANGED <<cloud, disk, due, cli, crashes, commands>>

RefreshEnds(i) ==
    /\ task[i].pc = "inlet" /\ task[i].left = <<>>
    /\ End(i) /\ ui' = [ui EXCEPT !.readers = @ \ {i}]
    /\ UNCHANGED <<cloud, disk, node, due, cli, fails, crashes, commands>>

\* A click on "Accept" of a received invitation that the menu shows.  The menu
\* shows them once there is a default project (is_enrolled).  The runtime has room for
\* any number of tasks: clicks never take the last slot.
OnAccept(i) ==
    /\ disk.dflt # "none" /\ Free(i) /\ \E j \in Tasks \ {i} : Free(j)
    /\ \E k \in ui.received : task' = [task EXCEPT ![i].pc = "accept", ![i].id = k]
    /\ UNCHANGED <<cloud, ui, disk, node, due, cli, fails, crashes, commands>>

\* accept_invitation triggers a refresh only when the request succeeded.
Accept(i) ==
    /\ task[i].pc = "accept" /\ End(i)
    /\ \/ AcceptInvitation(task[i].id) /\ due' = TRUE /\ UNCHANGED fails
       \/ task[i].id \notin cloud.received /\ UNCHANGED <<cloud, due, fails>>
       \/ Fail /\ UNCHANGED <<cloud, due>>
    /\ UNCHANGED <<ui, disk, node, cli, crashes, commands>>

\* A node of an inlet is killed.
Crash(n) ==
    /\ node[n] = "running" /\ crashes < MaxCrashes
    /\ node' = [node EXCEPT ![n] = "stopped"] /\ crashes' = crashes + 1
    /\ UNCHANGED <<cloud, ui, disk, task, due, cli, fails, commands>>

----------------------------------------------------------------------------
(* The commands of the CLI: an embedded node, one request, and the node is *)
(* deleted; an error of the request ends the process before that.          *)
ShareCreate == CreateInvitation
ShareService == CreateServiceInvitation
ShareAccept(k) == AcceptInvitation(k)
ShareList == UNCHANGED cloud
ShareShow(k) == ShowInvitation(k) /\ UNCHANGED cloud

RunCommand(c) ==
    /\ cli[c].pc = "idle" /\ commands < MaxCommands
    /\ \E cmd \in Commands : cli' = [cli EXCEPT ![c] = [cmd |-> cmd, pc |-> "request", embedded |-> TRUE, ok |-> FALSE]]
    /\ commands' = commands + 1
    /\ UNCHANGED <<cloud, ui, disk, node, task, due, fails, crashes>>

Request(c) ==
    /\ cli[c].pc = "request"
    /\ LET cmd == cli[c].cmd IN
       \/ /\ cloud.known
          /\ \/ cmd = <<"create">> /\ ShareCreate
             \/ cmd = <<"service">> /\ ShareService
             \/ cmd = <<"list">> /\ ShareList
             \/ cmd[1] = "accept" /\ ShareAccept(cmd[2])
             \/ cmd[1] = "show" /\ ShareShow(cmd[2])
          /\ cli' = [cli EXCEPT ![c].pc = "delete"] /\ UNCHANGED fails
       \/ /\ ~cloud.known \/ (cmd[1] = "accept" /\ cmd[2] \notin cloud.received)
          /\ cli' = [cli EXCEPT ![c].pc = "idle"] /\ UNCHANGED <<cloud, fails>>
       \/ Fail /\ cli' = [cli EXCEPT ![c].pc = "idle"] /\ UNCHANGED cloud
    /\ UNCHANGED <<ui, disk, node, task, due, crashes, commands>>

DeleteEmbeddedNode(c) ==
    /\ cli[c].pc = "delete"
    /\ cli' = [cli EXCEPT ![c].pc = "idle", ![c].embedded = FALSE, ![c].ok = TRUE]
    /\ UNCHANGED <<cloud, ui, disk, node, task, due, fails, crashes, commands>>

Step(i) == List(i) \/ Write(i) \/ Read(i) \/ Inlet(i) \/ DeleteNode(i) \/ CreateInlet(i)
           \/ RefreshEnds(i) \/ Accept(i)

Next ==
    \/ Auth0 \/ SaveOwnProject \/ Tick
    \/ \E i \in Tasks : Step(i) \/ Refresh(i) \/ OnAccept(i)
    \/ \E n \in Nodes : Crash(n)
    \/ \E c \in Clis : RunCommand(c) \/ Request(c) \/ DeleteEmbeddedNode(c)

Spec == Init /\ [][Next]_vars

\* The runtime runs the tasks and the interval; the lock serves its queue in order.
FairSpec == /\ Spec /\ WF_vars(Tick) /\ WF_vars(\E i \in Tasks : Refresh(i))
            /\ \A i \in Tasks : WF_vars(Step(i)) /\ SF_vars(Write(i))

----------------------------------------------------------------------------
TypeOK ==
    /\ cloud.received \subseteq Ids /\ cloud.accepted \subseteq Ids
    /\ ui.received \subseteq Ids /\ ui.accepted \subseteq Ids /\ ui.readers \subseteq Tasks
    /\ node \in [Nodes -> {"none", "stopped", "running"}]
    /\ \A i \in Tasks : task[i].pc \in {"idle", "list", "write", "read", "inlet", "delete", "create", "accept"}

\* refresh_inlets runs nodes only for services the user has accepted an invitation
\* to, whatever refreshes and acceptances overlap.
InletsAccepted ==
    \A n \in Nodes : node[n] = "running" => \E k \in cloud.accepted : HasInlet(k) /\ NodeOf(k) = n

\* InletDataFromInvitation renames the project of the inviter "while keeping access
\* to its own default project": the project saved as "default" stays the user's.
OwnProjectKept == disk.named \in {"none", "own"}

\* The list that tasks work from does not change under them: while a refresh walks
\* through it, every invitation it has still to visit is listed as accepted.
ListStable == \A i \in Tasks : task[i].pc \in {"inlet", "delete", "create"} => ToSet(task[i].left) \subseteq ui.accepted

\* A share command that has succeeded leaves no embedded node behind.
EmbeddedNodeGone == \A c \in Clis : cli[c].pc = "idle" /\ cli[c].ok => ~cli[c].embedded

=============================================================================
