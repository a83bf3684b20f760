----------------------------- MODULE Orchestrator -----------------------------
(***************************************************************************)
(* The commands that manage an account of the Orchestrator: enrolling the  *)
(* identity of a machine (from the command line and from the desktop app), *)
(* spaces, projects, enrollment tickets, and requests to the services of   *)
(* a project.                                                              *)
(*                                                                         *)
(* A command is a list of steps.  Each is a request to the Orchestrator or *)
(* a change of the state directory of the machine; any of them can fail,   *)
(* the command can be killed between two, and other commands run at the    *)
(* same time.  A request that changes something may be carried out though  *)
(* its answer is lost, and the command then fails.                         *)
(*                                                                         *)
(* A space is its id.  x is [c, l, r]: the Orchestrator, the machine, and  *)
(* the command that runs; a step gives the set of its outcomes, none if it *)
(* has to wait.                                                            *)
(***************************************************************************)
EXTENDS Integers, Sequences, FiniteSets, SequencesExt

CONSTANTS
  Procs,      \* terminals of the machine
  Commands,   \* the commands they may run
  Starts,     \* accounts there may be at the start: [spaces, projects, next, tickets]
  ProjectNames, \* names of projects a user picks; "default" is one
  MaxRuns,    \* bound on the commands run
  MaxId       \* bound on the ids the Orchestrator gives out

VARIABLES cloud, local, proc, runs

vars == <<cloud, local, proc, runs>>

None == "none"
NoProject == [id |-> 0, name |-> None, space |-> 0, ready |-> FALSE]
Idle(p) == [p |-> p, cmd |-> None, todo |-> <<>>, space |-> 0, project |-> NoProject, 
            name |-> None, result |-> None]

Done(x) == [x EXCEPT !.r.todo = Tail(@)]
Then(x, steps) == [x EXCEPT !.r.todo = steps \o Tail(@)]

\* Commands whose embedded node is deleted whatever their result: project enroll
\* keeps the result aside, and an OrchestratorApiBuilder deletes it when dropped.
Cleanup(cmd) == IF cmd \in {"project_enroll", "lease"} THEN <<"delete_node">> ELSE <<>>

Failed(x) == [x EXCEPT !.r.todo = Cleanup(x.r.cmd), !.r.result = "error"]

\* One of the outcomes, if there is any.
OneOf(x, ys) == IF ys = {} THEN {Failed(x)} ELSE ys

\* A request that changes something: done, or done and the answer lost.
Asked(x, y) == {Done(y), [Failed(x) EXCEPT !.c = y.c]}

-----------------------------------------------------------------------------
(* The state directory: overwrite makes the first item the default one.    *)

SaveSpace(l, s) ==
  [l EXCEPT !.spaces = @ \cup {s}, !.defSpace = IF @ = 0 THEN s ELSE @]

SaveProject(l, q) ==
  [l EXCEPT !.projects[q.name] = q, !.defProject = IF @ = None THEN q.name ELSE @]

SaveTrust(x) == {Done([x EXCEPT !.l.trust[x.r.project.name] = x.r.project])}

StartNode(x) == {Done([x EXCEPT !.l.nodes = @ \cup {x.r.p}])}

DeleteNode(x) == {Done([x EXCEPT !.l.nodes = @ \ {x.r.p}])}

-----------------------------------------------------------------------------
(* OidcService *)

\* poll_token: until the user has answered in the browser.
PollToken(x) ==
  IF x.c.auth = "granted" THEN {Done(x)} ELSE IF x.c.auth = "denied" THEN {Failed(x)} ELSE {}

\* wait_for_authorization_code: a server on the redirect port.
ListenForCode(x) ==
  IF x.l.port = None THEN {Done([x EXCEPT !.l.port = x.r.p])} ELSE {Failed(x)}

\* The callback, or its timeout.
AuthorizationCode(x) ==
  (IF x.c.auth = "granted" THEN {Done([x EXCEPT !.l.port = None])} ELSE {})
    \cup {[Failed(x) EXCEPT !.l.port = None]}

WaitForEmail(x) == IF x.c.email THEN {Done(x)} ELSE {}

\* enroll_auth0: an identity that is already enrolled is fine.
EnrollWithNode(x) == Asked(x, [x EXCEPT !.c.enrolled = TRUE])

\* update_enrolled_identity
UpdateEnrolled(x) == {Done([x EXCEPT !.l.enrolled = TRUE])}

-----------------------------------------------------------------------------
(* Spaces *)

\* default_space: the first there is, or a new one.
DefaultSpace(x) ==
  IF x.c.spaces = <<>> THEN {Then(x, <<"create_space">>)}
  ELSE {Done([x EXCEPT !.l = SaveSpace(FoldLeft(SaveSpace, @, x.c.spaces), Head(x.c.spaces)),
                       !.r.space = Head(x.c.spaces)])}

\* retrieve_space of the app: the first by name, names being random.
RetrieveSpace(x) ==
  IF x.c.spaces = <<>> THEN {Then(x, <<"create_space">>)}
  ELSE {Done([x EXCEPT !.l = SaveSpace(@, s), !.r.space = s]) : s \in Range(x.c.spaces)}

CreateSpace(x) ==
  IF x.c.next > MaxId THEN {Failed(x)}
  ELSE Asked(x, [x EXCEPT !.c.spaces = Append(@, x.c.next), !.c.next = @ + 1,
                          !.l = SaveSpace(@, x.c.next), !.r.space = x.c.next])

ListSpaces(x) == {Done([x EXCEPT !.l = FoldLeft(SaveSpace, @, x.c.spaces)])}

\* The space a command names must be in the state directory.
GetSpace(x) == OneOf(x, {Done([x EXCEPT !.r.space = s]) : s \in x.l.spaces})

\* Only the space is forgotten: its projects stay in the state directory.
DeleteSpace(x) ==
  Asked(x, [x EXCEPT !.c.spaces = SelectSeq(@, LAMBDA s : s # x.r.space),
                     !.c.projects = SelectSeq(@, LAMBDA q : q.space # x.r.space),
                     !.l.spaces = @ \ {x.r.space},
                     !.l.defSpace = IF @ = x.r.space THEN 0 ELSE @])

-----------------------------------------------------------------------------
(* Projects *)

Show(x, id) == SelectSeq(x.c.projects, LAMBDA q : q.id = id)

\* default_project: of all the projects of the account the one named "default",
\* or the first, or a new one in the space.
DefaultProject(x) ==
  LET named == SelectSeq(x.c.projects, LAMBDA q : q.name = "default")
      chosen == IF named = <<>> THEN Head(x.c.projects) ELSE Head(named)
  IN IF x.c.projects = <<>>
     THEN {Then([x EXCEPT !.r.name = "default"], <<"create_project", "completion">>)}
     ELSE {Done([x EXCEPT !.l = FoldLeft(SaveProject, @, x.c.projects), !.r.project = chosen])}

\* retrieve_project of the app: by name, whether it is ready or not.
RetrieveProject(x) ==
  LET named == SelectSeq(x.c.projects, LAMBDA q : q.name = "default")
  IN IF named = <<>>
     THEN {Then([x EXCEPT !.r.name = "default"],
                <<"create_project", "completion", "get_project", "save">>)}
     ELSE {Done([x EXCEPT !.l = SaveProject(@, Head(named)), !.r.project = Head(named)])}

CreateProject(x) ==
  LET q == [id |-> x.c.next, name |-> x.r.name, space |-> x.r.space, ready |-> FALSE]
  IN IF x.c.next > MaxId \/ x.r.space \notin Range(x.c.spaces) THEN {Failed(x)}
     ELSE Asked(x, [x EXCEPT !.c.projects = Append(@, q), !.c.next = @ + 1, !.r.project = q])

\* Mutant: the operation is asked for without end.
CompletionForever(x) ==
  LET s == Show(x, x.r.project.id)
  IN IF s # <<>> /\ s[1].ready THEN {Done(x)} ELSE {}

\* check_for_completion, and wait_until_project_is_ready: until the operation has
\* completed, for a limited number of attempts.
Completion(x) ==
  LET s == Show(x, x.r.project.id)
  IN (IF s # <<>> /\ s[1].ready THEN {Done(x)} ELSE {}) \cup {Failed(x)}

\* The project again, now complete.
GetProject(x) ==
  LET s == Show(x, x.r.project.id)
  IN IF s = <<>> THEN {Failed(x)} ELSE {Done([x EXCEPT !.r.project = s[1]])}

\* check_project_readiness asks for the project until it is ready, or gives up.
WaitReady(x) ==
  LET s == Show(x, x.r.project.id)
  IN IF x.r.project.ready THEN {Done(x)}
     ELSE (IF s # <<>> /\ s[1].ready THEN {Done([x EXCEPT !.r.project = s[1]])} ELSE {})
            \cup {Failed(x)}

\* Connecting to the project, then a channel to it, and one to its authority;
\* each is tried a limited number of times.
Reach(x) == {Done(x), Failed(x)}
ChannelToProject(x) == IF x.r.project.ready THEN {Done(x), Failed(x)} ELSE {Failed(x)}
ChannelToAuthority(x) == IF x.r.project.ready THEN {Done(x), Failed(x)} ELSE {Failed(x)}

Save(x) == {Done([x EXCEPT !.l = SaveProject(@, x.r.project)])}

CheckReadiness == <<"save", "wait_ready", "reach", "channel_project", "channel_authority",
                    "save">>

ListProjects(x) == {Done([x EXCEPT !.l = FoldLeft(SaveProject, @, x.c.projects)])}

\* The id of a project by its name: from the state directory or, after a refresh
\* of it, from the Orchestrator.  A delete of a project that is unknown is done.
LookupProject(x) ==
  LET l == IF x.l.projects[x.r.name].id # 0 THEN x.l
           ELSE FoldLeft(SaveProject, x.l, x.c.projects)
  IN IF l.projects[x.r.name].id # 0
     THEN {Done([x EXCEPT !.l = l, !.r.project = l.projects[x.r.name]])}
     ELSE IF x.r.cmd = "project_delete" THEN {[x EXCEPT !.l = l, !.r.todo = <<>>]}
     ELSE {Failed([x EXCEPT !.l = l])}

\* The state directory may know an id the Orchestrator has forgotten.
DeleteProject(x) ==
  IF Show(x, x.r.project.id) = <<>> THEN {Failed(x)}
  ELSE Asked(x, [x EXCEPT !.c.projects = SelectSeq(@, LAMBDA q : q.id # x.r.project.id)])

ForgetProject(x) ==
  {Done([x EXCEPT !.l.projects[x.r.name] = NoProject,
                  !.l.defProject = IF @ = x.r.name THEN None ELSE @])}

-----------------------------------------------------------------------------
(* Tickets, and enrolling with a project *)

\* The project of the ticket must be known, with its authority.
TicketProject(x) ==
  OneOf(x, {Done([x EXCEPT !.r.project = q]) :
              q \in {q \in {x.l.projects[n] : n \in ProjectNames} : q.ready}})

CreateToken(x) ==
  Asked(x, [x EXCEPT !.c.tickets = @ \cup {[project |-> x.r.project, used |-> FALSE]}])

\* The ticket on the command line, used before or not, and its project.
ReadTicket(x) == OneOf(x, {Done([x EXCEPT !.r.project = t.project]) : t \in x.c.tickets})

\* Without --force, a trust context of another project with the same name is kept.
CheckTrustContext(x) ==
  IF x.l.trust[x.r.project.name].id \in {0, x.r.project.id} THEN {Done(x)} ELSE {Failed(x)}

\* A one-time code is taken once; the member is stored with the attributes.
PresentToken(x) ==
  LET t == [project |-> x.r.project, used |-> FALSE]
  IN IF t \notin x.c.tickets THEN {Failed(x)}
     ELSE Asked(x, [x EXCEPT !.c.tickets = (@ \ {t}) \cup {[t EXCEPT !.used = TRUE]},
                             !.c.members = @ \cup {x.r.project.id}])

\* The credential is only printed; the project and the trust context are saved.
Credential(x) == IF x.r.project.id \in x.c.members THEN {Done(x), Failed(x)} ELSE {Failed(x)}

\* retrieve_project_info: the default project.
DefaultProjectInfo(x) ==
  IF x.l.defProject = None \/ ~x.l.projects[x.l.defProject].ready THEN {Failed(x)}
  ELSE {Done([x EXCEPT !.r.project = x.l.projects[x.l.defProject]])}

-----------------------------------------------------------------------------
(* The commands *)

Enroll(token) == token \o <<"email", "start_node", "enroll", "default_space",
                   "default_project">> \o CheckReadiness
                   \o <<"save", "trust", "enrolled", "delete_node">>

AppEnroll == <<"listen", "code", "email", "enroll", "retrieve_space", "retrieve_project",
               "enrolled">>

ProjectCreate == <<"get_space", "start_node", "create_project", "completion">>
                   \o CheckReadiness \o <<"save", "trust", "delete_node">>

ProjectDelete == <<"get_space", "start_node", "lookup", "delete_project", "delete_node",
                   "forget">>

ProjectShow == <<"start_node", "lookup", "get_project", "save", "delete_node">>
ProjectList == <<"start_node", "list_projects", "delete_node">>
SpaceCreate == <<"start_node", "create_space", "delete_node">>
SpaceList == <<"start_node", "list_spaces", "delete_node">>
SpaceDelete == <<"get_space", "start_node", "delete_space", "delete_node">>

ProjectTicket == <<"start_node", "ticket_project", "channel_authority", "create_token",
                   "delete_node">>

ProjectEnroll == <<"start_node", "read_ticket", "check_trust", "channel_authority",
                   "present_token", "save", "trust", "credential", "delete_node">>

Lease == <<"start_node", "project_info", "channel_authority", "credential",
           "channel_project", "delete_node">>

Program(cmd) ==
  CASE cmd = "enroll" -> Enroll(<<"poll">>)
    [] cmd = "enroll_pkce" -> Enroll(<<"listen", "code">>)
    [] cmd = "app_enroll" -> AppEnroll
    [] cmd = "project_create" -> ProjectCreate
    [] cmd = "project_delete" -> ProjectDelete
    [] cmd = "project_show" -> ProjectShow
    [] cmd = "project_list" -> ProjectList
    [] cmd = "space_create" -> SpaceCreate
    [] cmd = "space_list" -> SpaceList
    [] cmd = "space_delete" -> SpaceDelete
    [] cmd = "project_ticket" -> ProjectTicket
    [] cmd = "project_enroll" -> ProjectEnroll
    [] cmd = "lease" -> Lease

Outcomes(s, x) ==
  CASE s = "poll" -> PollToken(x) [] s = "listen" -> ListenForCode(x)
    [] s = "code" -> AuthorizationCode(x) [] s = "email" -> WaitForEmail(x)
    [] s = "enroll" -> EnrollWithNode(x) [] s = "enrolled" -> UpdateEnrolled(x)
    [] s = "start_node" -> StartNode(x) [] s = "delete_node" -> DeleteNode(x)
    [] s = "default_space" -> DefaultSpace(x) [] s = "retrieve_space" -> RetrieveSpace(x)
    [] s = "create_space" -> CreateSpace(x) [] s = "list_spaces" -> ListSpaces(x)
    [] s = "get_space" -> GetSpace(x) [] s = "delete_space" -> DeleteSpace(x)
    [] s = "default_project" -> DefaultProject(x)
    [] s = "retrieve_project" -> RetrieveProject(x)
    [] s = "create_project" -> CreateProject(x) [] s = "completion" -> Completion(x)
    [] s = "get_project" -> GetProject(x) [] s = "wait_ready" -> WaitReady(x)
    [] s = "reach" -> Reach(x) [] s = "channel_project" -> ChannelToProject(x)
    [] s = "channel_authority" -> ChannelToAuthority(x) [] s = "save" -> Save(x)
    [] s = "trust" -> SaveTrust(x) [] s = "list_projects" -> ListProjects(x)
    [] s = "lookup" -> LookupProject(x) [] s = "delete_project" -> DeleteProject(x)
    [] s = "forget" -> ForgetProject(x) [] s = "ticket_project" -> TicketProject(x)
    [] s = "create_token" -> CreateToken(x) [] s = "read_ticket" -> ReadTicket(x)
    [] s = "check_trust" -> CheckTrustContext(x) [] s = "present_token" -> PresentToken(x)
    [] s = "credential" -> Credential(x) [] s = "project_info" -> DefaultProjectInfo(x)

-----------------------------------------------------------------------------
State(p) == [c |-> cloud, l |-> local, r |-> proc[p]]

Run(p, cmd, name) ==
  /\ proc[p].todo = <<>> /\ runs < MaxRuns
  /\ proc' = [proc EXCEPT ![p] = [Idle(p) EXCEPT !.cmd = cmd, !.todo = Program(cmd),
                                                  !.name = name]]
  /\ runs' = runs + 1
  /\ UNCHANGED <<cloud, local>>

\* One step; the command that has done its last one has succeeded.
Step(p) ==
  /\ proc[p].todo # <<>>
  /\ \E y \in Outcomes(Head(proc[p].todo), State(p)) :
       /\ cloud' = y.c /\ local' = y.l
       /\ proc' = [proc EXCEPT ![p] = IF y.r.todo = <<>> /\ y.r.result = None
                                      THEN [y.r EXCEPT !.result = "ok"] ELSE y.r]
  /\ UNCHANGED runs

\* Any step may fail: a request is refused or not answered, a file not written.
Fail(p) ==
  /\ proc[p].todo # <<>> /\ proc[p].result = None /\ Head(proc[p].todo) # "delete_node"
  /\ proc' = [proc EXCEPT ![p] = Failed(State(p)).r]
  /\ local' = [local EXCEPT !.port = IF @ = p THEN None ELSE @]
  /\ UNCHANGED <<cloud, runs>>

\* The user answers in the browser, verifies the address; a project gets ready.
Answer(a) ==
  /\ cloud.auth = "pending" /\ cloud' = [cloud EXCEPT !.auth = a]
  /\ UNCHANGED <<local, proc, runs>>

VerifyEmail ==
  /\ ~cloud.email /\ cloud' = [cloud EXCEPT !.email = TRUE]
  /\ UNCHANGED <<local, proc, runs>>

ProjectReady(i) ==
  /\ i \in 1..Len(cloud.projects) /\ ~cloud.projects[i].ready
  /\ cloud' = [cloud EXCEPT !.projects[i].ready = TRUE]
  /\ UNCHANGED <<local, proc, runs>>

Init ==
  /\ \E s \in Starts :
       cloud = [spaces |-> s.spaces, projects |-> s.projects, next |-> s.next,
                enrolled |-> FALSE, auth |-> "pending", email |-> FALSE,
                tickets |-> s.tickets, members |-> {}]
  /\ local = [spaces |-> {}, projects |-> [n \in ProjectNames |-> NoProject],
              trust |-> [n \in ProjectNames |-> NoProject], defSpace |-> 0,
              defProject |-> None, enrolled |-> FALSE, nodes |-> {}, port |-> None]
  /\ proc = [p \in Procs |-> Idle(p)]
  /\ runs = 0

Next ==
  \/ \E p \in Procs, cmd \in Commands, n \in ProjectNames : Run(p, cmd, n)
  \/ \E p \in Procs : Step(p) \/ Fail(p)
  \/ \E a \in {"granted", "denied"} : Answer(a)
  \/ VerifyEmail
  \/ \E i \in 1..MaxId : ProjectReady(i)

Spec == Init /\ [][Next]_vars /\ \A p \in Procs : WF_vars(Step(p))

-----------------------------------------------------------------------------
(* Properties *)

\* Ids are those given out; what is saved has the name it is saved under.
TypeOK ==
  /\ cloud.next \in 1..(MaxId + 1)
  /\ \A q \in Range(cloud.projects) : q.id \in 1..MaxId /\ q.name \in ProjectNames
  /\ \A n \in ProjectNames : local.projects[n].name \in {n, None}
  /\ local.nodes \subseteq Procs /\ local.port \in Procs \cup {None}

\* However often enrolling fails and is tried again, also after the answer to a
\* request was lost, the account gets at most one space and one project by it.
OneTrialSpace ==
  Len(cloud.spaces) <= 1 \/ \E s \in Starts : Len(s.spaces) >= Len(cloud.spaces)

\* An identity that the machine calls enrolled is known to the Orchestrator, and
\* a space and a project are saved with it.
EnrolledMeans ==
  local.enrolled => /\ cloud.enrolled /\ local.defSpace # 0 /\ local.defProject # None

\* A trust context is only saved for a project whose authority is known.
TrustContextReady == \A n \in ProjectNames : local.trust[n].id # 0 => local.trust[n].ready

\* A project is only joined with a token that was accepted: a trust context saved
\* by project enroll is of a project the identity is a member of.
EnrollWithTokenStep ==
  \A p \in Procs : proc[p].cmd = "project_enroll" /\ local.trust' # local.trust
     /\ proc'[p].todo # proc[p].todo => proc[p].project.id \in cloud.members
EnrollWithToken == [][EnrollWithTokenStep]_vars

\* Without --force, project enroll leaves the trust context of another project.
ConflictKeptStep ==
  \A p \in Procs : proc[p].cmd = "project_enroll" /\ proc'[p].todo # proc[p].todo =>
    \A n \in ProjectNames : local.trust'[n].id = local.trust[n].id \/ local.trust[n].id = 0
ConflictKept == [][ConflictKeptStep]_vars

\* project enroll and the requests to project services delete their embedded node
\* on every path that returns.
NodeDeleted ==
  \A p \in Procs : proc[p].cmd \in {"project_enroll", "lease"} /\ proc[p].todo = <<>>
     => p \notin local.nodes

\* Every command that is not waiting for the user returns: all attempts are
\* limited in number.
Returned(p) == proc[p].todo = <<>>
Answerable(p) == ~Returned(p) /\ cloud.auth # "pending" /\ cloud.email
CommandReturns == \A p \in Procs : Answerable(p) ~> Returned(p)

===============================================================================
