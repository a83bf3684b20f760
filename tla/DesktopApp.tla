----------------------------- MODULE DesktopApp -----------------------------
(***************************************************************************)
(* The desktop application (ockam_app/src): a node manager of its own, a   *)
(* model (the user and their outlets) kept in memory and in the identities *)
(* database, a tray menu, and the asynchronous tasks that the menu, the    *)
(* windows and the pollers spawn.  A task is a sequence of steps, one for  *)
(* each stretch between two awaits; tasks interleave at every step.        *)
(*                                                                         *)
(* Two tokio RwLocks matter: the one around the current NodeManagerWorker  *)
(* ("outer") and the one inside it around the NodeManager ("inner").  A    *)
(* writer that waits keeps new readers out.  Context::stop_worker answers  *)
(* before the worker is gone; starting a worker at an address still in use *)
(* is an error.  The application's own address is left out.                *)
(***************************************************************************)
EXTENDS Integers, Sequences, SequencesExt, FiniteSets

CONSTANTS Tasks,        \* slots for running tasks
          NoTask,
          Starts,       \* what earlier sessions have left: "new", "kept", "outlet"
          Outlets,      \* <<tcp address, worker address>>
          Emails,       \* BOOLEAN values for "the outlet form carries an e-mail address"
          MayReset, MayQuit,
          MaxClicks, MaxFails, MaxPolls  \* bounds

VARIABLES app, task, due, clicks, fails, polls

vars == <<app, task, due, clicks, fails, polls>>

Workers == {o[2] : o \in Outlets}
Addresses == Workers \cup {"nodemanager", "services", "collector"}
NoModel == [user |-> FALSE, outlets |-> <<>>]
Absent == [st |-> "none", gen |-> 0]
Idle == [todo |-> <<>>, rescue |-> <<>>, nm |-> 0, o |-> CHOOSE o \in Outlets : TRUE,
         enrolled |-> FALSE, outlets |-> {}, found |-> FALSE, worker |-> "none"]

----------------------------------------------------------------------------
(* Locks. *)
Waits(t, step) == t.todo # <<>> /\ Head(t.todo) = step
CanReadInner(a, g) == a.nms[g].w = NoTask /\ ~ \E u \in Tasks : Waits(task[u], "write") /\ task[u].nm = g
CanWriteInner(a, g) == a.nms[g].w = NoTask /\ a.nms[g].r = {}
CanReadOuter(a) == a.outerW = NoTask /\ ~ \E u \in Tasks : Waits(task[u], "lockOuter")
CanWriteOuter(a) == a.outerW = NoTask /\ a.outerR = {}
Release(a, i) == [a EXCEPT !.nms = [g \in DOMAIN a.nms |->
                              [a.nms[g] EXCEPT !.w = IF @ = i THEN NoTask ELSE @, !.r = @ \ {i}]],
                           !.outerW = IF @ = i THEN NoTask ELSE @, !.outerR = @ \ {i}]

Next1(t) == [t EXCEPT !.todo = Tail(t.todo)]
Done(a, t) == {[a |-> a, t |-> Next1(t), fail |-> FALSE]}

\* An error: the guards are dropped, and the caller's handling is what is left to do.
Error(a, t, i) == {[a |-> Release(a, i), t |-> [t EXCEPT !.todo = t.rescue, !.rescue = <<>>], fail |-> FALSE]}
\* The remote side or the operating system fails.
Faulty(a, t, i) == {[r EXCEPT !.fail = TRUE] : r \in Error(a, t, i)}

----------------------------------------------------------------------------
(* The model and its repository: the state is stored as a whole after each *)
(* change, in the database that the repository has open.                   *)
Store(a) == IF a.repo = a.dir THEN [a EXCEPT !.saved = a.model] ELSE a

ModelMut(a, model) == Store([a EXCEPT !.model = model])

SetUserInfo(a) == ModelMut(a, [a.model EXCEPT !.user = TRUE])
AddTcpOutlet(a, o, g) == ModelMut(a, [a.model EXCEPT !.outlets = Append(@, [o |-> o, gen |-> g, dir |-> a.dir])])

IsEnrolled(a) == a.default
Known(a, g) == a.nms[g].dir \in a.known

----------------------------------------------------------------------------
(* The node manager and its workers. *)
Stop(a, addrs) == [a EXCEPT !.addr = [x \in Addresses |->
                      IF x \in addrs /\ a.addr[x].st \in {"starting", "running"}
                      THEN [a.addr[x] EXCEPT !.st = "stopping"] ELSE a.addr[x]]]

\* NodeManagerWorker::stop gives up at the first default address, which is not in use.
\* The loop after it stops every worker of the node.
StopAll(a, t) == IF CanReadInner(a, a.cur) THEN Done(Stop(a, Addresses), t) ELSE {}

NewManager(a) == [dir |-> a.dir, project |-> a.default, outlets |-> {}, w |-> NoTask, r |-> {}]

\* make_node_manager_worker: the medic's collector must start; that the node manager
\* itself does is not looked at.
MakeNodeManager(a) ==
    LET g == Len(a.nms) + 1
        b == [a EXCEPT !.nms = Append(@, NewManager(a)), !.addr["collector"] = [st |-> "running", gen |-> g]]
    IN  IF b.addr["nodemanager"].st = "none"
        THEN [b EXCEPT !.addr["nodemanager"] = [st |-> "starting", gen |-> g]]
        ELSE b

Make(a, t, i) == IF a.addr["collector"].st = "none"
                 THEN Done(Release([MakeNodeManager(a) EXCEPT !.cur = Len(a.nms) + 1], i), t) \cup Faulty(a, t, i)
                 ELSE Error(a, t, i)

ResetNodeManager == <<"lockOuter", "stop", "make">>

\* NodeManager::create_outlet
CreateOutlet(a, g, o) == [a EXCEPT !.nms[g].outlets = @ \cup {o},
                                   !.addr[o[2]] = [st |-> "running", gen |-> g]]
CanCreateOutlet(a, o) == a.addr[o[2]].st = "none"

CreateRelay(a, t, i) == IF a.default
                        THEN Done([a EXCEPT !.relay = a.nms[a.cur].project], t) \cup Faulty(a, t, i)
                        ELSE Done(a, t)

----------------------------------------------------------------------------
(* The tasks. *)
EnrollWithToken == <<"user", "open", "enroll", "open", "space", "open", "project">>
EnrollUser == EnrollWithToken \o <<"events">> \o ResetNodeManager \o <<"relay">>

CreateServiceInvitation == <<"ticket", "open", "invite">>
TcpOutletCreate(email) == <<"clone", "write", "outlet", IF email THEN "saveOutlet" ELSE "saveLast">>
                          \o (IF email THEN CreateServiceInvitation ELSE <<>>)

Reset == <<"resetState">> \o ResetNodeManager \o <<"newRepo", "tray">>

RefreshProjects == <<"open", "list", "saveProjects">>
BuildTrayMenu == <<"menuEnrolled", "outerRead", "menuOutlets", "setMenu">>

\* enroll_user logs an error of enroll_with_token and goes on; the menu is rebuilt
\* whether a reset succeeds or not.
Rescue(program) == IF program = EnrollUser THEN <<"events">> \o ResetNodeManager \o <<"relay">>
                   ELSE IF program = Reset THEN <<"tray">> ELSE <<>>

Start(program) == [Idle EXCEPT !.todo = program, !.rescue = Rescue(program)]

----------------------------------------------------------------------------
(* Steps: the outcomes of the first step of task i. *)
Clone(a, t) == IF CanReadOuter(a) THEN Done(a, [t EXCEPT !.nm = a.cur]) ELSE {}
\* The worker is cloned, and its node manager read.
Open(a, t, i) == IF CanReadOuter(a) /\ CanReadInner(a, a.cur)
                 THEN Done([a EXCEPT !.nms[a.cur].r = @ \cup {i}], [t EXCEPT !.nm = a.cur]) ELSE {}
Write(a, t, i) == IF CanWriteInner(a, t.nm) THEN Done([a EXCEPT !.nms[t.nm].w = i], t) ELSE {}
LockOuter(a, t, i) == IF CanWriteOuter(a) THEN Done([a EXCEPT !.outerW = i], t) ELSE {}
OuterRead(a, t, i) == IF CanReadOuter(a) THEN Done([a EXCEPT !.outerR = @ \cup {i}], [t EXCEPT !.nm = a.cur]) ELSE {}

\* A request to the controller, made under the inner lock for an identity it must know.
Request(a, b, t, i) == IF Known(a, t.nm) THEN Done(Release(b, i), t) \cup Faulty(a, t, i) ELSE Error(a, t, i)

UserInfo(a, t, i) == Done(SetUserInfo(a), t) \cup Faulty(a, t, i)
EnrollAuth0(a, t, i) == Done(Release([a EXCEPT !.known = @ \cup {a.nms[t.nm].dir}], i), t) \cup Faulty(a, t, i)
RetrieveSpace(a, t, i) == Request(a, [a EXCEPT !.space = TRUE], t, i)

RetrieveProject(a, t, i) == Request(a, [a EXCEPT !.project = TRUE, !.default = TRUE], t, i)

\* CliState::reset; an error is logged, and the task goes on.
ResetState(a, t) ==
    Done([a EXCEPT !.dir = @ + 1, !.default = FALSE, !.saved = NoModel], t)
    \cup {[r EXCEPT !.fail = TRUE] : r \in Done(a, t)}

NewRepository(a, t) == Done([a EXCEPT !.repo = a.dir], t)

OutletStep(a, t, i) == IF CanCreateOutlet(a, t.o) THEN Done(CreateOutlet(a, t.nm, t.o), t) ELSE Error(a, t, i)
SaveOutlet(a, t) == Done(AddTcpOutlet(a, t.o, t.nm), t)

SaveLast(a, t, i) == Done(Release(AddTcpOutlet(a, t.o, t.nm), i), t)

\* The first outlet of the model with the TCP address, 0 if there is none.
OutletFor(a, tcp) == LET Same(x) == x.o[1] = tcp IN SelectInSeq(a.model.outlets, Same)

\* The ticket, for a project of the cached list; the outlet gives the service its route.
Ticket(a, t, i) ==
    LET k == OutletFor(a, t.o[1])
    IN  IF ~a.default \/ ~a.cached \/ k = 0 THEN Error(a, t, i)
        ELSE Done(a, [t EXCEPT !.worker = a.model.outlets[k].o[2]]) \cup Faulty(a, t, i)

Invite(a, t, i) == Request(a, [a EXCEPT !.invited = @ \cup {<<t.o[1], t.worker>>}], t, i)

ListProjects(a, t, i) == Request(a, a, [t EXCEPT !.found = a.project], i)
SaveProjects(a, t) == Done([a EXCEPT !.default = @ \/ t.found, !.cached = t.found], t)

\* The sections for outlets and invitations are built only when enrolled.
MenuEnrolled(a, t) == IF IsEnrolled(a) THEN Done(a, [t EXCEPT !.enrolled = TRUE])
                      ELSE Done(a, [t EXCEPT !.todo = <<"menuEnrolled", "setMenu">>])

MenuOutlets(a, t, i) == IF CanReadInner(a, t.nm)
                        THEN Done(Release(a, i), [t EXCEPT !.outlets = a.nms[t.nm].outlets]) ELSE {}
SetMenu(a, t) == Done([a EXCEPT !.tray = [enrolled |-> t.enrolled, outlets |-> t.outlets]], t)

\* The step at the head of the task.
Outcomes(a, t, i) ==
    LET s == Head(t.todo) IN
    CASE s = "clone" -> Clone(a, t)
      [] s = "open" -> Open(a, t, i)
      [] s = "write" -> Write(a, t, i)
      [] s = "lockOuter" -> LockOuter(a, t, i)
      [] s = "outerRead" -> OuterRead(a, t, i)
      [] s = "user" -> UserInfo(a, t, i)
      [] s = "enroll" -> EnrollAuth0(a, t, i)
      [] s = "space" -> RetrieveSpace(a, t, i)
      [] s = "project" -> RetrieveProject(a, t, i)
      [] s = "stop" -> StopAll(a, t)
      [] s = "make" -> Make(a, t, i)
      [] s = "relay" -> CreateRelay(a, t, i)
      [] s = "resetState" -> ResetState(a, t)
      [] s = "newRepo" -> NewRepository(a, t)
      [] s = "outlet" -> OutletStep(a, t, i)
      [] s = "saveOutlet" -> SaveOutlet(a, t)
      [] s = "saveLast" -> SaveLast(a, t, i)
      [] s = "ticket" -> Ticket(a, t, i)
      [] s = "invite" -> Invite(a, t, i)
      [] s = "list" -> ListProjects(a, t, i)
      [] s = "saveProjects" -> SaveProjects(a, t)
      [] s = "menuEnrolled" -> MenuEnrolled(a, t)
      [] s = "menuOutlets" -> MenuOutlets(a, t, i)
      [] s = "setMenu" -> SetMenu(a, t)
      [] OTHER -> Done(a, t)

\* The global events a step triggers.
Triggers(s) == CASE s = "events" -> {"tray", "projects"}
                 [] s \in {"saveProjects", "saveOutlet", "saveLast", "tray"} -> {"tray"}
                 [] OTHER -> {}

----------------------------------------------------------------------------
(* AppState::new, on the state directory that is left. *)
\* The outlets of the model are created again; one that cannot be is logged.
LoadOutlets(a) ==
    LET Loaded(x, m) == IF CanCreateOutlet(x, m.o) THEN CreateOutlet(x, 1, m.o) ELSE x
    IN  FoldLeft(Loaded, a, a.model.outlets)

LoadModelState(a) == [LoadOutlets([a EXCEPT !.model = a.saved]) EXCEPT
                         !.relay = a.default,
                         !.model.outlets = [k \in DOMAIN @ |-> [@[k] EXCEPT !.gen = 1]]]

\* The router is new, and with it every address.
Restarted(a) == [a EXCEPT !.nms = <<>>, !.addr = [x \in Addresses |-> Absent], !.outerW = NoTask,
                          !.outerR = {}, !.repo = a.dir, !.cached = FALSE]

Launched(a) ==
    LET b == LoadModelState([MakeNodeManager(Restarted(a)) EXCEPT !.cur = 1])
    IN  [b EXCEPT !.tray = [enrolled |-> a.default, outlets |-> IF a.default THEN b.nms[1].outlets ELSE {}]]

Blank == [dir |-> 0, default |-> FALSE, saved |-> NoModel, repo |-> 0, model |-> NoModel,
          nms |-> <<>>, cur |-> 1, outerW |-> NoTask, outerR |-> {}, addr |-> [x \in Addresses |-> Absent],
          relay |-> FALSE, known |-> {}, space |-> FALSE, project |-> FALSE, cached |-> FALSE,
          invited |-> {}, tray |-> [enrolled |-> FALSE, outlets |-> {}]]

\* Nothing; a user with a project; a project and an outlet.
Kept(os) == [Blank EXCEPT !.default = TRUE, !.known = {0}, !.project = TRUE, !.space = TRUE,
                          !.saved = [user |-> TRUE, outlets |-> os]]
LeftBy(start) == CASE start = "new" -> Blank [] start = "kept" -> Kept(<<>>)
                   [] start = "outlet" -> Kept(<<[o |-> <<"tcp1", "w1">>, gen |-> 1, dir |-> 0]>>)

Init ==
    /\ app \in {Launched(LeftBy(b)) : b \in Starts}
    /\ task = [i \in Tasks |-> Idle]
    /\ due = {"projects"}
    /\ clicks = 0 /\ fails = 0 /\ polls = 0

Free(i) == task[i].todo = <<>>
Spawn(i, t) == task' = [task EXCEPT ![i] = t]

Step(i) ==
    /\ ~Free(i)
    /\ \E r \in Outcomes(app, task[i], i) :
         /\ r.fail => fails < MaxFails
         /\ app' = r.a
         /\ task' = [task EXCEPT ![i] = IF r.t.todo = <<>> THEN Idle ELSE r.t]
         /\ due' = due \cup (IF r.fail THEN {} ELSE Triggers(Head(task[i].todo)))
         /\ fails' = fails + (IF r.fail THEN 1 ELSE 0)
    /\ UNCHANGED <<clicks, polls>>

\* The listener of a global event spawns its task.
SpawnTray(i) ==
    /\ Free(i) /\ "tray" \in due
    /\ Spawn(i, Start(BuildTrayMenu)) /\ due' = due \ {"tray"}
    /\ UNCHANGED <<app, clicks, fails, polls>>

SpawnRefresh(i) ==
    /\ Free(i) /\ "projects" \in due
    /\ Spawn(i, Start(RefreshProjects)) /\ due' = due \ {"projects"}
    /\ UNCHANGED <<app, clicks, fails, polls>>

Quiet == \A i \in Tasks : Free(i)

\* The interval of the projects plugin: at any time up to the bound, and when
\* nothing else runs.
Poll ==
    /\ "projects" \notin due /\ (polls < MaxPolls \/ Quiet)
    /\ due' = due \cup {"projects"} /\ polls' = IF polls < MaxPolls THEN polls + 1 ELSE polls
    /\ UNCHANGED <<app, task, clicks, fails>>

Click(i, t) ==
    /\ clicks < MaxClicks /\ Free(i)
    /\ Spawn(i, t) /\ clicks' = clicks + 1
    /\ UNCHANGED <<app, due, fails, polls>>

\* The items that the menu shows; the form for outlets is a window.
OnEnroll(i) == ~app.tray.enrolled /\ Click(i, Start(EnrollUser))
OnCreate(i) == app.tray.enrolled /\ \E o \in Outlets, e \in Emails :
                   Click(i, [Start(TcpOutletCreate(e)) EXCEPT !.o = o])
OnShare(i) == \E o \in app.tray.outlets : Click(i, [Start(CreateServiceInvitation) EXCEPT !.o = o])
OnReset(i) == MayReset /\ app.tray.enrolled /\ Click(i, Start(Reset))

\* std::process::exit, and the next launch.
QuitAndLaunch ==
    /\ MayQuit /\ clicks < MaxClicks
    /\ app' = Launched(app) /\ task' = [i \in Tasks |-> Idle] /\ due' = {"projects"}
    /\ clicks' = clicks + 1
    /\ UNCHANGED <<fails, polls>>

\* A worker that was stopped is gone; the node manager's shutdown reads the inner lock.
Gone(x) ==
    /\ app.addr[x].st = "stopping"
    /\ x = "nodemanager" => CanReadInner(app, app.addr[x].gen)
    /\ app' = [app EXCEPT !.addr[x] = Absent]
    /\ UNCHANGED <<task, due, clicks, fails, polls>>

\* NodeManagerWorker::initialize starts the default services, under the inner lock.
Initialize ==
    /\ app.addr["nodemanager"].st = "starting"
    /\ LET g == app.addr["nodemanager"].gen IN
       /\ CanWriteInner(app, g)
       /\ app' = IF app.addr["services"].st = "none"
                 THEN [app EXCEPT !.addr["services"] = [st |-> "running", gen |-> g],
                                  !.addr["nodemanager"].st = "running"]
                 ELSE [app EXCEPT !.addr["nodemanager"] = Absent]
    /\ UNCHANGED <<task, due, clicks, fails, polls>>

Next ==
    \/ \E i \in Tasks : Step(i) \/ SpawnTray(i) \/ SpawnRefresh(i)
                        \/ OnEnroll(i) \/ OnCreate(i) \/ OnShare(i) \/ OnReset(i)
    \/ Poll \/ QuitAndLaunch \/ Initialize
    \/ \E x \in Addresses : Gone(x)

Spec == Init /\ [][Next]_vars

\* The runtime runs every task, and every worker that is stopped or started.
Fairness == /\ \A i \in Tasks : WF_vars(Step(i))
            /\ WF_vars(\E i \in Tasks : SpawnTray(i)) /\ WF_vars(\E i \in Tasks : SpawnRefresh(i))
            /\ WF_vars(Poll) /\ WF_vars(Initialize) /\ WF_vars(\E x \in Addresses : Gone(x))

FairSpec == Spec /\ Fairness

----------------------------------------------------------------------------
(* Properties. *)
Resetting == \E i \in Tasks : Waits(task[i], "make")

TypeOK ==
    /\ app.dir \in Nat /\ app.default \in BOOLEAN /\ app.cur \in DOMAIN app.nms
    /\ \A g \in DOMAIN app.nms : /\ app.nms[g].w \in Tasks \cup {NoTask} /\ app.nms[g].r \subseteq Tasks
                                 /\ app.nms[g].outlets \subseteq Outlets
    /\ \A x \in Addresses : app.addr[x].st \in {"none", "starting", "running", "stopping"}
    /\ due \subseteq {"tray", "projects"}

\* A NodeManager guarded by the inner RwLock never has a writer together with
\* another holder, and a task that has ended holds neither lock: the guards are
\* dropped on every return, error or not.
LocksHeld ==
    /\ \A g \in DOMAIN app.nms : app.nms[g].w # NoTask => app.nms[g].r = {}
    /\ \A i \in Tasks : Free(i) => /\ app.outerW # i /\ i \notin app.outerR
                                   /\ \A g \in DOMAIN app.nms : app.nms[g].w # i /\ i \notin app.nms[g].r

\* The outlets a restart would recreate are those the user has: every outlet that
\* the current node manager lists is in the model once no task is creating one, and
\* every outlet of the model created in the current node manager is listed.
OutletsRemembered ==
    /\ Quiet => \A o \in app.nms[app.cur].outlets :
                    \E k \in DOMAIN app.model.outlets : app.model.outlets[k].o = o
    /\ \A k \in DOMAIN app.model.outlets :
           app.model.outlets[k].gen = app.cur => app.model.outlets[k].o \in app.nms[app.cur].outlets

\* The model is stored every time it is modified, so the database holds what is
\* in memory, and a launch loads it.
ModelStored == app.saved.user = app.model.user /\ Len(app.saved.outlets) = Len(app.model.outlets)

\* The worker that answers at the address of the node manager is the current one
\* once it has been replaced: none of an older generation goes on running.
OneNodeManager ==
    ~Resetting /\ app.addr["nodemanager"].st = "running" => app.addr["nodemanager"].gen = app.cur

\* The menu offers what needs a project only when there is a default project that
\* the orchestrator has and whose owner is known to it.
EnrolledHasProject == app.default => app.project /\ app.known # {}

\* build_args_for_create_service_invitation: "outlet should exist": an invitation
\* names the worker of an outlet that leads to the address being shared.
InvitedOutletExists == app.invited \subseteq app.nms[app.cur].outlets

=============================================================================
