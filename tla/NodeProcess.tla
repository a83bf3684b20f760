----------------------------- MODULE NodeProcess -----------------------------
(***************************************************************************)
(* The life of the process of one node: `ockam node create`, `start`,      *)
(* `stop` and `delete` run by users at terminals, and the background       *)
(* process `ockam node create --foreground --child-process` that they      *)
(* spawn, signal and find again through the pid file and the setup file of *)
(* the node.                                                               *)
(*                                                                         *)
(* Process ids are not reused within a behaviour.  The TCP port 0 lets the *)
(* system choose a free port, which is modelled by the id of the process.  *)
(***************************************************************************)
EXTENDS Naturals, FiniteSets, FiniteSetTheorems, TLAPS

CONSTANTS Users,      \* terminals, each running one command at a time
          Signals,    \* signals that stop and delete send: "TERM", "KILL" (--force)
          MaxPid,     \* processes spawned
          MaxCrashes, \* processes that end by themselves
          MaxCmds     \* commands started

ASSUME NodeProcessAssumption == MaxPid \in Nat /\ Signals \subseteq {"TERM", "KILL"}

VARIABLES exists,    \* the state directory of the node
          pidFile,   \* contents of the pid file, 0 if there is none
          transport, \* api_transport of the setup file: a port, 0 if unset
          st, port,  \* state and TCP listener address of each process
          held,      \* pid read by the shutdown of a process from the pid file
          cmd,       \* command and program counter of each user
          pids, crashes, cmds

vars == <<exists, pidFile, transport, st, port, held, cmd, pids, crashes, cmds>>
files == <<exists, pidFile, transport>>
Pids == 1 .. MaxPid

NoCmd == [op |-> "none", pc |-> "idle", child |-> 0, sig |-> "TERM", res |-> "none"]

Init == /\ exists = FALSE /\ pidFile = 0 /\ transport = 0
        /\ st = [k \in Pids |-> "none"]
        /\ port = [k \in Pids |-> 0]
        /\ held = [k \in Pids |-> 0]
        /\ cmd = [u \in Users |-> NoCmd]
        /\ pids = 0 /\ crashes = 0 /\ cmds = 0

-----------------------------------------------------------------------------
(* The operating system.                                                   *)

Alive(k) == k # 0 /\ st[k] \notin {"none", "dead"}
Bound(k) == st[k] \in {"bound", "pid", "setup", "up", "stopping", "closing"}
IsRunning == Alive(pidFile)

\* The handler of SIGTERM is installed once the node is up, and runs once
AfterSignal(k, sig) ==
  CASE ~ Alive(k) -> st
    [] Alive(k) /\ sig = "TERM" /\ st[k] = "up" -> [st EXCEPT ![k] = "stopping"]
    [] Alive(k) /\ sig = "TERM" /\ st[k] \in {"stopping", "closing"} -> st
    [] OTHER -> [st EXCEPT ![k] = "dead"]

-----------------------------------------------------------------------------
(* Commands.                                                               *)

At(u, op, pc) == cmd[u].op = op /\ cmd[u].pc = pc
Goto(u, pc) == cmd' = [cmd EXCEPT ![u].pc = pc]
Done(u, res) == cmd' = [cmd EXCEPT ![u] = [NoCmd EXCEPT !.op = cmd[u].op, !.res = res]]

Begin(u, op) == /\ cmd[u].pc = "idle" /\ cmds < MaxCmds
                /\ cmds' = cmds + 1
                /\ \E s \in Signals :
                     cmd' = [cmd EXCEPT ![u] = [NoCmd EXCEPT !.op = op, !.pc = "begin", !.sig = s]]
                /\ UNCHANGED <<files, st, port, held, pids, crashes>>

CreateCheckUnseen(u) == /\ At(u, "create", "begin")
                        /\ Goto(u, "init")
                        /\ UNCHANGED <<files, st, port, held, pids, crashes, cmds>>

\* CreateCommand::run and init_node_state: a node whose process is alive is left
\* alone, any other gets a fresh setup file; its pid file stays
CreateCheck(u) == /\ At(u, "create", "begin")
                  /\ IF exists /\ IsRunning THEN Done(u, "running") ELSE Goto(u, "init")
                  /\ UNCHANGED <<files, st, port, held, pids, crashes, cmds>>
CreateInit(u) == /\ At(u, "create", "init")
                 /\ exists' = TRUE /\ transport' = 0
                 /\ Goto(u, "spawn")
                 /\ UNCHANGED <<pidFile, st, port, held, pids, crashes, cmds>>

\* StartCommand: a pid file left by a dead process is removed first, and the
\* node listens on the port of its setup file again
StartCheck(u) ==
  /\ At(u, "start", "begin")
  /\ IF ~ exists THEN Done(u, "err") /\ UNCHANGED <<pidFile, st>>
     ELSE IF IsRunning THEN Done(u, "running") /\ UNCHANGED <<pidFile, st>>
     ELSE /\ pidFile' = 0 /\ st' = AfterSignal(pidFile, "TERM")
          /\ IF transport = 0 THEN Done(u, "err") ELSE Goto(u, "spawn")
  /\ UNCHANGED <<exists, transport, port, held, pids, crashes, cmds>>

\* run_ockam: spawn the child, then write its id into the pid file
Spawn(u) == /\ cmd[u].op \in {"create", "start"} /\ cmd[u].pc = "spawn"
            /\ IF exists
                 THEN /\ pids < MaxPid
                      /\ pids' = pids + 1
                      /\ st' = [st EXCEPT ![pids + 1] = "spawned"]
                      /\ port' = [port EXCEPT ![pids + 1] = IF cmd[u].op = "start" /\ transport # 0
                                                              THEN transport ELSE pids + 1]
                      /\ cmd' = [cmd EXCEPT ![u].child = pids + 1, ![u].pc = "setpid"]
                 ELSE Done(u, "err") /\ UNCHANGED <<pids, st, port>>
            /\ UNCHANGED <<files, held, crashes, cmds>>
ParentSetPid(u) == /\ cmd[u].pc = "setpid"
                   /\ IF exists THEN pidFile' = cmd[u].child /\ Goto(u, "wait")
                      ELSE Done(u, "err") /\ UNCHANGED pidFile
                   /\ UNCHANGED <<exists, transport, st, port, held, pids, crashes, cmds>>

\* is_node_up: ask whoever listens on the port of the setup file, up to 60 times
WaitUp(u) == /\ cmd[u].pc = "wait"
             /\ exists /\ transport # 0 /\ \E k \in Pids : st[k] = "up" /\ port[k] = transport
             /\ Done(u, "up")
             /\ UNCHANGED <<files, st, port, held, pids, crashes, cmds>>
\* the answer of is_node_up is ignored by create, and printed as DOWN by start
WaitEnds(u) == /\ cmd[u].pc = "wait"
               /\ Done(u, IF ~ exists THEN "err" ELSE IF cmd[u].op = "create" THEN "created" ELSE "down")
               /\ UNCHANGED <<files, st, port, held, pids, crashes, cmds>>

KillProcessOnlyIfUp(u) ==
  /\ cmd[u].op \in {"stop", "delete"} /\ cmd[u].pc = "begin"
  /\ IF ~ exists THEN Done(u, IF cmd[u].op = "delete" THEN "ok" ELSE "err") /\ UNCHANGED st
     ELSE /\ st' = IF \E k \in Pids : st[k] = "up" THEN AfterSignal(pidFile, cmd[u].sig) ELSE st
          /\ IF pidFile # 0 THEN Goto(u, "rmpid")
             ELSE IF cmd[u].op = "delete" THEN Goto(u, "rmdir") ELSE Done(u, "ok")
  /\ UNCHANGED <<files, port, held, pids, crashes, cmds>>

\* NodeState::kill_process of stop and delete: signal, then remove the file
KillProcess(u) ==
  /\ cmd[u].op \in {"stop", "delete"} /\ cmd[u].pc = "begin"
  /\ IF ~ exists THEN Done(u, IF cmd[u].op = "delete" THEN "ok" ELSE "err") /\ UNCHANGED st
     ELSE /\ st' = AfterSignal(pidFile, cmd[u].sig)
          /\ IF pidFile # 0 THEN Goto(u, "rmpid")
             ELSE IF cmd[u].op = "delete" THEN Goto(u, "rmdir") ELSE Done(u, "ok")
  /\ UNCHANGED <<files, port, held, pids, crashes, cmds>>
RemovePid(u) == /\ cmd[u].pc = "rmpid"
                /\ pidFile' = 0
                /\ IF pidFile = 0 THEN Done(u, "err")
                   ELSE IF cmd[u].op = "delete" THEN Goto(u, "rmdir") ELSE Done(u, "ok")
                /\ UNCHANGED <<exists, transport, st, port, held, pids, crashes, cmds>>

RemoveDir(u) == /\ At(u, "delete", "rmdir")
                /\ exists' = FALSE /\ pidFile' = 0 /\ transport' = 0
                /\ Done(u, IF exists THEN "ok" ELSE "err")
                /\ UNCHANGED <<st, port, held, pids, crashes, cmds>>

-----------------------------------------------------------------------------
(* The background process: run_foreground_node.                            *)

Becomes(k, s) == st' = [st EXCEPT ![k] = s]
Alone == UNCHANGED <<port, cmd, pids, crashes, cmds>>

Listen(k) == /\ st[k] = "spawned"
             /\ Becomes(k, IF \E q \in Pids \ {k} : Bound(q) /\ port[q] = port[k] THEN "dead" ELSE "bound")
             /\ UNCHANGED <<files, held>> /\ Alone
SetPid(k) == /\ st[k] = "bound"
             /\ Becomes(k, IF exists THEN "pid" ELSE "dead")
             /\ pidFile' = IF exists THEN k ELSE pidFile
             /\ UNCHANGED <<exists, transport, held>> /\ Alone
SetSetup(k) == /\ st[k] = "pid"
               /\ Becomes(k, IF exists THEN "setup" ELSE "dead")
               /\ transport' = IF exists THEN port[k] ELSE transport
               /\ UNCHANGED <<exists, pidFile, held>> /\ Alone
\* NodeManager::create and its services, then wait for a signal
Serve(k) == /\ st[k] = "setup"
            /\ Becomes(k, "up")
            /\ UNCHANGED <<files, held>> /\ Alone

\* After a signal the process calls kill_process for its own node
ShutdownKill(k) == /\ st[k] = "stopping" /\ held[k] = 0
                   /\ IF exists /\ pidFile # 0
                        THEN /\ held' = [held EXCEPT ![k] = pidFile]
                             /\ st' = AfterSignal(pidFile, "TERM")
                        ELSE Becomes(k, "closing") /\ UNCHANGED held
                   /\ UNCHANGED files /\ Alone
ShutdownRemovePid(k) == /\ st[k] = "stopping" /\ held[k] # 0
                        /\ pidFile' = 0
                        /\ Becomes(k, "closing")
                        /\ UNCHANGED <<exists, transport, held>> /\ Alone
ShutdownEnd(k) == /\ st[k] = "closing"
                  /\ Becomes(k, "dead")
                  /\ UNCHANGED <<files, held>> /\ Alone

Crash(k) == /\ Alive(k) /\ crashes < MaxCrashes
            /\ crashes' = crashes + 1
            /\ Becomes(k, "dead")
            /\ UNCHANGED <<files, held, port, cmd, pids, cmds>>

-----------------------------------------------------------------------------
Command(u) == \/ CreateCheck(u) \/ CreateInit(u) \/ StartCheck(u) \/ Spawn(u) \/ ParentSetPid(u)
              \/ WaitUp(u) \/ WaitEnds(u) \/ KillProcess(u) \/ RemovePid(u) \/ RemoveDir(u)
Process(k) == \/ Listen(k) \/ SetPid(k) \/ SetSetup(k) \/ Serve(k)
              \/ ShutdownKill(k) \/ ShutdownRemovePid(k) \/ ShutdownEnd(k)
Next == \/ \E u \in Users : Command(u) \/ \E op \in {"create", "start", "stop", "delete"} : Begin(u, op)
        \/ \E k \in Pids : Process(k) \/ Crash(k)

Spec == Init /\ [][Next]_vars

\* The scheduler of the operating system lets every process run
FairSpec == Spec /\ \A k \in Pids : WF_vars(Process(k))

-----------------------------------------------------------------------------
\* Types of the files, the processes and the commands.
Cmd == [op : {"none", "create", "start", "stop", "delete"},
        pc : {"idle", "begin", "init", "spawn", "setpid", "wait", "rmpid", "rmdir"},
        child : 0 .. MaxPid, sig : {"TERM", "KILL"},
        res : {"none", "running", "err", "up", "created", "down", "ok"}]
TypeOK == /\ exists \in BOOLEAN /\ pidFile \in 0 .. MaxPid /\ transport \in 0 .. MaxPid
          /\ st \in [Pids -> {"none", "spawned", "bound", "pid", "setup", "up", "stopping", "closing", "dead"}]
          /\ port \in [Pids -> 0 .. MaxPid] /\ held \in [Pids -> 0 .. MaxPid]
          /\ cmd \in [Users -> Cmd] /\ \A u \in Users : cmd[u].child <= pids
          /\ pids \in 0 .. MaxPid /\ (~ exists => pidFile = 0 /\ transport = 0)

\* A process that handles SIGTERM, and one that goes about its work.
Ending(k) == st[k] \in {"stopping", "closing"}
Active(k) == Alive(k) /\ ~ Ending(k)

\* No process in its shutdown has found a pid file.  Where one has, it signals the
\* process it finds there and removes the file, which may be its successor's.
Undisturbed == \A k \in Pids : held[k] = 0

\* One user never runs two processes of a node besides those that are shutting
\* down: create and start look for a live process behind the pid file, and the
\* parent writes that file before it lets go of the child.  With --force this is at
\* most one process at any time; otherwise it holds until the shutdown of a process
\* finds a pid file.
AtMostOneProcess == Undisturbed => Cardinality({k \in Pids : Active(k)}) <= 1

\* A deleted node leaves no process behind that could come up: delete signals the
\* process of the pid file, and a child without its directory exits.
NoGhost == Undisturbed /\ ~ exists => \A k \in Pids : st[k] \notin {"setup", "up"}

\* Why there is at most one process of a node of one user: an active process is
\* behind the pid file, or it is the child whose id is about to be written there;
\* where the user spawns or removes files, none is active.
OneUserInv(u) ==
  /\ TypeOK
  /\ \A k \in Pids : k > pids => st[k] = "none"
  /\ Undisturbed => \A k \in Pids : Active(k) =>
       /\ exists /\ k = IF cmd[u].pc = "setpid" THEN cmd[u].child ELSE pidFile
       /\ cmd[u].pc \notin {"init", "spawn", "rmpid", "rmdir"}
OneUser == \A u \in Users : OneUserInv(u)

\* A process that was told to terminate ends and releases its port.
Ended(k) == st[k] = "dead"
StopEnds == \A k \in Pids : Ending(k) ~> Ended(k)

-----------------------------------------------------------------------------
(* Proofs, for any number of processes, crashes and commands.              *)

\* A signal ends the process, or sends one that is up into its shutdown.
LEMMA SignalType ==
  ASSUME TypeOK, NEW k \in 0 .. MaxPid, NEW s
  PROVE  /\ AfterSignal(k, s) \in [Pids -> {"none", "spawned", "bound", "pid", "setup", "up", "stopping", "closing", "dead"}]
         /\ \A q \in Pids : AfterSignal(k, s)[q] # st[q] => q = k /\ AfterSignal(k, s)[q] \in {"stopping", "dead"}
         /\ ~ Alive(k) => AfterSignal(k, s) = st
         /\ Alive(k) => AfterSignal(k, s)[k] \in {"stopping", "closing", "dead"}
         /\ \A q \in Pids : st[q] = "none" => AfterSignal(k, s)[q] = "none"
<1>1. Alive(k) => k \in Pids
  BY NodeProcessAssumption DEF Active, Ending, Alive, Pids
<1> QED BY <1>1 DEF AfterSignal, Active, Ending, Alive, TypeOK

\* What a command does to its own record when it goes on ...
LEMMA GotoType ==
  ASSUME TypeOK, NEW u \in Users,
         NEW p \in {"idle", "begin", "init", "spawn", "setpid", "wait", "rmpid", "rmdir"}
  PROVE  /\ [cmd EXCEPT ![u].pc = p] \in [Users -> Cmd]
         /\ [cmd EXCEPT ![u].pc = p][u] = [cmd[u] EXCEPT !.pc = p]
         /\ [cmd[u] EXCEPT !.pc = p].child = cmd[u].child /\ [cmd[u] EXCEPT !.pc = p].pc = p
         /\ [cmd[u] EXCEPT !.pc = p].sig = cmd[u].sig
BY DEF TypeOK, Cmd

\* ... and when it is done.
LEMMA DoneType ==
  ASSUME TypeOK, NEW u \in Users, NEW r \in {"none", "running", "err", "up", "created", "down", "ok"}, Done(u, r)
  PROVE  cmd' \in [Users -> Cmd] /\ cmd'[u].child = 0 /\ cmd'[u].pc = "idle"
<1> DEFINE c == [NoCmd EXCEPT !.op = cmd[u].op, !.res = r]
<1>1. 0 \in 0 .. MaxPid /\ cmd \in [Users -> Cmd]
  BY NodeProcessAssumption DEF TypeOK
<1>2. c \in Cmd /\ c.child = 0 /\ c.pc = "idle"
  BY Zenon, <1>1 DEF NoCmd, Cmd
<1>3. cmd' = [cmd EXCEPT ![u] = c]
  BY DEF Done
<1> HIDE DEF c
<1> QED BY <1>1, <1>2, <1>3

\* Where the command stands decides what may be alive: the step of a command that
\* leaves the processes, or only ends them, is judged by its next place.
LEMMA CommandKeeps ==
  ASSUME NEW u, Users = {u}, OneUserInv(u),
         cmd' \in [Users -> Cmd], cmd'[u].child \in {0, cmd[u].child},
         UNCHANGED <<port, held, pids>>,
         st' \in [Pids -> {"none", "spawned", "bound", "pid", "setup", "up", "stopping", "closing", "dead"}],
         \A k \in Pids : st[k] = "none" => st'[k] = "none",
         exists' \in BOOLEAN, pidFile' \in 0 .. MaxPid, transport' \in 0 .. MaxPid,
         ~ exists' => pidFile' = 0 /\ transport' = 0,
         Undisturbed => \A k \in Pids : Active(k)' =>
           /\ exists' /\ k = IF cmd'[u].pc = "setpid" THEN cmd'[u].child ELSE pidFile'
           /\ cmd'[u].pc \notin {"init", "spawn", "rmpid", "rmdir"}
  PROVE  OneUserInv(u)'
<1>1. TypeOK'
  <2>1. cmd'[u].child <= pids
    BY NodeProcessAssumption DEF OneUserInv, TypeOK, Cmd
  <2> QED BY <2>1 DEF OneUserInv, TypeOK
<1>2. \A k \in Pids : k > pids' => st'[k] = "none"
  BY DEF OneUserInv
<1>3. Undisturbed' <=> Undisturbed
  BY DEF Undisturbed
<1> QED BY Zenon, <1>1, <1>2, <1>3 DEF OneUserInv

\* The commands of the only user.
LEMMA OneUserCommand ==
  ASSUME NEW u, Users = {u}, OneUserInv(u),
         Command(u) \/ \E op \in {"create", "start", "stop", "delete"} : Begin(u, op)
  PROVE  OneUserInv(u)'
<1> DEFINE Same == UNCHANGED <<files, st, port, held, pids>>
<1>1. u \in Users /\ TypeOK /\ 0 \in 0 .. MaxPid /\ cmd[u] \in Cmd
  BY NodeProcessAssumption DEF OneUserInv, TypeOK
<1>2. ASSUME NEW p \in {"idle", "begin", "init", "spawn", "setpid", "wait", "rmpid", "rmdir"},
             cmd' = [cmd EXCEPT ![u].pc = p]
      PROVE  cmd' \in [Users -> Cmd] /\ cmd'[u].child = cmd[u].child /\ cmd'[u].pc = p
  BY <1>1, <1>2, GotoType
<1>3. ASSUME NEW r \in {"none", "running", "err", "up", "created", "down", "ok"}, Done(u, r)
      PROVE  cmd' \in [Users -> Cmd] /\ cmd'[u].child = 0 /\ cmd'[u].pc = "idle"
  BY Zenon, <1>1, <1>3, DoneType
<1>5. CASE \E op \in {"create", "start", "stop", "delete"} : Begin(u, op)
  <2>1. PICK op \in {"create", "start", "stop", "delete"} : Begin(u, op)
    BY <1>5
  <2>5. PICK sig \in Signals :
          cmd' = [cmd EXCEPT ![u] = [NoCmd EXCEPT !.op = op, !.pc = "begin", !.sig = sig]]
    BY Zenon, <2>1 DEF Begin
  <2> DEFINE c == [NoCmd EXCEPT !.op = op, !.pc = "begin", !.sig = sig]
  <2>6. sig \in {"TERM", "KILL"}
    BY NodeProcessAssumption
  <2>2. c \in Cmd /\ c.child = 0 /\ c.pc = "begin"
    BY ZenonT(60), <1>1, <2>6 DEF NoCmd, Cmd
  <2>3. cmd' = [cmd EXCEPT ![u] = c] /\ cmd[u].pc = "idle" /\ Same
    BY Zenon, <2>1, <2>5 DEF Begin, files
  <2> HIDE DEF c
  <2>4. cmd' \in [Users -> Cmd] /\ cmd'[u] = c
    BY <1>1, <2>2, <2>3 DEF TypeOK
  <2> QED BY Zenon, <1>1, <2>2, <2>3, <2>4, CommandKeeps DEF OneUserInv, TypeOK, files, Active, Ending, Alive
<1>6. CASE CreateCheck(u) \/ WaitUp(u) \/ WaitEnds(u)
  <2>1. \/ \E r \in {"none", "running", "err", "up", "created", "down", "ok"} : Done(u, r)
        \/ cmd' = [cmd EXCEPT ![u].pc = "init"] /\ ~ (exists /\ IsRunning) /\ cmd[u].pc = "begin"
    BY Zenon, <1>6 DEF CreateCheck, WaitUp, WaitEnds, Goto, At
  <2>2. Same /\ cmd[u].pc \in {"begin", "wait"}
    BY Zenon, <1>6 DEF CreateCheck, WaitUp, WaitEnds, At, files
  <2>3. cmd' \in [Users -> Cmd] /\ cmd'[u].child \in {0, cmd[u].child}
        /\ (cmd'[u].pc # "idle" => cmd'[u].pc = "init" /\ ~ (exists /\ IsRunning))
    BY Zenon, <1>2, <1>3, <2>1
  <2> QED BY <1>1, <2>2, <2>3, CommandKeeps DEF OneUserInv, TypeOK, files, Active, Ending, Alive, IsRunning
<1>7. CASE CreateInit(u)
  <2>1. cmd' = [cmd EXCEPT ![u].pc = "spawn"] /\ cmd[u].pc = "init" /\ exists' = TRUE /\ transport' = 0
        /\ UNCHANGED <<pidFile, st, port, held, pids>>
    BY <1>7 DEF CreateInit, At, Goto
  <2>2. cmd' \in [Users -> Cmd] /\ cmd'[u].child = cmd[u].child /\ cmd'[u].pc = "spawn"
    BY <1>2, <2>1
  <2> QED BY <1>1, <2>1, <2>2, CommandKeeps DEF OneUserInv, TypeOK, Active, Ending, Alive
<1>8. CASE StartCheck(u)
  <2>1. UNCHANGED <<exists, transport, port, held, pids>> /\ cmd[u].pc = "begin"
    BY Zenon, <1>8 DEF StartCheck, At
  <2>2. CASE UNCHANGED <<pidFile, st>> /\ (Done(u, "err") \/ Done(u, "running"))
    <3>1. cmd' \in [Users -> Cmd] /\ cmd'[u].child = 0 /\ cmd'[u].pc = "idle"
      BY Zenon, <1>3, <2>2
    <3> QED BY <1>1, <2>1, <2>2, <3>1, CommandKeeps DEF OneUserInv, TypeOK, Active, Ending, Alive
  <2>3. CASE exists /\ ~ IsRunning /\ pidFile' = 0 /\ st' = AfterSignal(pidFile, "TERM")
             /\ (Done(u, "err") \/ cmd' = [cmd EXCEPT ![u].pc = "spawn"])
    <3>1. st' = st
      BY <1>1, <2>3, SignalType DEF IsRunning, TypeOK
    <3>2. /\ cmd' \in [Users -> Cmd] /\ cmd'[u].child \in {0, cmd[u].child} /\ cmd'[u].pc \in {"idle", "spawn"}
      BY <1>2, <1>3, <2>3
    <3>3. Undisturbed => \A k \in Pids : ~ Active(k)
      BY <2>1, <2>3 DEF IsRunning, OneUserInv, Active
    <3> QED BY Zenon, <1>1, <2>1, <2>3, <3>1, <3>2, <3>3, CommandKeeps DEF OneUserInv, TypeOK, Active, Ending, Alive
  <2> QED BY Zenon, <1>8, <2>2, <2>3 DEF StartCheck, Goto
<1>9. CASE ParentSetPid(u)
  <2>1. cmd[u].pc = "setpid" /\ UNCHANGED <<exists, transport, st, port, held, pids>>
    BY Zenon, <1>9 DEF ParentSetPid
  <2>2. CASE exists /\ pidFile' = cmd[u].child /\ cmd' = [cmd EXCEPT ![u].pc = "wait"]
    <3>1. cmd' \in [Users -> Cmd] /\ cmd'[u].child = cmd[u].child /\ cmd'[u].pc = "wait"
      BY <1>2, <2>2
    <3>2. pidFile' \in 0 .. MaxPid
      BY Zenon, <1>1, <2>2 DEF Cmd
    <3> QED BY Zenon, <1>1, <2>1, <2>2, <3>1, <3>2, CommandKeeps DEF OneUserInv, TypeOK, Active, Ending, Alive
  <2>3. CASE ~ exists /\ Done(u, "err") /\ UNCHANGED pidFile
    <3>1. cmd' \in [Users -> Cmd] /\ cmd'[u].child = 0 /\ cmd'[u].pc = "idle"
      BY <1>3, <2>3
    <3> QED BY Zenon, <1>1, <2>1, <2>3, <3>1, CommandKeeps DEF OneUserInv, TypeOK, Active, Ending, Alive
  <2> QED BY Zenon, <1>9, <2>2, <2>3 DEF ParentSetPid, Goto
<1>10. CASE KillProcess(u)
  <2>1. cmd[u].pc = "begin" /\ UNCHANGED <<exists, pidFile, transport, port, held, pids>>
    BY Zenon, <1>10 DEF KillProcess, files, OneUserInv
  <2>2. CASE ~ exists /\ UNCHANGED st /\ (Done(u, "ok") \/ Done(u, "err"))
    <3>1. cmd' \in [Users -> Cmd] /\ cmd'[u].child = 0 /\ cmd'[u].pc = "idle"
      BY Zenon, <1>3, <2>2
    <3> QED BY Zenon, <1>1, <2>1, <2>2, <3>1, CommandKeeps DEF OneUserInv, TypeOK, Active, Ending, Alive
  <2>3. CASE exists /\ st' = AfterSignal(pidFile, cmd[u].sig)
             /\ (cmd' = [cmd EXCEPT ![u].pc = "rmpid"] \/ cmd' = [cmd EXCEPT ![u].pc = "rmdir"] \/ Done(u, "ok"))
    <3>1. /\ cmd' \in [Users -> Cmd] /\ cmd'[u].child \in {0, cmd[u].child} /\ cmd'[u].pc \in {"idle", "rmpid", "rmdir"}
      BY <1>2, <1>3, <2>3
    <3>2. /\ st' \in [Pids -> {"none", "spawned", "bound", "pid", "setup", "up", "stopping", "closing", "dead"}]
          /\ \A k \in Pids : (st'[k] # st[k] => k = pidFile) /\ (st[k] = "none" => st'[k] = "none")
          /\ ~ Alive(pidFile) => st' = st
          /\ Alive(pidFile) => st'[pidFile] \in {"stopping", "closing", "dead"}
      BY <1>1, <2>1, <2>3, SignalType DEF TypeOK
    <3>3. Undisturbed => \A k \in Pids : ~ Active(k)'
      BY <2>1, <3>2 DEF OneUserInv, Active, Ending, Alive
    <3> QED BY ZenonT(60), <1>1, <2>1, <2>3, <3>1, <3>2, <3>3, CommandKeeps DEF OneUserInv, TypeOK
  <2> QED BY Zenon, <1>10, <2>2, <2>3 DEF KillProcess, Goto
<1>11. CASE RemovePid(u) \/ RemoveDir(u)
  <2>1. cmd[u].pc \in {"rmpid", "rmdir"} /\ UNCHANGED <<st, port, held, pids>> /\ pidFile' = 0
        /\ (exists' = exists \/ exists' = FALSE) /\ transport' \in {transport, 0} /\ (~ exists' => transport' = 0)
    BY <1>11 DEF RemovePid, RemoveDir, At, OneUserInv, TypeOK
  <2>2. Done(u, "err") \/ Done(u, "ok") \/ cmd' = [cmd EXCEPT ![u].pc = "rmdir"]
    BY <1>11 DEF RemovePid, RemoveDir, Goto
  <2>3. /\ cmd' \in [Users -> Cmd] /\ cmd'[u].child \in {0, cmd[u].child} /\ cmd'[u].pc \in {"idle", "rmdir"}
    BY Zenon, <1>2, <1>3, <2>2
  <2>4. Undisturbed => \A k \in Pids : ~ Active(k)
    BY <2>1 DEF OneUserInv
  <2> QED BY ZenonT(60), <1>1, <2>1, <2>3, <2>4, CommandKeeps DEF OneUserInv, TypeOK, Active, Ending, Alive
<1>12. CASE Spawn(u)
  <2>1. CASE ~ exists /\ Done(u, "err") /\ UNCHANGED <<pids, st, port>>
    <3>1. cmd' \in [Users -> Cmd] /\ cmd'[u].child = 0 /\ cmd'[u].pc = "idle"
      BY <1>3, <2>1
    <3>2. UNCHANGED <<files, st, port, held, pids>>
      BY <1>12, <2>1 DEF Spawn
    <3> QED BY Zenon, <1>1, <2>1, <3>1, <3>2, CommandKeeps DEF OneUserInv, TypeOK, Active, Ending, Alive, files
  <2>2. CASE exists
    <3> DEFINE n == pids + 1
    <3>1. /\ pids' = n /\ st' = [st EXCEPT ![n] = "spawned"] /\ cmd[u].pc = "spawn"
          /\ port' = [port EXCEPT ![n] = IF cmd[u].op = "start" /\ transport # 0 THEN transport ELSE n]
          /\ cmd' = [cmd EXCEPT ![u].child = n, ![u].pc = "setpid"] /\ pids < MaxPid
          /\ UNCHANGED <<files, held>>
      BY <1>12, <2>2 DEF Spawn
    <3>2. n \in Pids /\ n \in 0 .. MaxPid /\ \A k \in Pids : (k > n => k > pids) /\ (k = n => k > pids)
      BY <1>1, <3>1, NodeProcessAssumption DEF TypeOK, Pids
    <3>3. n <= n
      BY <3>2
    <3> HIDE DEF n
    <3>4. cmd' \in [Users -> Cmd] /\ cmd'[u].child = n /\ cmd'[u].pc = "setpid"
      BY <1>1, <3>1, <3>2 DEF TypeOK, Cmd
    <3>5. TypeOK'
      BY Zenon, <1>1, <3>1, <3>2, <3>3, <3>4 DEF TypeOK, files
    <3>6. \A k \in Pids : st'[k] = IF k = n THEN "spawned" ELSE st[k]
      BY <1>1, <3>1 DEF TypeOK
    <3>7. Undisturbed => \A k \in Pids : ~ Active(k)
      BY <3>1 DEF OneUserInv
    <3>8. Undisturbed' <=> Undisturbed
      BY <3>1 DEF Undisturbed
    <3>9. \A k \in Pids : k > pids' => st'[k] = "none"
      BY <3>1, <3>2, <3>6 DEF OneUserInv
    <3>10. Undisturbed => \A k \in Pids : Active(k)' => k = n
      BY <3>6, <3>7 DEF Active, Ending, Alive
    <3>11. exists'
      BY <2>2, <3>1 DEF files
    <3> QED BY <3>4, <3>5, <3>8, <3>9, <3>10, <3>11 DEF OneUserInv
  <2> QED BY Zenon, <1>12, <2>1, <2>2 DEF Spawn
<1> QED BY Zenon, <1>5, <1>6, <1>7, <1>8, <1>9, <1>10, <1>11, <1>12 DEF Command

\* The shutdown of a process: without a pid file it only closes.
LEMMA OneUserShutdown ==
  ASSUME NEW u, Users = {u}, OneUserInv(u), NEW k \in Pids,
         ShutdownKill(k) \/ ShutdownRemovePid(k) \/ ShutdownEnd(k)
  PROVE  OneUserInv(u)'
<1>1. /\ UNCHANGED <<port, cmd, pids, exists, transport>> /\ pidFile' \in {pidFile, 0}
      /\ st[k] \in {"stopping", "closing"}
  BY DEF ShutdownKill, ShutdownRemovePid, ShutdownEnd, Alone, files
<1>2. TypeOK /\ pidFile \in 0 .. MaxPid /\ 0 \in 0 .. MaxPid
  BY NodeProcessAssumption DEF OneUserInv, TypeOK
<1>3. CASE /\ held' = held /\ pidFile' = pidFile
           /\ \E s \in {"closing", "dead"} : st' = [st EXCEPT ![k] = s]
  <2>1. TypeOK'
    BY <1>1, <1>2, <1>3 DEF TypeOK
  <2>2. \A q \in Pids : (st[q] = "none" => st'[q] = "none") /\ (Active(q)' => Active(q))
    BY <1>1, <1>2, <1>3 DEF TypeOK, Active, Ending, Alive
  <2>3. Undisturbed' <=> Undisturbed
    BY <1>3 DEF Undisturbed
  <2> QED BY Zenon, <1>1, <1>3, <2>1, <2>2, <2>3 DEF OneUserInv
<1>4. CASE ShutdownRemovePid(k)
  <2>1. held[k] # 0 /\ held' = held /\ st' = [st EXCEPT ![k] = "closing"] /\ pidFile' = 0
    BY <1>4 DEF ShutdownRemovePid, Becomes
  <2>2. TypeOK'
    BY <1>1, <1>2, <2>1 DEF TypeOK
  <2>3. \A q \in Pids : st[q] = "none" => st'[q] = "none"
    BY <1>1, <1>2, <2>1 DEF TypeOK
  <2>4. ~ Undisturbed'
    BY <2>1 DEF Undisturbed
  <2> QED BY Zenon, <1>1, <2>2, <2>3, <2>4 DEF OneUserInv
<1>5. CASE /\ held' = [held EXCEPT ![k] = pidFile] /\ pidFile # 0 /\ pidFile' = pidFile
           /\ st' = AfterSignal(pidFile, "TERM")
  <2>1. TypeOK'
    BY <1>1, <1>2, <1>5, SignalType DEF TypeOK
  <2>2. \A q \in Pids : st[q] = "none" => st'[q] = "none"
    BY <1>2, <1>5, SignalType
  <2>3. ~ Undisturbed'
    BY <1>2, <1>5 DEF Undisturbed, TypeOK
  <2> QED BY Zenon, <1>1, <2>1, <2>2, <2>3 DEF OneUserInv
<1> QED BY <1>3, <1>4, <1>5 DEF ShutdownKill, ShutdownEnd, Becomes, files

\* The process itself: it writes its own id into the pid file, and ends when the
\* directory of its node is gone.
LEMMA OneUserProcess ==
  ASSUME NEW u, Users = {u}, OneUserInv(u), NEW k \in Pids, Process(k) \/ Crash(k)
  PROVE  OneUserInv(u)'
<1> SUFFICES ASSUME ~ (ShutdownKill(k) \/ ShutdownRemovePid(k) \/ ShutdownEnd(k))
             PROVE  OneUserInv(u)'
  BY Zenon, OneUserShutdown
<1>1. /\ UNCHANGED <<port, cmd, pids, exists, held>> /\ Alive(k)
      /\ st[k] \in {"stopping", "closing"} => Crash(k)
  BY DEF Process, Crash, Listen, SetPid, SetSetup, Serve, Alone, files, Alive, Pids
<1>2. /\ (pidFile' = pidFile \/ pidFile' = k) /\ (transport' = transport \/ transport' = port[k])
      /\ \E s \in {"bound", "pid", "setup", "up", "dead"} :
            st' = [st EXCEPT ![k] = s] /\ (Crash(k) => s = "dead" /\ pidFile' = pidFile)
      /\ ~ exists => pidFile' = pidFile /\ transport' = transport
  BY <1>1 DEF Process, Crash, Listen, SetPid, SetSetup, Serve, Becomes, files
<1>3. k \in 0 .. MaxPid /\ port[k] \in 0 .. MaxPid /\ k <= pids
  BY <1>1, NodeProcessAssumption DEF OneUserInv, TypeOK, Pids, Alive
<1>4. TypeOK'
  BY <1>1, <1>2, <1>3 DEF OneUserInv, TypeOK
<1>5. \A q \in Pids : q # k => st'[q] = st[q]
  BY <1>2 DEF OneUserInv, TypeOK
<1>6. st'[k] = "dead" \/ Active(k)
  BY <1>1, <1>2 DEF OneUserInv, TypeOK, Active, Ending
<1>7. \A q \in Pids : q > pids => q # k
  BY <1>3, NodeProcessAssumption DEF OneUserInv, TypeOK, Pids
<1>8. \A q \in Pids : Active(q)' => Active(q)
  BY <1>5, <1>6 DEF Active, Ending, Alive
<1>9. Crash(k) \/ Active(k)
  BY <1>1 DEF Active, Ending
<1>10. Undisturbed' <=> Undisturbed
  BY <1>1 DEF Undisturbed
<1>11. ASSUME Undisturbed, NEW q \in Pids, Active(q)
       PROVE  /\ exists' /\ q = IF cmd'[u].pc = "setpid" THEN cmd'[u].child ELSE pidFile'
              /\ cmd'[u].pc \notin {"init", "spawn", "rmpid", "rmdir"}
  <2>1. /\ exists /\ q = IF cmd[u].pc = "setpid" THEN cmd[u].child ELSE pidFile
        /\ cmd[u].pc \notin {"init", "spawn", "rmpid", "rmdir"}
    BY Zenon, <1>11 DEF OneUserInv
  <2>2. Active(k) => k = q
    BY Zenon, <1>11, <2>1 DEF OneUserInv
  <2>3. pidFile' = pidFile \/ pidFile' = q
    BY Zenon, <1>2, <1>9, <2>2
  <2> QED BY <1>1, <2>1, <2>3
<1>12. \A q \in Pids : q > pids' => st'[q] = "none"
  BY <1>1, <1>5, <1>7 DEF OneUserInv
<1> QED BY Zenon, <1>4, <1>8, <1>10, <1>11, <1>12 DEF OneUserInv

\* The invariant of a node with one user.
LEMMA OneUserInvariance ==
  ASSUME NEW u, Users = {u}
  PROVE  Spec => []OneUserInv(u)
<1>1. Init => OneUserInv(u)
  <2> SUFFICES ASSUME Init PROVE OneUserInv(u)
    OBVIOUS
  <2>1. 0 \in 0 .. MaxPid /\ 0 <= 0
    BY NodeProcessAssumption
  <2>2. NoCmd \in Cmd /\ NoCmd.child = 0 /\ NoCmd.pc = "idle"
    BY <2>1 DEF NoCmd, Cmd
  <2>3. TypeOK
    BY Zenon, <2>1, <2>2 DEF Init, TypeOK
  <2> QED BY <2>2, <2>3 DEF Init, OneUserInv, Active, Ending, Alive
<1>2. OneUserInv(u) /\ [Next]_vars => OneUserInv(u)'
  <2> SUFFICES ASSUME OneUserInv(u), [Next]_vars PROVE OneUserInv(u)'
    OBVIOUS
  <2>1. CASE UNCHANGED vars
    BY <2>1 DEF vars, OneUserInv, TypeOK, Undisturbed, Active, Ending, Alive
  <2> QED BY <2>1, OneUserCommand, OneUserProcess DEF Next
<1> QED BY <1>1, <1>2, PTL DEF Spec

\* One user never runs two processes of a node, with --force, or besides those that
\* shut down and as long as none of them has found a pid file.
THEOREM OneProcess ==
  ASSUME NEW u, Users = {u}
  PROVE  Spec => []AtMostOneProcess
<1>1. OneUserInv(u) => AtMostOneProcess
  <2> SUFFICES ASSUME OneUserInv(u) PROVE AtMostOneProcess
    OBVIOUS
  <2> SUFFICES ASSUME Undisturbed PROVE Cardinality({k \in Pids : Active(k)}) <= 1
    BY DEF AtMostOneProcess
  <2>1. PICK p : \A k \in Pids : Active(k) => k = p
    BY DEF OneUserInv
  <2> DEFINE A == {k \in Pids : Active(k)}
  <2>2. A \subseteq {p}
    BY <2>1
  <2>3. IsFiniteSet({p}) /\ Cardinality({p}) = 1
    BY Zenon, FS_Singleton
  <2> HIDE DEF A
  <2>4. IsFiniteSet(A) /\ Cardinality(A) <= 1
    BY Zenon, <2>2, <2>3, FS_Subset
  <2> QED BY <2>4 DEF A
<1> QED BY <1>1, OneUserInvariance, PTL

\* The node of one user leaves no process behind when it is deleted: delete signals
\* the process of the pid file before it removes the directory.
THEOREM NoGhostProcess ==
  ASSUME NEW u, Users = {u}
  PROVE  Spec => []NoGhost
<1>1. OneUserInv(u) => NoGhost
  BY NodeProcessAssumption DEF OneUserInv, NoGhost, Active, Ending, Alive, Pids
<1> QED BY <1>1, OneUserInvariance, PTL

\* What OneProcess and NoGhostProcess rest on: an active process of the node of one
\* user is behind the pid file, or it is the child whose id start is about to write.
THEOREM OneUserInvariant ==
  ASSUME NEW u, Users = {u}
  PROVE  Spec => []OneUser
<1>1. OneUserInv(u) => OneUser
  BY Zenon DEF OneUser
<1> QED BY <1>1, OneUserInvariance, PTL

=============================================================================
