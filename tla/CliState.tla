------------------------------ MODULE CliState ------------------------------
(***************************************************************************)
(* The directory $OCKAM_HOME that every `ockam` command reads and writes   *)
(* (ockam_api/src/cli_state): one file per identity, one directory per     *)
(* node and, for each kind, a symbolic link to the default item.  Commands *)
(* are separate processes; nothing locks the directory, and each call to   *)
(* the file system is a step of its own, so that commands interleave and   *)
(* one of them can be killed between two calls.                            *)
(*                                                                         *)
(* Vaults follow the same StateDirTrait as identities and are left out; an *)
(* identity file is the number of the identifier it holds.                 *)
(***************************************************************************)
EXTENDS Integers, FiniteSets

CONSTANTS Procs,        \* concurrent `ockam` processes
          Names,        \* names of identities
          NodeNames,    \* names of nodes
          None,         \* no name, no link
          MaxCommands,  \* commands started, and so identities generated
          MaxCrashes    \* commands killed

VARIABLES ident,    \* name -> identifier in the file, Absent or Torn
          defId,    \* target of defaults/identity
          nodes,    \* name -> files in the directory of the node
          defNode,  \* target of defaults/node
          proc,     \* what each process is doing
          minted,   \* identities generated so far
          started, crashes,
          outcome   \* last outcome reported by each process

vars == <<ident, defId, nodes, defNode, proc, minted, started, crashes, outcome>>
fs == <<ident, defId, nodes, defNode>>

Absent == -1     \* no such file
Torn == 0        \* created by fs::write and not yet written

Missing == [dir |-> FALSE, setup |-> "no", version |-> FALSE, id |-> None]
Idle == [pc |-> "idle", cmd |-> "none", name |-> None, id |-> None, key |-> 0, todo |-> {}]
Pcs == {"idle", "get", "touch", "write", "hasdef", "unlink", "link", "check", "rm", "asserts",
        "mkdir", "tsetup", "wsetup", "version", "rmlink", "idlink", "nhasdef", "nunlink", "nlink",
        "isdef", "ndrop", "next", "rmdir"}
Quiet == [cmd |-> "none", name |-> None, res |-> "ok", key |-> 0]

Init == /\ ident = [x \in Names |-> Absent]
        /\ defId = None
        /\ nodes = [n \in NodeNames |-> Missing]
        /\ defNode = None
        /\ proc = [p \in Procs |-> Idle]
        /\ minted = 0 /\ started = 0 /\ crashes = 0
        /\ outcome = [p \in Procs |-> Quiet]

-----------------------------------------------------------------------------
(* What the helpers of the two directories answer.                         *)

\* Path::exists follows the link: a link to a removed file does not exist
DefaultIdExists == defId # None /\ ident[defId] # Absent
DefaultNodeExists == defNode # None /\ nodes[defNode].dir

\* NodesState::exists: the setup file, not the directory
NodeExists(n) == nodes[n].setup # "no"
Loads(n) == nodes[n].setup = "ok" /\ nodes[n].version

\* The migrations of CliState::initialize read every identity and every node
\* directory, and the first that cannot be read fails the command
MigrateIdentitiesFails == \E x \in Names : ident[x] = Torn
MigrateNodesFails == \E n \in NodeNames : nodes[n].dir /\ nodes[n].setup # "ok"

Goto(p, pc) == proc' = [proc EXCEPT ![p].pc = pc]
\* the command of p ends and reports res
Finish(p, res) ==
  /\ proc' = [proc EXCEPT ![p] = Idle]
  /\ outcome' = [outcome EXCEPT ![p] = [cmd |-> proc[p].cmd, res |-> res, key |-> proc[p].key,
                                        name |-> IF proc[p].cmd = "node_create" THEN proc[p].id
                                                 ELSE proc[p].name]]
At(p, pc) == proc[p].pc = pc
Same == UNCHANGED <<minted, started, crashes>>

-----------------------------------------------------------------------------
(* Starting a command: CliState::initialize, then its first step.          *)

Commands == [cmd : {"identity_create", "identity_delete", "identity_default"}, name : Names, id : {None}]
            \cup [cmd : {"node_create"}, name : NodeNames, id : Names \cup {None}]
            \cup [cmd : {"node_delete", "node_default"}, name : NodeNames, id : {None}]

FirstStep(c) ==
  CASE c = "identity_create" -> "get"    [] c = "identity_delete" -> "check"
    [] c = "identity_default" -> "isdef" [] c = "node_create" -> "get"
    [] c = "node_delete" -> "isdef"      [] c = "node_default" -> "isdef"

Run(p) ==
  \E c \in Commands :
    /\ At(p, "idle") /\ started < MaxCommands
    /\ started' = started + 1
    /\ IF MigrateIdentitiesFails \/ MigrateNodesFails
         THEN /\ outcome' = [outcome EXCEPT ![p] = [cmd |-> c.cmd, name |-> c.name, res |-> "init", key |-> 0]]
              /\ UNCHANGED proc
         ELSE /\ proc' = [proc EXCEPT ![p] = [Idle EXCEPT !.pc = FirstStep(c.cmd), !.cmd = c.cmd,
                                                          !.name = c.name, !.id = c.id]]
              /\ UNCHANGED outcome
    /\ UNCHANGED <<fs, minted, crashes>>

\* the process is killed, and with it the rest of its command
Crash(p) == /\ ~ At(p, "idle") /\ crashes < MaxCrashes
            /\ crashes' = crashes + 1
            /\ proc' = [proc EXCEPT ![p] = Idle]
            /\ UNCHANGED <<fs, minted, started, outcome>>

-----------------------------------------------------------------------------
(* identity create, and the first half of node create (init_node_state).   *)

AfterIdentity(p) == IF proc[p].cmd = "node_create"
                      THEN Goto(p, "asserts") /\ UNCHANGED outcome
                      ELSE Finish(p, "ok")

\* A foreground node that exists already is not initialized again; a background
\* node is, and its files are written over
KeepNode(p) == /\ At(p, "get") /\ proc[p].cmd = "node_create" /\ NodeExists(proc[p].name)
               /\ Finish(p, IF Loads(proc[p].name) THEN "ok" ELSE "err")
               /\ UNCHANGED fs /\ Same

\* A key pair is generated first; create_identity_state then returns the
\* identity stored under the name (or the default one) if it can be loaded,
\* and only else stores the new identifier, under a random name if none is given
Wanted(p) == IF proc[p].cmd = "identity_create" THEN proc[p].name ELSE proc[p].id
GetOrDefault(p) == IF Wanted(p) # None THEN Wanted(p) ELSE defId
Generate(p) == /\ At(p, "get")
               /\ minted' = minted + 1
               /\ UNCHANGED <<fs, started, crashes>>

ReuseIdentity(p) ==
  /\ Generate(p)
  /\ GetOrDefault(p) # None /\ ident[GetOrDefault(p)] > 0
  /\ IF proc[p].cmd = "node_create"
       THEN /\ proc' = [proc EXCEPT ![p].id = GetOrDefault(p), ![p].key = minted', ![p].pc = "asserts"]
            /\ UNCHANGED outcome
       ELSE /\ proc' = [proc EXCEPT ![p] = Idle]
            /\ outcome' = [outcome EXCEPT ![p] = [cmd |-> "identity_create", name |-> proc[p].name,
                                                  res |-> "ok", key |-> minted']]

MakeIdentity(p) ==
  /\ Generate(p)
  /\ ~ (GetOrDefault(p) # None /\ ident[GetOrDefault(p)] > 0)
  /\ \E y \in IF Wanted(p) # None THEN {Wanted(p)} ELSE {x \in Names : ident[x] = Absent} :
       IF ident[y] # Absent
         THEN Finish(p, "err")
         ELSE /\ proc' = [proc EXCEPT ![p].id = y, ![p].key = minted', ![p].pc = "touch"]
              /\ UNCHANGED outcome

TouchIdentity(p) == /\ At(p, "touch")
                    /\ ident' = [ident EXCEPT ![proc[p].id] = Torn]
                    /\ Goto(p, "write")
                    /\ UNCHANGED <<defId, nodes, defNode, outcome>> /\ Same

\* what is written to a file that was removed meanwhile is lost
WriteIdentity(p) == /\ At(p, "write")
                    /\ ident' = [ident EXCEPT ![proc[p].id] = IF @ = Absent THEN @ ELSE proc[p].key]
                    /\ Goto(p, "hasdef")
                    /\ UNCHANGED <<defId, nodes, defNode, outcome>> /\ Same

\* the new item becomes the default if there is none
HasDefault(p) == /\ At(p, "hasdef")
                 /\ IF DefaultIdExists THEN AfterIdentity(p) ELSE Goto(p, "unlink") /\ UNCHANGED outcome
                 /\ UNCHANGED fs /\ Same


\* StateDirTrait::set_default: remove the link, whatever it was, and make another
UnlinkDefault(p) == /\ At(p, "unlink")
                    /\ IF ident[proc[p].id] = Absent
                         THEN Finish(p, "err") /\ UNCHANGED defId
                         ELSE Goto(p, "link") /\ defId' = None /\ UNCHANGED outcome
                    /\ UNCHANGED <<ident, nodes, defNode>> /\ Same

LinkDefault(p) == /\ At(p, "link")
                  /\ IF defId # None
                       THEN Finish(p, "err") /\ UNCHANGED defId
                       ELSE defId' = proc[p].id /\ AfterIdentity(p)
                  /\ UNCHANGED <<ident, nodes, defNode>> /\ Same

-----------------------------------------------------------------------------
(* identity delete and identity default.                                   *)

IdentityOf(n) == IF nodes[n].id = None THEN Absent ELSE ident[nodes[n].id]

\* delete_identity: refused if a node that loads has the same identifier, or if
\* the identity of one of them cannot be read
CheckUnused(p) ==
  /\ At(p, "check")
  /\ IF \/ ident[proc[p].name] <= 0
        \/ \E n \in NodeNames : Loads(n) /\ IdentityOf(n) \in {ident[proc[p].name], Absent, Torn}
       THEN Finish(p, "err")
       ELSE Goto(p, "rm") /\ UNCHANGED outcome
  /\ UNCHANGED fs /\ Same

RemoveIdentity(p) ==
  /\ At(p, "rm")
  /\ ident' = [ident EXCEPT ![proc[p].name] = Absent]
  /\ Finish(p, IF ident[proc[p].name] = Absent THEN "err" ELSE "ok")
  /\ UNCHANGED <<defId, nodes, defNode>> /\ Same

\* is_default resolves the link, and fails if it leads nowhere
IdentityIsDefault(p) ==
  /\ At(p, "isdef") /\ proc[p].cmd = "identity_default"
  /\ IF ident[proc[p].name] <= 0 \/ ~ DefaultIdExists
       THEN Finish(p, "err")
       ELSE IF defId = proc[p].name
         THEN Finish(p, "already")
         ELSE /\ proc' = [proc EXCEPT ![p].id = proc[p].name, ![p].pc = "unlink"]
              /\ UNCHANGED outcome
  /\ UNCHANGED fs /\ Same

-----------------------------------------------------------------------------
(* The second half of node create: NodeConfigBuilder::build, NodeState::new *)
(* and the default link of the nodes.                                      *)

\* NodeConfig::new asserts that a default identity exists, even if the node
\* does not use it
NodeAsserts(p) == /\ At(p, "asserts")
                  /\ IF DefaultIdExists THEN Goto(p, "mkdir") /\ UNCHANGED outcome ELSE Finish(p, "panic")
                  /\ UNCHANGED fs /\ Same

NodeFile(p, pc, next, f, v) == /\ At(p, pc)
                               /\ pc = "mkdir" \/ nodes[proc[p].name].dir
                               /\ nodes' = [nodes EXCEPT ![proc[p].name][f] = v]
                               /\ Goto(p, next)
                               /\ UNCHANGED <<ident, defId, defNode, outcome>> /\ Same

NodeNew(p) == \/ NodeFile(p, "mkdir", "tsetup", "dir", TRUE)
              \/ NodeFile(p, "tsetup", "wsetup", "setup", "torn")
              \/ NodeFile(p, "wsetup", "version", "setup", IF NodeExists(proc[p].name) THEN "ok" ELSE "no")
              \/ NodeFile(p, "version", "rmlink", "version", TRUE)
              \/ NodeFile(p, "rmlink", "idlink", "id", None)
              \/ NodeFile(p, "idlink", "nhasdef", "id", proc[p].id) /\ nodes[proc[p].name].id = None

\* a concurrent delete has removed the directory, or a concurrent create has made the link
NodeNewFails(p) == /\ proc[p].pc \in {"tsetup", "wsetup", "version", "idlink"}
                   /\ ~ nodes[proc[p].name].dir \/ (At(p, "idlink") /\ nodes[proc[p].name].id # None)
                   /\ Finish(p, "err")
                   /\ UNCHANGED fs /\ Same

NodeHasDefault(p) == /\ At(p, "nhasdef")
                     /\ IF DefaultNodeExists
                          THEN Finish(p, "ok")
                          ELSE proc' = [proc EXCEPT ![p].pc = "nunlink", ![p].id = proc[p].name] /\ UNCHANGED outcome
                     /\ UNCHANGED fs /\ Same

\* set_default of the node proc[p].id; a delete goes on with the next candidate if it fails
NodeDefaultFailed(p) == IF proc[p].cmd = "node_delete" THEN Goto(p, "next") /\ UNCHANGED outcome
                        ELSE Finish(p, "err")
UnlinkNode(p) == /\ At(p, "nunlink")
                 /\ IF ~ NodeExists(proc[p].id)
                      THEN NodeDefaultFailed(p) /\ UNCHANGED defNode
                      ELSE Goto(p, "nlink") /\ defNode' = None /\ UNCHANGED outcome
                 /\ UNCHANGED <<ident, defId, nodes>> /\ Same
LinkNode(p) == /\ At(p, "nlink")
               /\ IF defNode # None
                    THEN NodeDefaultFailed(p) /\ UNCHANGED defNode
                    ELSE /\ defNode' = proc[p].id
                         /\ IF proc[p].cmd = "node_delete" THEN Goto(p, "rmdir") /\ UNCHANGED outcome
                            ELSE Finish(p, "ok")
               /\ UNCHANGED <<ident, defId, nodes>> /\ Same

-----------------------------------------------------------------------------
(* node delete and node default.                                           *)

NodeIsDefault(p) ==
  LET n == proc[p].name
      delete == proc[p].cmd = "node_delete"
  IN /\ At(p, "isdef") /\ proc[p].cmd \in {"node_delete", "node_default"}
     /\ IF ~ NodeExists(n)
          THEN Finish(p, IF delete THEN "ok" ELSE "err")
          ELSE IF ~ DefaultNodeExists \/ (delete /\ ~ Loads(n))
            THEN Finish(p, "err")
            ELSE IF delete
              THEN Goto(p, IF defNode = n THEN "ndrop" ELSE "rmdir") /\ UNCHANGED outcome
              ELSE IF defNode = n THEN Finish(p, "already")
                   ELSE proc' = [proc EXCEPT ![p].pc = "nunlink", ![p].id = n] /\ UNCHANGED outcome
     /\ UNCHANGED fs /\ Same

DropNodeDefault(p) ==
  /\ At(p, "ndrop")
  /\ defNode' = None
  /\ proc' = [proc EXCEPT ![p].pc = "next", ![p].todo = {n \in NodeNames \ {proc[p].name} : Loads(n)}]
  /\ UNCHANGED <<ident, defId, nodes, outcome>> /\ Same

\* the first other node that can be made the default
NextDefault(p) ==
  /\ At(p, "next")
  /\ IF proc[p].todo = {}
       THEN Goto(p, "rmdir")
       ELSE \E n \in proc[p].todo :
              proc' = [proc EXCEPT ![p].pc = "nunlink", ![p].id = n, ![p].todo = @ \ {n}]
  /\ UNCHANGED <<fs, outcome>> /\ Same

\* remove_dir_all removes the entries in the order in which the directory lists
\* them, and fails if another process adds one that it has not seen
RemoveNodeDir(p) ==
  LET n == proc[p].name
      left == {f \in {"setup", "version", "id"} : nodes[n][f] # Missing[f]}
  IN /\ At(p, "rmdir")
     /\ IF left = {}
          THEN /\ nodes' = [nodes EXCEPT ![n] = Missing]
               /\ Finish(p, IF nodes[n].dir THEN "ok" ELSE "err")
          ELSE \/ /\ \E f \in left : nodes' = [nodes EXCEPT ![n][f] = Missing[f]]
                  /\ UNCHANGED <<proc, outcome>>
               \/ /\ \E q \in Procs \ {p} : proc[q].cmd = "node_create" /\ proc[q].name = n
                  /\ Finish(p, "err") /\ UNCHANGED nodes
     /\ UNCHANGED <<ident, defId, defNode>> /\ Same

-----------------------------------------------------------------------------
Step(p) == \/ KeepNode(p) \/ ReuseIdentity(p) \/ MakeIdentity(p) \/ TouchIdentity(p) \/ WriteIdentity(p) \/ HasDefault(p)
           \/ UnlinkDefault(p) \/ LinkDefault(p)
           \/ CheckUnused(p) \/ RemoveIdentity(p) \/ IdentityIsDefault(p)
           \/ NodeAsserts(p) \/ NodeNew(p) \/ NodeNewFails(p) \/ NodeHasDefault(p)
           \/ UnlinkNode(p) \/ LinkNode(p)
           \/ NodeIsDefault(p) \/ DropNodeDefault(p) \/ NextDefault(p) \/ RemoveNodeDir(p)

Next == \E p \in Procs : Run(p) \/ Crash(p) \/ Step(p)

Spec == Init /\ [][Next]_vars

-----------------------------------------------------------------------------
AllIdle == \A p \in Procs : At(p, "idle")

\* Types of the files, the links and the processes.
TypeOK ==
  /\ ident \in [Names -> -1 .. MaxCommands]
  /\ defId \in Names \cup {None}
  /\ nodes \in [NodeNames -> [dir : BOOLEAN, setup : {"no", "torn", "ok"}, version : BOOLEAN,
                              id : Names \cup {None}]]
  /\ defNode \in NodeNames \cup {None}
  /\ \A p \in Procs : proc[p].pc \in Pcs /\ proc[p].key \in 0 .. MaxCommands /\ proc[p].todo \subseteq NodeNames
  /\ minted \in 0 .. MaxCommands /\ started \in 0 .. MaxCommands /\ crashes \in 0 .. MaxCrashes

\* No command, finished or killed half-way, replaces or truncates the
\* identifier stored under the name of an identity; it can only be deleted: create_identity_state reuses an identity that loads,
\* and StateDirTrait::create refuses a name whose file exists.
IdentifierStableStep == \A x \in Names : ident[x] > 0 => ident'[x] \in {ident[x], Absent}
IdentifierStable == [][IdentifierStableStep]_vars

\* The identity of a node that can be loaded is never deleted under it:
\* delete_identity searches the nodes for its identifier first, and no single
\* killed command leaves a node that this search misses and that loads later.
UsedIdentityKept == (AllIdle /\ crashes <= 1) =>
                      \A n \in NodeNames : Loads(n) /\ nodes[n].id # None => ident[nodes[n].id] # Absent

\* As long as no command was killed, there is a default node whenever there is a
\* node: the first node becomes the default, and deleting the default node
\* hands the link to another one.
NodeDefaultKept == (crashes = 0 /\ AllIdle /\ \E n \in NodeNames : NodeExists(n)) =>
                     defNode # None /\ NodeExists(defNode)

\* As long as no command was killed, the link to the default identity is there
\* whenever an identity is, however the commands that replace it interleave:
\* set_default removes the link only for an item that exists, and then makes another.
IdentityLinkKept == (crashes = 0 /\ AllIdle /\ \E x \in Names : ident[x] # Absent) => defId # None

=============================================================================
