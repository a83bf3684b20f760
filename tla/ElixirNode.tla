----------------------------- MODULE ElixirNode -----------------------------
(***************************************************************************)
(* A node of the Elixir implementation: the registry of addresses          *)
(* (node.ex, node/registry.ex), the router (router.ex), workers from       *)
(* creation to termination with their supervisor (worker.ex,               *)
(* asymmetric_worker.ex), the authorization of messages                    *)
(* (worker/authorization.ex) and the idle timeout.                         *)
(*                                                                         *)
(* Sending looks an address up and then sends to it, in two steps between  *)
(* which other processes run.                                              *)
(***************************************************************************)
EXTENDS Integers, Sequences, SequencesExt, FiniteSets

CONSTANTS Workers,
          Options,     \* Workers -> options of create
          Senders,     \* processes that route messages but are not workers
          Metadata,    \* local metadata of the messages they route
          Messages,    \* addresses they route to
          MaxRestarts, \* max_restarts of the supervisor
          MaxSends, MaxTime, MaxStops  \* bounds

Addresses == UNION {{Options[w].address, Options[w].inner} \cup Options[w].extra : w \in Workers} \ {"none"}
Nobody == "nobody"
Sending == Senders \cup Workers

VARIABLES reg,       \* the registry: address -> worker
          wk,        \* worker processes
          creator,   \* what the caller of create has been told
          pend,      \* the message a process has found a receiver for
          restarts,  \* restarts the supervisor has counted
          handled,   \* messages that reached handle_message of their worker
          now, sends, stops

vars == <<reg, wk, creator, pend, restarts, handled, now, sends, stops>>

None == [st |-> "none", all |-> {}, inner |-> "none", auth |-> <<>>, last |-> 0, timer |-> -1, mail |-> <<>>]
NoMessage == [to |-> "none", md |-> "none", from |-> Nobody]

Init ==
    /\ reg = [a \in Addresses |-> Nobody]
    /\ wk = [w \in Workers |-> None]
    /\ creator = [w \in Workers |-> "none"]
    /\ pend = [s \in Sending |-> NoMessage]
    /\ restarts = 0 /\ handled = {} /\ now = 0 /\ sends = 0 /\ stops = 0

Alive(w) == wk[w].st \in {"init", "running"}

----------------------------------------------------------------------------
(* Creation. *)
\* start_supervised: the address is registered as the name of the process.
Create(w) ==
    /\ creator[w] = "none"
    /\ IF reg[Options[w].address] # Nobody
       THEN creator' = [creator EXCEPT ![w] = "error"] /\ UNCHANGED <<reg, wk>>
       ELSE /\ reg' = [reg EXCEPT ![Options[w].address] = w]
            /\ wk' = [wk EXCEPT ![w] = [None EXCEPT !.st = "init"]]
            /\ creator' = [creator EXCEPT ![w] = "waiting"]
    /\ UNCHANGED <<pend, restarts, handled, now, sends, stops>>

\* Who dies leaves the registry and its mailbox; the supervisor starts a transient
\* worker again unless it ended normally.
Death(w, normal) ==
    /\ reg' = [a \in Addresses |-> IF reg[a] = w THEN Nobody ELSE reg[a]]
    /\ wk' = [wk EXCEPT ![w] = [None EXCEPT !.st = IF normal \/ Options[w].restart = "temporary" THEN "dead" ELSE "restarting"]]
    /\ pend' = [pend EXCEPT ![w] = NoMessage]
    /\ creator' = [creator EXCEPT ![w] = IF @ = "waiting" THEN "error" ELSE @]

\* expand_config; a list holds for all addresses, a map for those it names.
ExpandConfig(w) == Options[w].authorization

\* schedule_idle_timeout: at half the timeout.
ScheduleIdleTimeout(w, t) == IF Options[w].idle = 0 THEN -1 ELSE t + Options[w].idle \div 2

\* register_inner_address: an address given as an option is not kept in the state.
InnerAddress(w) == IF Options[w].kind # "asymmetric" THEN [registered |-> {}, state |-> "none"]
                   ELSE IF Options[w].given THEN [registered |-> {Options[w].inner}, state |-> "none"]
                   ELSE [registered |-> {Options[w].inner}, state |-> Options[w].inner]

\* handle_post_init: extra addresses are registered, then the module's setup runs.
PostInit(w) ==
    LET more == Options[w].extra \cup InnerAddress(w).registered IN
    /\ wk[w].st = "init" /\ Options[w].setup = "ok"
    /\ \A a \in more : reg[a] \in {Nobody, w}
    /\ reg' = [a \in Addresses |-> IF a \in more THEN w ELSE reg[a]]
    /\ wk' = [wk EXCEPT ![w] = [@ EXCEPT !.st = "running", !.all = more \cup {Options[w].address},
                                        !.inner = InnerAddress(w).state, !.auth = ExpandConfig(w),
                                        !.last = now, !.timer = ScheduleIdleTimeout(w, now)]]
    /\ UNCHANGED <<creator, pend, restarts, handled, now, sends, stops>>

PostInitFails(w) ==
    /\ wk[w].st = "init"
    /\ \/ Options[w].setup = "error"
       \/ \E a \in Options[w].extra \cup InnerAddress(w).registered : reg[a] \notin {Nobody, w}
    /\ Death(w, FALSE)
    /\ UNCHANGED <<restarts, handled, now, sends, stops>>

\* create asks for the state of the process, which answers after its setup.
Created(w) ==
    /\ creator[w] = "waiting" /\ wk[w].st = "running"
    /\ creator' = [creator EXCEPT ![w] = "ok"]
    /\ UNCHANGED <<reg, wk, pend, restarts, handled, now, sends, stops>>

----------------------------------------------------------------------------
(* The supervisor. *)
Restart(w) ==
    /\ wk[w].st = "restarting" /\ restarts < MaxRestarts
    /\ restarts' = restarts + 1
    /\ IF reg[Options[w].address] # Nobody THEN UNCHANGED <<reg, wk>>
       ELSE /\ reg' = [reg EXCEPT ![Options[w].address] = w]
            /\ wk' = [wk EXCEPT ![w] = [None EXCEPT !.st = "init"]]
    /\ UNCHANGED <<creator, pend, handled, now, sends, stops>>

\* More restarts than max_restarts end the supervisor; with one_for_all, the registry
\* and every worker go with it.
SupervisorEnds ==
    /\ restarts = MaxRestarts /\ \E w \in Workers : wk[w].st = "restarting"
    /\ reg' = [a \in Addresses |-> Nobody]
    /\ wk' = [w \in Workers |-> IF wk[w].st = "none" THEN None ELSE [None EXCEPT !.st = "dead"]]
    /\ pend' = [s \in Sending |-> IF s \in Workers THEN NoMessage ELSE pend[s]]
    /\ creator' = [w \in Workers |-> IF creator[w] = "waiting" THEN "error" ELSE creator[w]]
    /\ restarts' = 0
    /\ UNCHANGED <<handled, now, sends, stops>>

----------------------------------------------------------------------------
(* Routing. *)
\* prepare_local_metadata: a message that is not from a channel or transport is local.
PrepareLocalMetadata(md) == IF md = "none" THEN "local" ELSE md

\* route, handle_local_message and the first step of send: an address that is not
\* registered makes a dead letter.
LookUp(s, a, md) ==
    IF reg[a] = Nobody THEN pend' = [pend EXCEPT ![s] = NoMessage]
    ELSE pend' = [pend EXCEPT ![s] = [to |-> a, md |-> PrepareLocalMetadata(md), from |-> s]]

Route(s) ==
    /\ pend[s] = NoMessage /\ sends < MaxSends /\ sends' = sends + 1
    /\ \E a \in Messages, md \in Metadata : LookUp(s, a, md)
    /\ UNCHANGED <<reg, wk, creator, restarts, handled, now, stops>>

\* The second step of send.
SendFound(s) ==
    /\ pend[s] # NoMessage /\ reg[pend[s].to] # Nobody
    /\ wk' = [wk EXCEPT ![reg[pend[s].to]].mail = Append(@, pend[s])]
    /\ pend' = [pend EXCEPT ![s] = NoMessage]
    /\ UNCHANGED <<reg, creator, restarts, handled, now, sends, stops>>

\* Registry.send raises when the address has gone: the sending process ends.
SendLost(s) ==
    /\ pend[s] # NoMessage /\ reg[pend[s].to] = Nobody
    /\ IF s \in Workers THEN Death(s, FALSE)
       ELSE pend' = [pend EXCEPT ![s] = NoMessage] /\ UNCHANGED <<reg, wk, creator>>
    /\ UNCHANGED <<restarts, handled, now, sends, stops>>

----------------------------------------------------------------------------
(* Messages at a worker. *)
\* The steps of a configuration, one after the other.
Allows(step, m) ==
    \/ step = "allow_all"
    \/ step = "is_local" /\ m.md = "local"
    \/ step = "from_secure_channel" /\ m.md = "channel"

\* with_config: a map has nothing to say on addresses it does not name.
WithConfig(config, m) ==
    LET steps == IF m.to \in DOMAIN config THEN config[m.to] ELSE <<>> IN
    \A k \in DOMAIN steps : Allows(steps[k], m)

ToMyAddress(w, m) == m.to \in wk[w].all
IsAuthorized(w, m) == ToMyAddress(w, m) /\ WithConfig(wk[w].auth, m)

Touched(w) == [wk[w] EXCEPT !.mail = Tail(@), !.last = now]

\* handle_message: unauthorized messages and errors change nothing but the time of the
\* last message.
HandleMessage(w) ==
    /\ wk[w].st = "running" /\ wk[w].mail # <<>> /\ pend[w] = NoMessage
    /\ LET m == Head(wk[w].mail) IN
       IF ~IsAuthorized(w, m)
       THEN /\ wk' = [wk EXCEPT ![w] = Touched(w)]
            /\ UNCHANGED <<reg, creator, pend, handled>>
       ELSE /\ handled' = handled \cup {[w |-> w, m |-> m]}
            /\ \/ /\ wk' = [wk EXCEPT ![w] = Touched(w)] /\ UNCHANGED <<reg, creator>>
                  /\ IF Options[w].forward # "none" THEN LookUp(w, Options[w].forward, "none") ELSE UNCHANGED pend
               \/ Options[w].fails /\ Death(w, FALSE)
    /\ UNCHANGED <<restarts, now, sends, stops>>

\* Ockam.Node.stop.
Stop(w) ==
    /\ wk[w].st = "running" /\ stops < MaxStops /\ stops' = stops + 1
    /\ Death(w, TRUE)
    /\ UNCHANGED <<restarts, handled, now, sends>>

IsIdle(w) == Options[w].idle # 0 /\ now > wk[w].last + Options[w].idle

\* handle_idle_timeout: the worker stops, or looks again later.
IdleTimeout(w) ==
    /\ wk[w].st = "running" /\ wk[w].timer >= 0 /\ wk[w].timer <= now
    /\ IF IsIdle(w) THEN Death(w, TRUE)
       ELSE wk' = [wk EXCEPT ![w].timer = ScheduleIdleTimeout(w, now)] /\ UNCHANGED <<reg, creator, pend>>
    /\ UNCHANGED <<restarts, handled, now, sends, stops>>

\* Timers are served when they are due; restarts of an earlier period no longer count.
Tick ==
    /\ now < MaxTime /\ now' = now + 1 /\ restarts' = 0
    /\ \A w \in Workers : wk[w].st = "running" /\ wk[w].timer >= 0 => wk[w].timer > now
    /\ UNCHANGED <<reg, wk, creator, pend, handled, sends, stops>>

Next ==
    \/ \E w \in Workers : Create(w) \/ PostInit(w) \/ PostInitFails(w) \/ Created(w) \/ Restart(w)
                          \/ HandleMessage(w) \/ Stop(w) \/ IdleTimeout(w)
    \/ \E s \in Senders : Route(s)
    \/ \E s \in Sending : SendFound(s) \/ SendLost(s)
    \/ SupervisorEnds \/ Tick

Spec == Init /\ [][Next]_vars
FairSpec == Spec /\ \A w \in Workers : WF_vars(PostInit(w) \/ PostInitFails(w)) /\ WF_vars(Created(w)) /\ WF_vars(Restart(w))
                 /\ WF_vars(SupervisorEnds)

----------------------------------------------------------------------------
\* Every address of a running worker leads to it, and addresses lead only to workers
\* that are alive: no message reaches a worker by an address that another one holds.
RegistryExact ==
    /\ \A w \in Workers : wk[w].st = "running" => \A a \in wk[w].all : reg[a] = w
    /\ \A a \in Addresses : reg[a] # Nobody => Alive(reg[a])

\* with_config: "When steps are in a map - only the current address steps are checked";
\* whatever is handled has passed all of them.
HandledAuthorized ==
    \A h \in handled : h.m.to \in DOMAIN Options[h.w].authorization =>
        \A k \in DOMAIN Options[h.w].authorization[h.m.to] : Allows(Options[h.w].authorization[h.m.to][k], h.m)

\* is_idle?: a worker stays at most one and a half idle timeouts without a message.
IdleBound ==
    \A w \in Workers : wk[w].st = "running" /\ Options[w].idle # 0 =>
        now <= wk[w].last + Options[w].idle + Options[w].idle \div 2 + 1

\* A worker that gets messages is not stopped for being idle.
ActiveKeptStep ==
  \A w \in Workers : wk[w].st = "running" /\ wk'[w].st = "dead" /\ stops' = stops /\ restarts' = restarts
   => Options[w].idle # 0 /\ now > wk[w].last + Options[w].idle
ActiveKept == [][ActiveKeptStep]_vars

\* create returns {:ok, address} only for a worker that has finished its setup.
CreatedRunsStep ==
  \A w \in Workers : creator[w] # "ok" /\ creator'[w] = "ok" => wk[w].st = "running"
CreatedRuns == [][CreatedRunsStep]_vars

\* create answers, also when the setup fails, the address is taken or the supervisor ends.
Waits(w) == creator[w] = "waiting"
HasAnswer(w) == creator[w] \in {"ok", "error"}
CreateAnswers == \A w \in Workers : Waits(w) ~> HasAnswer(w)

=============================================================================
