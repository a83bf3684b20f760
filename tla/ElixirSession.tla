----------------------------- MODULE ElixirSession --------------------------
(***************************************************************************)
(* Sessions of the Elixir library (ockam/lib/ockam/session): an initiator  *)
(* sends a handshake message to a spawner, which starts a responder for it *)
(* that answers; both ends then run their data worker in the same process. *)
(* With the handshake of pipe channels (messaging/pipe_channel) every end  *)
(* also creates the receiver of a pipe and tells the other its address.    *)
(* The initiator may crash: its supervisor starts it again at new          *)
(* addresses.  Routes are FIFO; messages may be lost.                      *)
(***************************************************************************)
EXTENDS Naturals, Sequences, SequencesExt, FiniteSets

CONSTANTS MaxRuns,    \* bound: incarnations of the initiator
          MaxData,    \* bound: data messages of every end
          MaxLost,    \* bound: lost messages
          Pipes       \* BOOLEAN: pipe channel handshake instead of the default one

\* A worker is named by its role and number: its inner address.  The receiver a
\* worker creates for a pipe belongs to it.
Initiator(n) == <<"initiator", n>>
Responder(n) == <<"responder", n>>
Nobody == <<"nobody", 0>>
Receiver(w) == IF Pipes THEN <<"receiver", w>> ELSE <<"none", w>>

VARIABLES
  run,        \* number of the initiator's current incarnation
  stage,      \* of the workers: "handshake", "data" or "stopped"
  options,    \* what the data worker was started with: [worker, receiver] of the peer
  receivers,  \* the receivers that exist
  toSpawner,  \* handshake messages on their way to the spawner
  link,       \* messages on their way to a worker, in order
  sent,       \* data messages sent per worker
  handled,    \* data messages given to the data worker of each worker
  waiter,     \* create_and_wait: "waiting", "ok" or "error"
  lost

vars == <<run, stage, options, receivers, toSpawner, link, sent, handled, waiter, lost>>

Workers == {Initiator(n) : n \in 1..MaxRuns} \cup {Responder(n) : n \in 1..MaxRuns}
me == Initiator(run)

\* Handshake.Default sends the worker's address, PipeChannel.Handshake the
\* address of its receiver too.
Meta(w) == [worker |-> w, receiver |-> Receiver(w)]
Handshake(w) == [type |-> "handshake", meta |-> Meta(w)]
Data(w, k) == [type |-> "data", from |-> w, number |-> k]

Start(n) ==
    /\ run' = n
    /\ toSpawner' = Append(toSpawner, Handshake(Initiator(n)))
    /\ stage' = [stage EXCEPT ![Initiator(n)] = "handshake", ![me] = IF n = run THEN @ ELSE "stopped"]
    /\ receivers' = receivers \cup {Receiver(Initiator(n))}

Init ==
    /\ run = 1
    /\ stage = [w \in Workers |-> IF w = Initiator(1) THEN "handshake" ELSE "none"]
    /\ options = [w \in Workers |-> Meta(Nobody)]
    /\ receivers = {Receiver(Initiator(1))}
    /\ toSpawner = <<Handshake(Initiator(1))>>
    /\ link = [w \in Workers |-> <<>>]
    /\ sent = [w \in Workers |-> 0] /\ handled = [w \in Workers |-> <<>>]
    /\ waiter = "waiting" /\ lost = 0

\* Spawner.handle_message starts a responder with the init message; its
\* inner_setup handles it: the data worker starts before the answer goes out.
Spawn ==
    /\ toSpawner # <<>>
    /\ \E n \in 1..MaxRuns :
        /\ stage[Responder(n)] = "none"
        /\ \A k \in 1..(n - 1) : stage[Responder(k)] # "none"
        /\ stage' = [stage EXCEPT ![Responder(n)] = "data"]
        /\ options' = [options EXCEPT ![Responder(n)] = Head(toSpawner).meta]
        /\ receivers' = receivers \cup {Receiver(Responder(n))}
        /\ link' = [link EXCEPT ![Head(toSpawner).meta.worker] = Append(@, Handshake(Responder(n)))]
    /\ toSpawner' = Tail(toSpawner)
    /\ UNCHANGED <<run, sent, handled, waiter, lost>>

\* Initiator.handle_message in the handshake stage.
InitiatorHandshake ==
    /\ link[me] # <<>> /\ stage[me] = "handshake"
    /\ link' = [link EXCEPT ![me] = Tail(@)]
    /\ \/ /\ Head(link[me]).type = "handshake"
          /\ stage' = [stage EXCEPT ![me] = "data"]
          /\ options' = [options EXCEPT ![me] = Head(link[me]).meta]
       \/ /\ Head(link[me]).type = "data"      \* does not decode: {:stop, {:shutdown, _}}
          /\ stage' = [stage EXCEPT ![me] = "stopped"] /\ UNCHANGED options
    /\ UNCHANGED <<run, receivers, toSpawner, sent, handled, waiter, lost>>

\* handle_data_message: in the data stage every message goes to the data worker.
HandleData(w) ==
    /\ stage[w] = "data" /\ link[w] # <<>>
    /\ handled' = [handled EXCEPT ![w] = Append(@, Head(link[w]))]
    /\ link' = [link EXCEPT ![w] = Tail(@)]
    /\ UNCHANGED <<run, stage, options, receivers, toSpawner, sent, waiter, lost>>

\* A message to the outer address: the data worker sends it to its peer, through
\* the peer's receiver in a pipe channel.  In the handshake stage it is ignored.
SendData(w) ==
    /\ stage[w] = "data" /\ sent[w] < MaxData
    /\ sent' = [sent EXCEPT ![w] = @ + 1]
    /\ LET to == options[w].worker IN
       link' = IF stage[to] \in {"handshake", "data"} /\ options[w].receiver \in receivers
               THEN [link EXCEPT ![to] = Append(@, Data(w, sent[w] + 1))] ELSE link
    /\ UNCHANGED <<run, stage, options, receivers, toSpawner, handled, waiter, lost>>

\* The initiator's process ends abnormally and is started again (:transient).
Crash ==
    /\ run < MaxRuns /\ stage[me] \in {"handshake", "data"}
    /\ Start(run + 1)
    /\ link' = [link EXCEPT ![me] = <<>>]
    /\ UNCHANGED <<options, sent, handled, waiter, lost>>

\* create_and_wait polls the worker it has created, and gives up after a while.
WaitReady ==
    /\ waiter = "waiting" /\ run = 1 /\ stage[me] = "data"
    /\ waiter' = "ok"
    /\ UNCHANGED <<run, stage, options, receivers, toSpawner, link, sent, handled, lost>>
WaitFails ==
    /\ waiter = "waiting"
    /\ waiter' = "error"
    /\ UNCHANGED <<run, stage, options, receivers, toSpawner, link, sent, handled, lost>>

Lose ==
    /\ lost < MaxLost /\ lost' = lost + 1
    /\ \/ toSpawner # <<>> /\ toSpawner' = Tail(toSpawner) /\ UNCHANGED link
       \/ \E w \in Workers :
            link[w] # <<>> /\ link' = [link EXCEPT ![w] = Tail(@)] /\ UNCHANGED toSpawner
    /\ UNCHANGED <<run, stage, options, receivers, sent, handled, waiter>>

Next ==
    \/ Spawn \/ InitiatorHandshake \/ Crash \/ WaitReady \/ WaitFails \/ Lose
    \/ \E w \in Workers : HandleData(w) \/ SendData(w)

Spec == Init /\ [][Next]_vars
FairSpec ==
    /\ Spec /\ WF_vars(Spawn) /\ WF_vars(InitiatorHandshake)
    /\ \A w \in Workers : WF_vars(HandleData(w))

(***************************************************************************)
(* Properties.                                                             *)
(***************************************************************************)
TypeOK ==
    /\ run \in 1..MaxRuns /\ waiter \in {"waiting", "ok", "error"}
    /\ \A w \in Workers : stage[w] \in {"none", "handshake", "data", "stopped"}
    /\ \A w \in Workers : stage[w] = "data" => options[w].worker \in Workers

\* The two ends of a session are made for each other: the data worker of an
\* initiator has the routes of a responder whose data worker was started with
\* the routes of this incarnation of the initiator, and the receiver it sends
\* through exists.
EndsMatch ==
    stage[me] = "data" =>
        LET r == options[me].worker IN
        /\ r[1] = "responder" /\ stage[r] = "data" /\ options[r] = Meta(me)
        /\ options[me].receiver \in receivers /\ options[me].receiver = Receiver(r)

\* Every responder has an initiator of its own: two sessions never share an end.
OwnPeer ==
    \A m, n \in 1..MaxRuns :
        (stage[Responder(m)] = "data" /\ stage[Responder(n)] = "data" /\ m # n)
            => options[Responder(m)] # options[Responder(n)]

\* Data never overtakes the answer of the handshake, since the answer goes out
\* before the data worker handles anything: an initiator is not stopped by a data
\* message, unless the answer itself was lost.
NotStoppedByData == lost = 0 => stage[me] # "stopped"

\* The data workers get the data messages of their peer, in order, and nothing
\* else: no handshake message reaches them.
DataInOrder ==
    \A w \in Workers : \A k \in 1..Len(handled[w]) :
        /\ handled[w][k].type = "data"
        /\ handled[w][k].from = options[w].worker
        /\ \A j \in 1..(k - 1) : handled[w][j].number < handled[w][k].number

\* create_and_wait answers ok only when the session had been set up.
WaitsForSession == waiter = "ok" => options[Initiator(1)].worker # Nobody

\* Without losses the last incarnation gets its session.
Started == stage[me] = "data" \/ lost > 0
SessionStarts == <>[]Started
=============================================================================
