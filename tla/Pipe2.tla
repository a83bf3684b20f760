-------------------------------- MODULE Pipe2 -------------------------------
(***************************************************************************)
(* A pipe built by PipeBuilder (ockam/src/pipe2) with the worker systems   *)
(* of ockam/src/system: PipeSender and PipeReceiver are workers with one   *)
(* mailbox and an address for every stage.  A stage passes a message on by *)
(* sending it to the worker's own mailbox:                                 *)
(*                                                                         *)
(*   sender:   api -> ordering -> delivery -> fin -> the peer              *)
(*   receiver: entry (delivery) -> ordering -> fin -> onward               *)
(*                                                                         *)
(* Messages between the two workers may be lost and reordered.             *)
(***************************************************************************)
EXTENDS Naturals, Sequences, SequencesExt, FiniteSets

CONSTANTS Ordering, Delivery, Dynamic,  \* BOOLEAN: the pipe's configuration
          MaxApp                        \* bound: messages of the application

VARIABLES
  app,        \* messages the application has sent: 1, 2, ..., app
  mailbox,    \* the sender's mailbox
  alive,      \* the sender's task has not panicked
  index,      \* SenderOrdering: the next number
  journal,    \* SenderConfirm: messages without an ACK
  timers,     \* number of delayed resend_notify events
  peer,       \* "listener", or "peer" once the receiver is known
  outBuf,     \* messages kept until then
  handshake,  \* the message of the handshake under way
  net, acks,  \* messages and acknowledgements under way
  inbox,      \* the receiver's mailbox
  current, queued,  \* ReceiverOrdering: last number forwarded, messages ahead
  received,   \* messages the receiver has acknowledged
  forwarded   \* what the receiver has forwarded, in order

sendVars == <<mailbox, alive, index, journal, timers, peer, outBuf>>
recvVars == <<inbox, current, queued, received, forwarded>>
vars == <<app, sendVars, handshake, net, acks, recvVars>>

Init ==
    /\ app = 0 /\ mailbox = <<>> /\ alive = TRUE
    /\ index = 1 /\ journal = {} /\ timers = 0
    /\ peer = (IF Dynamic THEN "listener" ELSE "peer") /\ outBuf = <<>>
    /\ handshake = (IF Dynamic THEN "request" ELSE "none")
    /\ net = {} /\ acks = {}
    /\ inbox = <<>> /\ current = 0 /\ queued = {} /\ received = {} /\ forwarded = <<>>

\* build_systems: how the stages are chained.
SenderEntry == CASE Ordering -> "ordering" [] ~Ordering /\ Delivery -> "delivery" [] OTHER -> "fin"
AfterSenderOrdering == IF Delivery THEN "delivery" ELSE "fin"
AfterReceiverDelivery == IF Ordering THEN "ordering" ELSE "fin"

\* A message of the application, at a stage, with the number it was given.
At(stage, data, idx) == [stage |-> stage, data |-> data, idx |-> idx]

AppSends ==
    /\ app < MaxApp /\ alive
    /\ app' = app + 1
    /\ mailbox' = Append(mailbox, At("api", app + 1, 0))
    /\ UNCHANGED <<alive, index, journal, timers, peer, outBuf, handshake, net, acks, recvVars>>

\* The sender takes a message which is at stage s from its mailbox: a message
\* of the application (handle_api_msg) is at the entry of the system.
Takes(s) ==
    /\ alive /\ mailbox # <<>>
    /\ \/ Head(mailbox).stage = s
       \/ Head(mailbox).stage = "api" /\ SenderEntry = s
PassOn(stage, idx) ==
    mailbox' = Append(Tail(mailbox), At(stage, Head(mailbox).data, idx))

\* SenderOrdering::handle_message.
OrderingStage ==
    /\ Takes("ordering")
    /\ PassOn(AfterSenderOrdering, index)
    /\ index' = index + 1
    /\ UNCHANGED <<app, alive, journal, timers, peer, outBuf, handshake, net, acks, recvVars>>

\* SenderConfirm::handle_message, for a message without a type.
DeliveryStage ==
    /\ Takes("delivery")
    /\ PassOn("fin", Head(mailbox).idx)
    /\ journal' = journal \cup {Head(mailbox).data}
    /\ timers' = timers + 1
    /\ UNCHANGED <<app, alive, index, peer, outBuf, handshake, net, acks, recvVars>>

\* handle_fin_msg, at the end of the system or at once when there is none.
FinStage ==
    /\ Takes("fin")
    /\ mailbox' = Tail(mailbox)
    /\ IF peer = "peer"
       THEN net' = net \cup {Head(mailbox)} /\ UNCHANGED outBuf
       ELSE outBuf' = Append(outBuf, Head(mailbox)) /\ UNCHANGED net
    /\ UNCHANGED <<app, alive, index, journal, timers, peer, handshake, acks, recvVars>>

\* SenderConfirm::handle_message, ockam.pipe.ack.
AckStage(d) ==
    /\ d \in acks /\ alive
    /\ acks' = acks \ {d}
    /\ journal' = journal \ {d}
    /\ UNCHANGED <<app, mailbox, alive, index, timers, peer, outBuf, handshake, net, recvVars>>

\* SenderConfirm::handle_message, ockam.pipe.resend_notify: the delayed message
\* has no ockam.pipe.ack_id, and unwrap() panics.
ResendNotify ==
    /\ timers > 0 /\ alive
    /\ timers' = timers - 1
    /\ alive' = FALSE
    /\ UNCHANGED <<app, mailbox, index, journal, peer, outBuf, handshake, net, acks, recvVars>>

\* PipeListener::handle_message, and the first message of the PipeReceiver.
ListenerAnswers ==
    /\ handshake = "request"
    /\ handshake' = "answer"
    /\ UNCHANGED <<app, sendVars, net, acks, recvVars>>

\* PipeSender::handle_message at the address of the handshake.
HandshakeDone ==
    /\ handshake = "answer" /\ alive
    /\ handshake' = "none"
    /\ peer' = "peer"
    /\ net' = net \cup Range(outBuf)
    /\ outBuf' = <<>>
    /\ UNCHANGED <<app, mailbox, alive, index, journal, timers, acks, recvVars>>

\* The receiver's stages.  ReceiverConfirm acknowledges first.
Entry(m) ==
    /\ m \in net
    /\ net' = net \ {m}
    /\ acks' = IF Delivery THEN acks \cup {m.data} ELSE acks
    /\ received' = received \cup {m.data}
    /\ inbox' = Append(inbox, At(AfterReceiverDelivery, m.data, m.idx))
    /\ UNCHANGED <<app, sendVars, handshake, current, queued, forwarded>>

\* ReceiverOrdering::handle_message.
Reached(from) == CHOOSE n \in from..MaxApp :
    /\ \A i \in (from + 1)..n : \E q \in queued : q.idx = i
    /\ \A q \in queued : q.idx # n + 1

InOrderStage ==
    LET m == Head(inbox)
        top == Reached(m.idx)
        Fin(i) == CHOOSE q \in queued : q.idx = i
    IN  /\ inbox # <<>> /\ m.stage = "ordering"
        /\ \/ /\ m.idx = current + 1
              /\ current' = top
              /\ queued' = {q \in queued : q.idx > top}
              /\ inbox' = Tail(inbox) \o <<At("fin", m.data, 0)>>
                            \o [k \in 1..(top - m.idx) |-> At("fin", Fin(m.idx + k).data, 0)]
           \/ /\ m.idx > current + 1
              /\ queued' = queued \cup {m}
              /\ inbox' = Tail(inbox) /\ UNCHANGED current
           \/ /\ m.idx <= current
              /\ inbox' = Tail(inbox) /\ UNCHANGED <<current, queued>>
        /\ UNCHANGED <<app, sendVars, handshake, net, acks, received, forwarded>>

OutStage ==
    /\ inbox # <<>> /\ Head(inbox).stage = "fin"
    /\ inbox' = Tail(inbox)
    /\ forwarded' = Append(forwarded, Head(inbox).data)
    /\ UNCHANGED <<app, sendVars, handshake, net, acks, current, queued, received>>

\* The network loses a message.
Lose ==
    /\ \/ \E m \in net : net' = net \ {m} /\ UNCHANGED acks
       \/ \E a \in acks : acks' = acks \ {a} /\ UNCHANGED net
    /\ UNCHANGED <<app, sendVars, handshake, recvVars>>

Next ==
    \/ AppSends \/ OrderingStage \/ DeliveryStage \/ FinStage \/ ResendNotify
    \/ ListenerAnswers \/ HandshakeDone \/ InOrderStage \/ OutStage \/ Lose
    \/ \E d \in acks : AckStage(d)
    \/ \E m \in net : Entry(m)

Spec == Init /\ [][Next]_vars

(***************************************************************************)
(* Properties.                                                             *)
(***************************************************************************)
\* Every message in a mailbox, a buffer or on its way is one the application
\* has sent, numbered at most once.
TypeOK ==
    /\ index \in 1..(MaxApp + 1) /\ timers \in 0..MaxApp /\ alive \in BOOLEAN
    /\ \A m \in net \cup queued \cup Range(mailbox) \cup Range(outBuf) \cup Range(inbox) :
        m.data \in 1..app /\ m.idx \in 0..(index - 1)
    /\ Ordering => \A m, n \in net \cup queued \cup Range(outBuf) :
        m.idx = n.idx => m.data = n.data

\* The trip through the mailboxes, the buffer of a dynamic pipe and the network
\* keeps the order: with ordering, what is forwarded is what was sent, from the
\* first message on, without a gap.
InOrder ==
    Ordering => forwarded = [k \in 1..Len(forwarded) |-> k]

\* SenderConfirm forgets a message only when the receiver has it.
UnackedKept ==
    Delivery => \A d \in 1..app :
        d \in received \cup journal \/ \E m \in Range(mailbox) : m.data = d

=============================================================================
