-------------------------- MODULE AtMostOnceChannel --------------------------
(***************************************************************************)
(* What one direction of a secure channel promises: messages are numbered  *)
(* as they are sent, each may come out once, in any order or never, and    *)
(* nothing else comes out.                                                 *)
(***************************************************************************)
EXTENDS Integers

CONSTANT MaxNonce

VARIABLES
  sent,     \* number of messages sent
  received  \* for each message number, how often the message came out

Init ==
  /\ sent = 0
  /\ received = [n \in 0 .. MaxNonce |-> 0]

Send ==
  /\ sent < MaxNonce
  /\ sent' = sent + 1
  /\ UNCHANGED received

Receive(n) ==
  /\ n < sent
  /\ received[n] = 0
  /\ received' = [received EXCEPT ![n] = 1]
  /\ UNCHANGED sent

Next == Send \/ \E n \in 0 .. MaxNonce : Receive(n)

Spec == Init /\ [][Next]_<<sent, received>>

=============================================================================
