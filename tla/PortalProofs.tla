---------------------------- MODULE PortalProofs ----------------------------
(***************************************************************************)
(* A portal is a pipe, for any number of chunks and whoever resets the     *)
(* connection.  The invariant describes each route by the chunks it        *)
(* carries up to the first Disconnect, counted from what the side has got  *)
(* to what the other side has read.  Each step of a worker, a receiver or  *)
(* a local peer is then one of three: it leaves a route alone or closes    *)
(* the side it leads to (FlowKept), adds to the route (FlowSent), or takes *)
(* its first message (FlowTaken).                                          *)
(***************************************************************************)
EXTENDS Portal, SequenceTheorems, TLAPS

(***************************************************************************)
(* The inductive invariant.                                                *)
(***************************************************************************)
Msgs == {Ping, Pong, Disconnect} \union {Payload(n) : n \in Nat}

\* A route with no Disconnect among its first i messages.
NoneUpTo(q, i) == \A j \in 1..i : q[j] # Disconnect

\* The messages q on their way to a side which has got so many chunks: after the h
\* of the greeting, and up to a Disconnect, they are the chunks that follow, up
\* to the last one read.
Carries(q, got, h, last) ==
    /\ \A i \in 1..Len(q) : i > h /\ NoneUpTo(q, i) =>
         q[i] = Payload(got + i - h) /\ got + i - h <= last
    /\ NoneUpTo(q, Len(q)) => got + Len(q) - h = last

\* The first Disconnect among them comes after the last chunk.
EndsAfter(q, got, h, last) ==
    \A i \in 1..Len(q) : q[i] = Disconnect /\ NoneUpTo(q, i - 1) => got + i - 1 - h = last

\* The side can still get chunks.
Open(s) == worker[s] \in {"none", "ReceivePong", "Connecting", "Initialized"}

\* Whether the message that greets the side is on its way, and which one it is.
Hello(s) == IF worker[s] \in {"none", "ReceivePong"} /\ net[s] # <<>> THEN 1 ELSE 0

\* The stream of the local peer is over, and all of it has been forwarded.
Drained(s) == receiver[s] = "stopped" /\ peer[s] \in {"closed", "reset"} /\ read[s] = sent[s]

\* Types of all variables; the two workers and their receiver at start.
PortalTypes ==
    /\ peer \in [Sides -> {"none", "open", "closed", "reset"}]
    /\ sent \in [Sides -> Nat] /\ read \in [Sides -> Nat]
    /\ received \in [Sides -> Seq(Nat)]
    /\ worker \in [Sides -> {"none", "ReceivePong", "Connecting", "SendPong",
                             "Initialized", "disconnecting", "stopped"}]
    /\ reason \in [Sides -> {"none", "Remote", "FailedTx", "FailedRx"}]
    /\ remote \in [Sides -> BOOLEAN] /\ internal \in [Sides -> BOOLEAN]
    /\ receiver \in [Sides -> {"none", "running", "stopped"}]
    /\ net \in [Sides -> Seq(Msgs)]

\* The greetings: Ping is the first message to the outlet and Pong to the inlet,
\* and nothing is forwarded before.
Greetings ==
    /\ worker["inlet"] \notin {"Connecting", "SendPong"} /\ worker["outlet"] # "ReceivePong"
    /\ worker["outlet"] = "none" =>
         /\ worker["inlet"] \in {"none", "ReceivePong"} /\ net["inlet"] = <<>>
         /\ net["outlet"] = IF worker["inlet"] = "none" THEN <<>> ELSE <<Ping>>
    /\ worker["inlet"] = "none" => worker["outlet"] = "none"
    /\ worker["inlet"] = "ReceivePong" /\ worker["outlet"] # "none" =>
         net["inlet"] # <<>> /\ net["inlet"][1] = Pong
    /\ \A s \in Sides : worker[s] \in {"none", "ReceivePong", "Connecting", "SendPong"} =>
         receiver[s] = "none" /\ ~internal[s]
    /\ \A s \in Sides : reason[s] # "none" => worker[s] \in {"disconnecting", "stopped"}

\* What is on its way to a side and what it has got make up what was read on the
\* other side, and a Disconnect follows the end of the stream, unless a failed
\* write announced it.
Flow(s) ==
    LET o == Other(s)
        got == Len(received[s])
    IN  /\ Open(s) => /\ Carries(net[s], got, Hello(s), read[o])
                      /\ reason[o] # "FailedTx" /\ ~NoneUpTo(net[s], Len(net[s])) =>
                           Drained(o) /\ EndsAfter(net[s], got, Hello(s), read[o])
        /\ received[s] = Chunks(got) /\ got <= read[o] /\ read[o] <= sent[o]
        /\ internal[s] => Drained(s)
        /\ reason[s] = "Remote" /\ reason[o] # "FailedTx" => got = sent[o] /\ Drained(o)

PortalInv == PortalTypes /\ Greetings /\ \A s \in Sides : Flow(s)

(***************************************************************************)
(* Proofs, for any number of chunks and any resets.                        *)
(***************************************************************************)
\* The two sides are each other's other.
LEMMA TwoSides ==
  \A s \in Sides : Other(s) \in Sides /\ Other(s) # s /\ Other(Other(s)) = s
                   /\ \A t \in Sides : t = s \/ t = Other(s)
BY DEF Sides, Other

\* The messages of a portal are told apart by their first field.
LEMMA MessagesDiffer ==
  /\ Ping \in Msgs /\ Pong \in Msgs /\ Disconnect \in Msgs /\ Ping # Pong
  /\ Ping # Disconnect /\ Pong # Disconnect
  /\ Ping[1] # "Payload" /\ Pong[1] # "Payload" /\ Disconnect[1] # "Payload"
  /\ \A n \in Nat : /\ Payload(n) \in Msgs /\ Payload(n)[1] = "Payload" /\ Payload(n)[2] = n
                    /\ Payload(n) # Disconnect /\ Payload(n) # Ping /\ Payload(n) # Pong
<1>1. /\ Ping[1] = "Ping" /\ Pong[1] = "Pong" /\ Disconnect[1] = "Disconnect"
      /\ \A n \in Nat : Payload(n)[1] = "Payload" /\ Payload(n)[2] = n
  BY DEF Ping, Pong, Disconnect, Payload
<1>2. /\ Ping \in Msgs /\ Pong \in Msgs /\ Disconnect \in Msgs
      /\ \A n \in Nat : Payload(n) \in Msgs
  BY DEF Msgs
<1> QED BY <1>1, <1>2

\* Taking the first message of a route.
LEMMA TakeFirst ==
  ASSUME NEW q \in Seq(Msgs), q # <<>>
  PROVE  /\ Tail(q) \in Seq(Msgs) /\ Len(q) \in Nat /\ Len(q) >= 1
         /\ Len(Tail(q)) = Len(q) - 1 /\ Head(q) = q[1] /\ q[1] \in Msgs
         /\ \A i \in 1..Len(Tail(q)) : i + 1 \in 1..Len(q) /\ Tail(q)[i] = q[i + 1]
<1>1. Len(q) \in Nat \ {0} BY EmptySeq
<1>2. /\ Tail(q) \in Seq(Msgs) /\ Len(Tail(q)) = Len(q) - 1
      /\ \A i \in 1..Len(Tail(q)) : Tail(q)[i] = q[i + 1]
  BY HeadTailProperties
<1>3. 1 \in 1..Len(q) /\ q[1] \in Msgs BY <1>1, ElementOfSeq
<1>4. Head(q) = q[1] OBVIOUS
<1> QED BY <1>1, <1>2, <1>3, <1>4

\* Adding a message to a route.
LEMMA AddLast ==
  ASSUME NEW q \in Seq(Msgs), NEW m \in Msgs
  PROVE  /\ Append(q, m) \in Seq(Msgs) /\ Len(q) \in Nat
         /\ Len(Append(q, m)) = Len(q) + 1 /\ Append(q, m) # <<>>
         /\ \A i \in 1..Len(q) : Append(q, m)[i] = q[i]
         /\ Append(q, m)[Len(q) + 1] = m
         /\ q \o <<m>> = Append(q, m)
<1>1. /\ Append(q, m) \in Seq(Msgs) /\ Len(Append(q, m)) = Len(q) + 1
      /\ \A i \in 1..Len(q) : Append(q, m)[i] = q[i]
      /\ Append(q, m)[Len(q) + 1] = m
  BY AppendProperties
<1>2. Len(q) \in Nat BY LenProperties
<1>3. q \o <<m>> = Append(q, m) BY AppendIsConcat
<1>4. Append(q, m) # <<>> BY <1>1, <1>2, EmptySeq
<1> QED BY <1>1, <1>2, <1>3, <1>4

\* Once the greeting or a chunk is taken, the rest carries what follows.
LEMMA CarriesTail ==
  ASSUME NEW q \in Seq(Msgs), q # <<>>, q[1] # Disconnect, NEW got \in Nat,
         NEW h \in {0, 1}, NEW last \in Nat, Carries(q, got, h, last)
  PROVE  /\ Carries(Tail(q), got + 1 - h, 0, last)
         /\ EndsAfter(q, got, h, last) => EndsAfter(Tail(q), got + 1 - h, 0, last)
         /\ NoneUpTo(q, Len(q)) => NoneUpTo(Tail(q), Len(Tail(q)))
<1> DEFINE t == Tail(q)
<1>1. /\ Len(q) \in Nat /\ Len(q) >= 1 /\ Len(t) = Len(q) - 1
      /\ \A i \in 1..Len(t) : i + 1 \in 1..Len(q) /\ t[i] = q[i + 1]
  BY TakeFirst
<1> HIDE DEF t
<1>2. ASSUME NEW i \in 0..Len(t), NoneUpTo(t, i) PROVE NoneUpTo(q, i + 1)
  <2> SUFFICES ASSUME NEW j \in 1..i + 1 PROVE q[j] # Disconnect BY DEF NoneUpTo
  <2>1. CASE j = 1 BY <2>1
  <2>2. CASE j # 1
    <3>1. j - 1 \in 1..i /\ j - 1 \in 1..Len(t) /\ (j - 1) + 1 = j BY <1>1, <2>2
    <3> QED BY Zenon, <1>1, <1>2, <3>1 DEF NoneUpTo
  <2> QED BY <2>1, <2>2
<1>3. ASSUME NEW i \in 1..Len(t), NoneUpTo(t, i)
      PROVE  t[i] = Payload(got + 1 - h + i - 0) /\ got + 1 - h + i - 0 <= last
  <2>1. i + 1 \in 1..Len(q) /\ i + 1 > h /\ NoneUpTo(q, i + 1) /\ i \in 0..Len(t)
    BY <1>1, <1>2, <1>3
  <2>2. q[i + 1] = Payload(got + (i + 1) - h) /\ got + (i + 1) - h <= last
    BY <2>1 DEF Carries
  <2>3. got + (i + 1) - h = got + 1 - h + i - 0 BY <1>1
  <2> QED BY <1>1, <2>2, <2>3
<1>4. NoneUpTo(t, Len(t)) => NoneUpTo(q, Len(q))
  <2>1. Len(t) \in 0..Len(t) /\ Len(t) + 1 = Len(q) BY <1>1
  <2> QED BY <1>2, <2>1
<1>5. NoneUpTo(t, Len(t)) => got + 1 - h + Len(t) - 0 = last
  <2>1. NoneUpTo(q, Len(q)) => got + Len(q) - h = last BY DEF Carries
  <2>2. got + 1 - h + Len(t) - 0 = got + Len(q) - h BY <1>1
  <2> QED BY <1>4, <2>1, <2>2
<1>6. ASSUME EndsAfter(q, got, h, last), NEW i \in 1..Len(t), t[i] = Disconnect,
             NoneUpTo(t, i - 1)
      PROVE  got + 1 - h + i - 1 - 0 = last
  <2>1. i - 1 \in 0..Len(t) /\ (i - 1) + 1 = i /\ (i + 1) - 1 = i /\ i + 1 \in 1..Len(q)
    BY <1>1
  <2>2. NoneUpTo(q, (i + 1) - 1) /\ q[i + 1] = Disconnect
    BY <1>1, <1>2, <1>6, <2>1
  <2>3. got + (i + 1) - 1 - h = last BY <1>6, <2>1, <2>2 DEF EndsAfter
  <2> QED BY <1>1, <2>3
<1>7. ASSUME NoneUpTo(q, Len(q)) PROVE NoneUpTo(t, Len(t))
  BY <1>1, <1>7 DEF NoneUpTo
<1> QED BY <1>3, <1>5, <1>6, <1>7 DEF Carries, EndsAfter, t

\* The next chunk, or a Disconnect, is added at the end.
LEMMA CarriesMore ==
  ASSUME NEW q \in Seq(Msgs), NEW got \in Nat, NEW h \in Nat, h <= Len(q),
         NEW last \in Nat, Carries(q, got, h, last)
  PROVE  /\ Carries(Append(q, Payload(last + 1)), got, h, last + 1)
         /\ NoneUpTo(q, Len(q)) => NoneUpTo(Append(q, Payload(last + 1)),
                                            Len(Append(q, Payload(last + 1))))
         /\ Carries(Append(q, Disconnect), got, h, last)
         /\ EndsAfter(q, got, h, last) \/ NoneUpTo(q, Len(q)) =>
              EndsAfter(Append(q, Disconnect), got, h, last)
<1>1. ASSUME NEW m \in Msgs, NEW i \in 0..Len(q)
      PROVE  NoneUpTo(Append(q, m), i) <=> NoneUpTo(q, i)
  <2>1. \A j \in 1..i : j \in 1..Len(q) BY AddLast
  <2> QED BY <2>1, AddLast DEF NoneUpTo
<1>2. Payload(last + 1) \in Msgs /\ Disconnect \in Msgs /\ Payload(last + 1) # Disconnect
  BY MessagesDiffer
<1>3. ASSUME NEW m \in Msgs, NEW i \in 1..Len(Append(q, m)), i > h,
             NoneUpTo(Append(q, m), i), m = Payload(last + 1) \/ m = Disconnect
      PROVE  /\ Append(q, m)[i] = Payload(got + i - h) /\ got + i - h <= last + 1
             /\ m = Disconnect => got + i - h <= last
  <2>1. Len(q) \in Nat /\ Len(Append(q, m)) = Len(q) + 1 BY AddLast
  <2>2. CASE i <= Len(q)
    <3>1. i \in 1..Len(q) /\ i \in 0..Len(q) BY <2>1, <2>2
    <3>2. NoneUpTo(q, i) BY <1>1, <1>3, <3>1
    <3>3. q[i] = Payload(got + i - h) /\ got + i - h <= last
      BY <1>3, <3>1, <3>2 DEF Carries
    <3>4. got + i - h <= last + 1 BY <3>1, <3>3
    <3> QED BY <3>1, <3>3, <3>4, AddLast
  <2>3. CASE i > Len(q)
    <3>1. i = Len(q) + 1 /\ i \in 1..i /\ \A j \in 1..Len(q) : j \in 1..i BY <2>1, <2>3
    <3>2. Append(q, m)[i] = m /\ m # Disconnect
      BY <1>3, <3>1, AddLast DEF NoneUpTo
    <3>3. NoneUpTo(q, Len(q))
      BY <1>3, <3>1, AddLast DEF NoneUpTo
    <3>4. got + Len(q) - h = last BY <3>3 DEF Carries
    <3>5. last + 1 = got + i - h BY <2>1, <3>1, <3>4
    <3> QED BY <1>3, <3>2, <3>5
  <2> QED BY <2>1, <2>2, <2>3
<1>4. NoneUpTo(Append(q, Payload(last + 1)), Len(Append(q, Payload(last + 1)))) =>
        got + Len(Append(q, Payload(last + 1))) - h = last + 1
  <2> DEFINE m == Payload(last + 1)
  <2>1. Len(q) \in Nat /\ Len(Append(q, m)) = Len(q) + 1 BY <1>2, AddLast
  <2>2. NoneUpTo(Append(q, m), Len(q) + 1) => NoneUpTo(q, Len(q))
    <3>1. \A j \in 1..Len(q) : j \in 1..Len(q) + 1 BY <2>1
    <3> QED BY <1>2, <3>1, AddLast DEF NoneUpTo
  <2>3. NoneUpTo(q, Len(q)) => got + Len(q) - h = last BY DEF Carries
  <2> HIDE DEF m
  <2>4. NoneUpTo(Append(q, m), Len(Append(q, m))) => got + Len(Append(q, m)) - h = last + 1
    BY <2>1, <2>2, <2>3
  <2> QED BY <2>4 DEF m
<1>5. NoneUpTo(q, Len(q)) => NoneUpTo(Append(q, Payload(last + 1)),
                                      Len(Append(q, Payload(last + 1))))
  <2> DEFINE m == Payload(last + 1)
  <2>1. Len(q) \in Nat /\ Len(Append(q, m)) = Len(q) + 1 BY <1>2, AddLast
  <2>2. \A j \in 1..Len(q) + 1 : j \in 1..Len(q) \/ j = Len(q) + 1 BY <2>1
  <2> QED BY <1>2, <2>1, <2>2, AddLast DEF NoneUpTo
<1>6. ~NoneUpTo(Append(q, Disconnect), Len(Append(q, Disconnect)))
  <2>1. Len(q) \in Nat /\ Len(Append(q, Disconnect)) = Len(q) + 1
        /\ Append(q, Disconnect)[Len(q) + 1] = Disconnect
    BY <1>2, AddLast
  <2>2. Len(q) + 1 \in 1..Len(q) + 1 BY <2>1
  <2> QED BY <2>1, <2>2 DEF NoneUpTo
<1>7. ASSUME EndsAfter(q, got, h, last) \/ NoneUpTo(q, Len(q)),
             NEW i \in 1..Len(Append(q, Disconnect)), Append(q, Disconnect)[i] = Disconnect,
             NoneUpTo(Append(q, Disconnect), i - 1)
      PROVE  got + i - 1 - h = last
  <2>1. Len(q) \in Nat /\ Len(Append(q, Disconnect)) = Len(q) + 1 BY <1>2, AddLast
  <2>2. i - 1 \in 0..Len(q) BY <2>1
  <2>3. NoneUpTo(q, i - 1) BY <1>1, <1>2, <1>7, <2>2
  <2>4. CASE i <= Len(q)
    <3>1. i \in 1..Len(q) BY <2>1, <2>4
    <3>2. q[i] = Disconnect BY <1>2, <1>7, <3>1, AddLast
    <3>3. ~NoneUpTo(q, Len(q)) BY <3>1, <3>2 DEF NoneUpTo
    <3> QED BY <1>7, <2>3, <3>1, <3>2, <3>3 DEF EndsAfter
  <2>5. CASE i > Len(q)
    <3>1. i - 1 = Len(q) BY <2>1, <2>5
    <3>2. got + Len(q) - h = last BY <2>3, <3>1 DEF Carries
    <3> QED BY <2>1, <3>1, <3>2
  <2> QED BY <2>1, <2>4, <2>5
<1>8. Carries(Append(q, Payload(last + 1)), got, h, last + 1)
  BY <1>2, <1>3, <1>4 DEF Carries
<1>9. Carries(Append(q, Disconnect), got, h, last)
  BY <1>2, <1>3, <1>6 DEF Carries
<1>10. EndsAfter(q, got, h, last) \/ NoneUpTo(q, Len(q)) =>
         EndsAfter(Append(q, Disconnect), got, h, last)
  BY <1>7 DEF EndsAfter
<1> QED BY <1>5, <1>8, <1>9, <1>10

\* What sending and taking a message do to the two routes.
LEMMA Routes ==
  ASSUME PortalTypes, NEW s \in Sides
  PROVE  /\ \A m \in Msgs : /\ Send(s, m) \in [Sides -> Seq(Msgs)]
                            /\ Send(s, m)[s] = net[s]
                            /\ Send(s, m)[Other(s)] = Append(net[Other(s)], m)
         /\ net[s] # <<>> => /\ Took(s) \in [Sides -> Seq(Msgs)]
                             /\ Took(s)[s] = Tail(net[s])
                             /\ Took(s)[Other(s)] = net[Other(s)]
         /\ \A ms \in Seq(Msgs) : net[s] # <<>> =>
              /\ TakeAndSend(s, ms) \in [Sides -> Seq(Msgs)]
              /\ TakeAndSend(s, ms)[s] = Tail(net[s])
              /\ TakeAndSend(s, ms)[Other(s)] = net[Other(s)] \o ms
<1>1. /\ Other(s) \in Sides /\ Other(s) # s /\ net \in [Sides -> Seq(Msgs)]
  BY TwoSides DEF PortalTypes
<1>2. net[s] \in Seq(Msgs) /\ net[Other(s)] \in Seq(Msgs) BY <1>1
<1>3. \A m \in Msgs : Append(net[Other(s)], m) \in Seq(Msgs) BY <1>2, AddLast
<1>4. net[s] # <<>> => Tail(net[s]) \in Seq(Msgs) BY <1>2, TakeFirst
<1>5. \A ms \in Seq(Msgs) : net[Other(s)] \o ms \in Seq(Msgs) BY <1>2, ConcatProperties
<1>6. ASSUME NEW m \in Msgs
      PROVE  /\ Send(s, m) \in [Sides -> Seq(Msgs)] /\ Send(s, m)[s] = net[s]
             /\ Send(s, m)[Other(s)] = Append(net[Other(s)], m)
  BY <1>1, <1>3 DEF Send
<1>7. ASSUME net[s] # <<>>
      PROVE  /\ Took(s) \in [Sides -> Seq(Msgs)] /\ Took(s)[s] = Tail(net[s])
             /\ Took(s)[Other(s)] = net[Other(s)]
  BY <1>1, <1>4, <1>7 DEF Took
<1>8. ASSUME NEW ms \in Seq(Msgs), net[s] # <<>>
      PROVE  /\ TakeAndSend(s, ms) \in [Sides -> Seq(Msgs)]
             /\ TakeAndSend(s, ms)[s] = Tail(net[s])
             /\ TakeAndSend(s, ms)[Other(s)] = net[Other(s)] \o ms
  BY Zenon, <1>1, <1>4, <1>5, <1>8 DEF TakeAndSend
<1> QED BY Zenon, <1>6, <1>7, <1>8

\* The notice of a disconnection is a Disconnect, or nothing.
LEMMA NoticeIs ==
  ASSUME NEW s \in Sides, NEW why
  PROVE  /\ Notice(s, why) \in Seq(Msgs)
         /\ \/ \A q \in Seq(Msgs) : q \o Notice(s, why) = q
            \/ \A q \in Seq(Msgs) : q \o Notice(s, why) = Append(q, Disconnect)
<1>1. <<Disconnect>> \in Seq(Msgs) /\ <<>> \in Seq(Msgs)
  BY MessagesDiffer, EmptySeq
<1>2. \A q \in Seq(Msgs) : q \o <<>> = q BY ConcatEmptySeq
<1>3. \A q \in Seq(Msgs) : q \o <<Disconnect>> = Append(q, Disconnect)
  BY AddLast, MessagesDiffer
<1>4. Notice(s, why) = <<Disconnect>> \/ Notice(s, why) = <<>> BY Zenon DEF Notice
<1> QED BY <1>1, <1>2, <1>3, <1>4, Zenon

\* A message whose first field is "Payload" holds a chunk.
LEMMA PayloadHolds ==
  ASSUME NEW m \in Msgs, m[1] = "Payload" PROVE m[2] \in Nat /\ m = Payload(m[2])
BY MessagesDiffer DEF Msgs

\* Every step keeps the types.
LEMMA TypesStep ==
  ASSUME PortalTypes, [Next]_vars
  PROVE  PortalTypes'
<1>1. CASE UNCHANGED vars BY <1>1 DEF vars, PortalTypes
<1>2. ASSUME NEW s \in Sides,
             PeerSends(s) \/ PeerCloses(s) \/ PeerResets(s) \/ PeerAnswersClose(s)
      PROVE  PortalTypes'
  <2>1. CASE PeerSends(s) BY <2>1 DEF PeerSends, PortalTypes
  <2>2. CASE PeerCloses(s) BY <2>2 DEF PeerCloses, PortalTypes
  <2>3. CASE PeerResets(s) BY <2>3 DEF PeerResets, PortalTypes
  <2>4. CASE PeerAnswersClose(s) BY <2>4 DEF PeerAnswersClose, PortalTypes
  <2> QED BY <1>2, <2>1, <2>2, <2>3, <2>4
<1>3. ASSUME NEW s \in Sides, ReceiverStep(s) PROVE PortalTypes'
  <2>1. read[s] + 1 \in Nat /\ Payload(read[s] + 1) \in Msgs /\ Disconnect \in Msgs
    BY MessagesDiffer DEF PortalTypes
  <2>2. net' \in [Sides -> Seq(Msgs)]
    <3>1. CASE ForwardChunk(s) BY <2>1, <3>1, Routes DEF ForwardChunk
    <3>2. CASE ReadEnd(s) BY <2>1, <3>2, Routes DEF ReadEnd
    <3>3. CASE ReadError(s) BY <3>3 DEF ReadError, PortalTypes
    <3> QED BY <1>3, <3>1, <3>2, <3>3 DEF ReceiverStep
  <2>3. CASE ForwardChunk(s) BY <2>1, <2>2, <2>3 DEF ForwardChunk, PortalTypes
  <2>4. CASE ReadEnd(s) BY <2>2, <2>4 DEF ReadEnd, PortalTypes
  <2>5. CASE ReadError(s) BY <2>2, <2>5 DEF ReadError, PortalTypes
  <2> QED BY <1>3, <2>3, <2>4, <2>5 DEF ReceiverStep
<1>4. ASSUME NEW s \in Sides, WorkerStep(s) PROVE PortalTypes'
  <2>1. CASE HandlePayload(s)
    <3>1. net[s] \in Seq(Msgs) /\ net[s] # <<>> /\ Head(net[s])[1] = "Payload"
      BY <2>1 DEF HandlePayload, PortalTypes
    <3>2. Head(net[s])[2] \in Nat BY <3>1, TakeFirst, PayloadHolds
    <3>3. Append(received[s], Head(net[s])[2]) \in Seq(Nat)
      BY <3>2, AppendProperties DEF PortalTypes
    <3>4. net' \in [Sides -> Seq(Msgs)] BY <2>1, Routes DEF HandlePayload
    <3> QED BY Zenon, <2>1, <3>3, <3>4 DEF HandlePayload, PortalTypes
  <2>2. ASSUME NEW why \in {"Remote", "FailedTx", "FailedRx"}, StartDisconnection(s, why)
        PROVE  /\ worker' \in [Sides -> {"none", "ReceivePong", "Connecting", "SendPong",
                                         "Initialized", "disconnecting", "stopped"}]
               /\ reason' \in [Sides -> {"none", "Remote", "FailedTx", "FailedRx"}]
               /\ remote' \in [Sides -> BOOLEAN]
    <3>1. reason' \in [Sides -> {"none", "Remote", "FailedTx", "FailedRx"}]
      BY <2>2 DEF StartDisconnection, PortalTypes
    <3>2. remote' \in [Sides -> BOOLEAN]
      BY <2>2 DEF StartDisconnection, PortalTypes
    <3> QED BY <2>2, <3>1, <3>2 DEF StartDisconnection, PortalTypes
  <2>3. CASE FailedTx(s)
    <3>1. net' \in [Sides -> Seq(Msgs)] BY <2>3, Routes, NoticeIs DEF FailedTx
    <3> QED BY <2>2, <2>3, <3>1 DEF FailedTx, PortalTypes
  <2>4. CASE FailedRx(s)
    <3>1. net[Other(s)] \o Notice(s, "FailedRx") \in Seq(Msgs)
      BY TwoSides, NoticeIs, ConcatProperties DEF PortalTypes
    <3>2. net' \in [Sides -> Seq(Msgs)] BY Zenon, <2>4, <3>1 DEF FailedRx, PortalTypes
    <3> QED BY Zenon, <2>2, <2>4, <3>2 DEF FailedRx, PortalTypes
  <2>5. CASE RemoteDisconnect(s)
    <3>1. net' \in [Sides -> Seq(Msgs)] BY <2>5, Routes DEF RemoteDisconnect
    <3> QED BY <2>2, <2>5, <3>1 DEF RemoteDisconnect, PortalTypes
  <2>6. CASE FinishDisconnection(s) BY <2>6 DEF FinishDisconnection, PortalTypes
  <2>7. CASE Discard(s)
    <3>1. net' \in [Sides -> Seq(Msgs)] BY <2>7, Routes DEF Discard
    <3> QED BY Zenon, <2>7, <3>1 DEF Discard, PortalTypes
  <2>8. "inlet" \in Sides /\ "outlet" \in Sides BY DEF Sides
  <2>9. CASE InletAccept
    <3>1. net' \in [Sides -> Seq(Msgs)] BY <2>8, <2>9, Routes, MessagesDiffer DEF InletAccept
    <3> QED BY Zenon, <2>9, <3>1 DEF InletAccept, PortalTypes
  <2>10. CASE HandlePong
    <3>1. net' \in [Sides -> Seq(Msgs)] BY <2>8, <2>10, Routes DEF HandlePong
    <3> QED BY Zenon, <2>10, <3>1 DEF HandlePong, PortalTypes
  <2>11. CASE OutletListen
    <3>1. <<Pong>> \in Seq(Msgs) BY MessagesDiffer
    <3>2. net' \in [Sides -> Seq(Msgs)] BY Zenon, <2>8, <2>11, <3>1, Routes DEF OutletListen
    <3> QED BY Zenon, <2>11, <3>2 DEF OutletListen, PortalTypes
  <2>12. CASE OutletConnects \/ OutletFailsToConnect
    BY ZenonT(60), <2>12 DEF OutletConnects, OutletFailsToConnect, PortalTypes
  <2> QED BY <1>4, <2>1, <2>3, <2>4, <2>5, <2>6, <2>7, <2>9, <2>10, <2>11, <2>12
          DEF WorkerStep
<1> QED BY <1>1, <1>2, <1>3, <1>4 DEF Next

\* The greetings on the two routes: InletAccept adds Ping to one, OutletListen
\* takes it and adds Pong to the other.
LEMMA Accepts ==
  ASSUME PortalTypes
  PROVE  /\ InletAccept => /\ net'["inlet"] = net["inlet"]
                           /\ net'["outlet"] = Append(net["outlet"], Ping)
         /\ OutletListen => /\ net'["outlet"] = Tail(net["outlet"])
                            /\ net'["inlet"] = net["inlet"] \o <<Pong>>
<1>1. "inlet" \in Sides /\ "outlet" \in Sides /\ Other("inlet") = "outlet"
      /\ Other("outlet") = "inlet"
  BY DEF Sides, Other
<1>2. Ping \in Msgs /\ <<Pong>> \in Seq(Msgs) BY MessagesDiffer
<1>3. /\ Send("inlet", Ping)["inlet"] = net["inlet"]
      /\ Send("inlet", Ping)["outlet"] = Append(net["outlet"], Ping)
  BY Zenon, <1>1 DEF Send, PortalTypes
<1>4. /\ TakeAndSend("outlet", <<Pong>>)["outlet"] = Tail(net["outlet"])
      /\ TakeAndSend("outlet", <<Pong>>)["inlet"] = net["inlet"] \o <<Pong>>
  BY Zenon, <1>1 DEF TakeAndSend, PortalTypes
<1> QED BY <1>3, <1>4 DEF InletAccept, OutletListen

\* Every step keeps the order of the greetings.
LEMMA GreetingsStep ==
  ASSUME PortalTypes, Greetings, [Next]_vars
  PROVE  Greetings'
<1>0. PortalTypes' BY TypesStep
<1>1. CASE UNCHANGED vars BY <1>1 DEF vars, Greetings
<1>2. ASSUME NEW s \in Sides,
             PeerSends(s) \/ PeerCloses(s) \/ PeerResets(s) \/ PeerAnswersClose(s)
      PROVE  Greetings'
  BY <1>2 DEF PeerSends, PeerCloses, PeerResets, PeerAnswersClose, Greetings
<1>3. "inlet" \in Sides /\ "outlet" \in Sides /\ Other("inlet") = "outlet"
      /\ Other("outlet") = "inlet" /\ \A s \in Sides : s = "inlet" \/ s = "outlet"
  BY DEF Sides, Other
<1>4. net["inlet"] \in Seq(Msgs) /\ net["outlet"] \in Seq(Msgs)
  BY <1>3 DEF PortalTypes
<1>5. \A q \in Seq(Msgs), m \in Msgs :
        /\ q \o <<m>> = Append(q, m) /\ Append(q, m) # <<>>
        /\ q # <<>> => Append(q, m)[1] = q[1]
  <2> SUFFICES ASSUME NEW q \in Seq(Msgs), NEW m \in Msgs
               PROVE  /\ q \o <<m>> = Append(q, m) /\ Append(q, m) # <<>>
                      /\ q # <<>> => Append(q, m)[1] = q[1]
    OBVIOUS
  <2>1. q # <<>> => 1 \in 1..Len(q) BY TakeFirst
  <2> QED BY <2>1, AddLast
<1>6. ASSUME NEW s \in Sides, ReceiverStep(s) PROVE Greetings'
  <2>1. worker[s] \notin {"none", "ReceivePong", "Connecting", "SendPong"}
    BY <1>6 DEF ReceiverStep, ForwardChunk, ReadEnd, ReadError, Greetings
  <2>2. worker' = worker /\ reason' = reason
    BY <1>6 DEF ReceiverStep, ForwardChunk, ReadEnd, ReadError
  <2>3. \A t \in Sides \ {s} : receiver'[t] = receiver[t] /\ internal'[t] = internal[t]
    BY <1>6 DEF ReceiverStep, ForwardChunk, ReadEnd, ReadError, PortalTypes
  <2>4. \/ net' = net
        \/ \E m \in Msgs : net' = Send(s, m)
    <3>1. read[s] + 1 \in Nat BY DEF PortalTypes
    <3>2. Payload(read[s] + 1) \in Msgs /\ Disconnect \in Msgs
      BY <3>1, MessagesDiffer
    <3> QED BY <1>6, <3>2 DEF ReceiverStep, ForwardChunk, ReadEnd, ReadError
  <2>5. CASE net' = net BY <2>1, <2>2, <2>3, <2>5, <1>3 DEF Greetings
  <2>6. ASSUME NEW m \in Msgs, net' = Send(s, m) PROVE Greetings'
    <3>1. net'[s] = net[s] /\ net'[Other(s)] = Append(net[Other(s)], m)
      BY ZenonT(60), <2>6, Routes
    <3>2. CASE s = "inlet"
      BY Zenon, <1>3, <2>1, <2>2, <2>3, <3>1, <3>2 DEF Greetings
    <3>3. CASE s = "outlet"
      <4>1. net'["outlet"] = net["outlet"] /\ net'["inlet"] = Append(net["inlet"], m)
        BY <1>3, <3>1, <3>3
      <4>2. net["inlet"] # <<>> => net'["inlet"] # <<>> /\ net'["inlet"][1] = net["inlet"][1]
        BY <1>4, <1>5, <4>1
      <4> QED BY <1>3, <2>1, <2>2, <2>3, <3>3, <4>1, <4>2 DEF Greetings
    <3> QED BY <1>3, <3>2, <3>3
  <2> QED BY <2>4, <2>5, <2>6
<1>7. ASSUME NEW s \in Sides, worker[s] \in {"Initialized", "disconnecting", "stopped"},
             worker'[s] \in {"Initialized", "disconnecting", "stopped"},
             reason'[s] = "none" \/ worker'[s] # "Initialized",
             \A t \in Sides \ {s} : worker'[t] = worker[t] /\ reason'[t] = reason[t]
                /\ receiver'[t] = receiver[t] /\ internal'[t] = internal[t],
             net'[Other(s)] = net[Other(s)]
               \/ net'[Other(s)] = Append(net[Other(s)], Disconnect)
      PROVE  Greetings'
  <2>1. Disconnect \in Msgs BY MessagesDiffer
  <2>2. CASE s = "inlet" BY <1>3, <1>7, <2>2 DEF Greetings
  <2>3. CASE s = "outlet"
    <3>1. net'["inlet"] = net["inlet"] \/ net'["inlet"] = Append(net["inlet"], Disconnect)
      BY <1>3, <1>7, <2>3
    <3>2. net["inlet"] # <<>> => net'["inlet"] # <<>> /\ net'["inlet"][1] = net["inlet"][1]
      BY <1>4, <1>5, <2>1, <3>1
    <3> QED BY <1>3, <1>7, <2>3, <3>2 DEF Greetings
  <2> QED BY <1>3, <2>2, <2>3
<1>8. ASSUME NEW s \in Sides, WorkerStep(s) PROVE Greetings'
  <2>1. CASE HandlePayload(s)
    <3>1. net'[Other(s)] = net[Other(s)] BY <2>1, Routes DEF HandlePayload
    <3> QED BY <1>7, <2>1, <3>1 DEF HandlePayload, Greetings
  <2>2. ASSUME NEW why, why # "none", StartDisconnection(s, why)
        PROVE  /\ worker'[s] = "disconnecting"
               /\ \A t \in Sides \ {s} : worker'[t] = worker[t] /\ reason'[t] = reason[t]
    BY ZenonT(60), <2>2 DEF StartDisconnection, PortalTypes
  <2>3. CASE FailedTx(s)
    <3>1. net'[Other(s)] = net[Other(s)] \/ net'[Other(s)] = Append(net[Other(s)], Disconnect)
      <4>1. Notice(s, "FailedTx") \in Seq(Msgs) /\ net[Other(s)] \in Seq(Msgs)
        BY TwoSides, NoticeIs DEF PortalTypes
      <4>2. net'[Other(s)] = net[Other(s)] \o Notice(s, "FailedTx")
        BY Zenon, <2>3, <4>1, Routes DEF FailedTx
      <4> QED BY Zenon, <4>1, <4>2, NoticeIs
    <3> QED BY <1>7, <2>2, <2>3, <3>1 DEF FailedTx, Greetings
  <2>4. CASE FailedRx(s)
    <3>1. net'[Other(s)] = net[Other(s)] \o Notice(s, "FailedRx")
      BY Zenon, TwoSides, <2>4 DEF FailedRx, PortalTypes
    <3>2. net'[Other(s)] = net[Other(s)] \/ net'[Other(s)] = Append(net[Other(s)], Disconnect)
      <4>1. net[Other(s)] \in Seq(Msgs) BY TwoSides DEF PortalTypes
      <4> QED BY ZenonT(60), <3>1, <4>1, NoticeIs
    <3>3. \A t \in Sides \ {s} : internal'[t] = internal[t]
      BY Zenon, <2>4 DEF FailedRx, PortalTypes
    <3> QED BY ZenonT(60), <1>7, <2>2, <2>4, <3>2, <3>3 DEF FailedRx, Greetings
  <2>5. CASE RemoteDisconnect(s)
    <3>1. net'[Other(s)] = net[Other(s)] BY Zenon, <2>5, Routes DEF RemoteDisconnect
    <3> QED BY Zenon, <1>7, <2>2, <2>5, <3>1 DEF RemoteDisconnect, Greetings
  <2>6. CASE FinishDisconnection(s)
    <3>1. /\ worker'[s] = "stopped"
          /\ \A t \in Sides \ {s} : worker'[t] = worker[t] /\ internal'[t] = internal[t]
                                    /\ receiver'[t] = receiver[t]
      BY Zenon, <2>6 DEF FinishDisconnection, PortalTypes
    <3> QED BY <1>7, <2>6, <3>1 DEF FinishDisconnection, Greetings
  <2>7. CASE Discard(s)
    <3>1. net'[Other(s)] = net[Other(s)] /\ net'[s] = Tail(net[s])
      BY Zenon, <2>7, Routes DEF Discard
    <3> QED BY ZenonT(60), <1>3, <2>7, <3>1 DEF Discard, Greetings
  <2>8. CASE InletAccept
    <3>1. net'["inlet"] = net["inlet"] /\ net'["outlet"] = Append(net["outlet"], Ping)
      BY Zenon, <1>3, <2>8, Accepts
    <3>2. worker["outlet"] = "none" /\ net["outlet"] = <<>> /\ net["inlet"] = <<>>
      BY <2>8 DEF InletAccept, Greetings
    <3>3. net'["outlet"] = <<Ping>> /\ net'["inlet"] = <<>> BY <3>1, <3>2
    <3>4. /\ worker'["inlet"] = "ReceivePong" /\ worker'["outlet"] = "none"
          /\ receiver' = receiver /\ internal' = internal /\ reason' = reason
      BY ZenonT(60), <1>3, <2>8, <3>2 DEF InletAccept, PortalTypes
    <3> QED BY ZenonT(60), <1>3, <2>8, <3>2, <3>3, <3>4 DEF InletAccept, Greetings
  <2>9. CASE HandlePong
    <3>1. net'["outlet"] = net["outlet"] BY ZenonT(60), <1>3, <2>9, Routes DEF HandlePong
    <3>2. worker["outlet"] # "none" BY Zenon, <2>9 DEF HandlePong, Greetings
    <3>3. /\ worker'["inlet"] = "Initialized" /\ worker'["outlet"] = worker["outlet"]
          /\ receiver'["outlet"] = receiver["outlet"] /\ internal' = internal
          /\ reason' = reason
      BY <1>3, <2>9 DEF HandlePong, PortalTypes
    <3>4. reason["inlet"] = "none" BY <1>3, <2>9 DEF HandlePong, Greetings
    <3> QED BY <1>3, <3>1, <3>2, <3>3, <3>4 DEF Greetings
  <2>10. CASE OutletListen
    <3>1. <<Pong>> \in Seq(Msgs) /\ Pong \in Msgs BY MessagesDiffer
    <3>2. net'["inlet"] = net["inlet"] \o <<Pong>> /\ net["inlet"] = <<>>
      BY <2>10, Accepts DEF OutletListen, Greetings
    <3>3. net'["inlet"] = <<Pong>> BY <1>4, <1>5, <3>1, <3>2
    <3>4. net'["inlet"] # <<>> /\ net'["inlet"][1] = Pong BY <3>3
    <3>5. worker["inlet"] # "none" BY <2>10 DEF OutletListen, Greetings
    <3>6. /\ worker'["outlet"] = "Connecting" /\ worker'["inlet"] = worker["inlet"]
          /\ receiver' = receiver /\ internal' = internal /\ reason' = reason
          /\ worker["outlet"] = "none"
      BY <1>3, <2>10 DEF OutletListen, PortalTypes
    <3>7. reason["outlet"] = "none" BY <1>3, <3>6 DEF Greetings
    <3> QED BY <1>3, <3>4, <3>5, <3>6, <3>7 DEF Greetings
  <2>11. CASE OutletConnects
    <3>1. /\ worker'["outlet"] = "Initialized" /\ worker'["inlet"] = worker["inlet"]
          /\ receiver'["inlet"] = receiver["inlet"] /\ UNCHANGED <<internal, reason, net>>
          /\ worker["outlet"] = "Connecting"
      BY <1>3, <2>11 DEF OutletConnects, PortalTypes
    <3>2. reason["outlet"] = "none" BY <1>3, <3>1 DEF Greetings
    <3> QED BY <1>3, <3>1, <3>2 DEF Greetings
  <2>12. CASE OutletFailsToConnect
    <3>1. /\ worker'["outlet"] = "SendPong" /\ worker'["inlet"] = worker["inlet"]
          /\ UNCHANGED <<receiver, internal, reason, net>> /\ worker["outlet"] = "Connecting"
      BY <1>3, <2>12 DEF OutletFailsToConnect, PortalTypes
    <3> QED BY <1>3, <3>1 DEF Greetings
  <2> QED BY ZenonT(60), <1>8, <2>1, <2>3, <2>4, <2>5, <2>6, <2>7, <2>8, <2>9, <2>10, <2>11, <2>12
          DEF WorkerStep
<1> QED BY <1>1, <1>2, <1>6, <1>8 DEF Next

\* The chunks up to the next one.
LEMMA NextChunk ==
  ASSUME NEW n \in Nat
  PROVE  /\ Chunks(n) \in Seq(Nat) /\ Len(Chunks(n)) = n
         /\ Append(Chunks(n), n + 1) = Chunks(n + 1)
<1>1. \A k \in Nat : Chunks(k) \in Seq(Nat) /\ Len(Chunks(k)) = k
  BY LenProperties DEF Chunks
<1>2. /\ Append(Chunks(n), n + 1) \in Seq(Nat) /\ Len(Append(Chunks(n), n + 1)) = n + 1
      /\ \A i \in 1..n : Append(Chunks(n), n + 1)[i] = Chunks(n)[i]
      /\ Append(Chunks(n), n + 1)[n + 1] = n + 1
  BY <1>1, AppendProperties
<1>3. ASSUME NEW i \in 1..n + 1 PROVE Append(Chunks(n), n + 1)[i] = Chunks(n + 1)[i]
  <2>1. CASE i \in 1..n BY <1>2, <2>1 DEF Chunks
  <2>2. CASE i = n + 1 BY <1>2, <2>2 DEF Chunks
  <2>3. i \in 1..n \/ i = n + 1 OBVIOUS
  <2> QED BY Zenon, <2>1, <2>2, <2>3
<1>4. Chunks(n + 1) \in Seq(Nat) /\ Len(Chunks(n + 1)) = n + 1 BY <1>1
<1>5. Append(Chunks(n), n + 1) = Chunks(n + 1) BY Zenon, <1>2, <1>3, <1>4, SeqEqual
<1> QED BY <1>1, <1>5

\* A step that leaves alone the route to a side, or closes that side, keeps
\* what is said of the stream that flows there.
LEMMA FlowKept ==
  ASSUME PortalTypes, PortalTypes', NEW s \in Sides, Flow(s),
         Open(s)' => Open(s) /\ Hello(s)' = Hello(s) /\ net'[s] = net[s],
         received'[s] = received[s], read'[Other(s)] = read[Other(s)],
         sent[Other(s)] <= sent'[Other(s)],
         reason'[Other(s)] # "FailedTx" => reason[Other(s)] # "FailedTx",
         Drained(Other(s)) => Drained(Other(s))' /\ sent'[Other(s)] = sent[Other(s)],
         internal'[s] => Drained(s)',
         reason'[s] = "Remote" => reason[s] = "Remote"
  PROVE  Flow(s)'
<1> DEFINE o == Other(s)
           got == Len(received[s])
<1>1. o \in Sides /\ read[o] \in Nat /\ sent[o] \in Nat /\ sent'[o] \in Nat
  BY TwoSides DEF PortalTypes
<1>2. got \in Nat BY Zenon, LenProperties DEF PortalTypes
<1>3. Open(s)' => /\ Carries(net'[s], Len(received'[s]), Hello(s)', read'[o])
                  /\ reason'[o] # "FailedTx" /\ ~NoneUpTo(net'[s], Len(net'[s])) =>
                       Drained(o)' /\ EndsAfter(net'[s], Len(received'[s]), Hello(s)', read'[o])
  BY Zenon DEF Flow
<1>4. received'[s] = Chunks(Len(received'[s])) /\ Len(received'[s]) <= read'[o]
  BY Zenon DEF Flow
<1>5. read'[o] <= sent'[o]
  <2>1. read[o] <= sent[o] BY Zenon DEF Flow
  <2> QED BY <1>1, <2>1
<1>6. reason'[s] = "Remote" /\ reason'[o] # "FailedTx" => got = sent'[o] /\ Drained(o)'
  BY Zenon DEF Flow
<1> QED BY Zenon, <1>3, <1>4, <1>5, <1>6 DEF Flow

\* On an established side, the greeting of the other side is on its way or taken.
LEMMA HelloKept ==
  ASSUME PortalTypes, Greetings, NEW s \in Sides,
         worker[s] \notin {"none", "ReceivePong", "Connecting", "SendPong"}
  PROVE  /\ worker[Other(s)] \in {"none", "ReceivePong"} => net[Other(s)] # <<>>
         /\ Hello(Other(s)) \in Nat /\ Hello(Other(s)) <= Len(net[Other(s)])
<1>1. worker[Other(s)] \in {"none", "ReceivePong"} => net[Other(s)] # <<>>
  <2>1. CASE s = "inlet" BY <2>1 DEF Other, Greetings
  <2>2. CASE s = "outlet" BY <2>2 DEF Other, Greetings
  <2> QED BY <2>1, <2>2 DEF Sides
<1>2. net[Other(s)] \in Seq(Msgs) BY TwoSides DEF PortalTypes
<1>3. Len(net[Other(s)]) \in Nat /\ (net[Other(s)] # <<>> => Len(net[Other(s)]) >= 1)
  BY <1>2, TakeFirst, LenProperties
<1>4. Hello(Other(s)) = 0 \/ (Hello(Other(s)) = 1 /\ net[Other(s)] # <<>>)
  BY DEF Hello
<1> QED BY <1>1, <1>3, <1>4

\* A message added to the route of the other side: the next chunk, or a
\* Disconnect once the stream is over or a write has failed.
LEMMA FlowSent ==
  ASSUME PortalTypes, PortalTypes', Greetings, NEW o \in Sides, NEW s \in Sides,
         s = Other(o), Flow(o),
         worker[s] \notin {"none", "ReceivePong", "Connecting", "SendPong"},
         worker'[o] = worker[o], received'[o] = received[o], reason'[o] = reason[o],
         sent' = sent, internal'[o] => Drained(o)',
         \/ /\ net'[o] = Append(net[o], Payload(read[s] + 1))
            /\ read'[s] = read[s] + 1 /\ read[s] < sent[s]
            /\ ~Drained(s) /\ reason'[s] = reason[s]
         \/ /\ net'[o] = Append(net[o], Disconnect) /\ read'[s] = read[s]
            /\ \/ reason'[s] = "FailedTx"
               \/ (Drained(s)' /\ reason[s] # "FailedTx")
  PROVE  Flow(o)'
<1> DEFINE q == net[o]
           got == Len(received[o])
           h == Hello(o)
           last == read[s]
<1>1. q \in Seq(Msgs) /\ last \in Nat /\ sent[s] \in Nat BY DEF PortalTypes
<1>2. got \in Nat BY Zenon, LenProperties DEF PortalTypes
<1>3. o = Other(s) BY Zenon, TwoSides
<1>4. /\ worker[o] \in {"none", "ReceivePong"} => q # <<>>
      /\ h \in Nat /\ h <= Len(q)
  BY Zenon, <1>3, HelloKept
<1>5. net'[o] # <<>> BY <1>1, AddLast, MessagesDiffer
<1>6. Hello(o)' = h BY Zenon, <1>4, <1>5 DEF Hello
<1>7. Open(o)' <=> Open(o) BY DEF Open
<1>8. ASSUME Open(o)
      PROVE  /\ Carries(net'[o], got, h, read'[s])
             /\ reason'[s] # "FailedTx" /\ ~NoneUpTo(net'[o], Len(net'[o])) =>
                  Drained(s)' /\ EndsAfter(net'[o], got, h, read'[s])
  <2>1. /\ Carries(q, got, h, last)
        /\ reason[s] # "FailedTx" /\ ~NoneUpTo(q, Len(q)) =>
             Drained(s) /\ EndsAfter(q, got, h, last)
    BY Zenon, <1>8 DEF Flow
  <2>0. \/ /\ net'[o] = Append(q, Payload(last + 1)) /\ read'[s] = last + 1
           /\ ~Drained(s) /\ reason'[s] = reason[s]
        \/ /\ net'[o] = Append(q, Disconnect) /\ read'[s] = last
           /\ (reason'[s] = "FailedTx" \/ (Drained(s)' /\ reason[s] # "FailedTx"))
    BY Zenon
  <2> HIDE DEF q, got, h, last
  <2>2. /\ Carries(Append(q, Payload(last + 1)), got, h, last + 1)
        /\ NoneUpTo(q, Len(q)) => NoneUpTo(Append(q, Payload(last + 1)),
                                           Len(Append(q, Payload(last + 1))))
        /\ Carries(Append(q, Disconnect), got, h, last)
        /\ EndsAfter(q, got, h, last) \/ NoneUpTo(q, Len(q)) =>
             EndsAfter(Append(q, Disconnect), got, h, last)
    BY <1>1, <1>2, <1>4, <2>1, CarriesMore
  <2>3. CASE net'[o] = Append(q, Payload(last + 1)) /\ read'[s] = last + 1
             /\ ~Drained(s) /\ reason'[s] = reason[s]
    BY ZenonT(60), <2>1, <2>2, <2>3
  <2>4. CASE net'[o] = Append(q, Disconnect) /\ read'[s] = last
             /\ (reason'[s] = "FailedTx" \/ (Drained(s)' /\ reason[s] # "FailedTx"))
    BY ZenonT(60), <2>1, <2>2, <2>4
  <2> QED BY Zenon, <2>0, <2>3, <2>4
<1>9. got <= read'[s] /\ read'[s] <= sent'[s]
  <2>1. got <= last /\ last <= sent[s] BY Zenon DEF Flow
  <2> QED BY <1>1, <1>2, <2>1
<1>10. reason'[o] = "Remote" /\ reason'[s] # "FailedTx" => got = sent'[s] /\ Drained(s)'
  <2>1. reason[o] = "Remote" /\ reason[s] # "FailedTx" => got = sent[s] /\ Drained(s)
    BY ZenonT(60) DEF Flow
  <2> QED BY Zenon, <2>1
<1>11. received'[o] = Chunks(got) BY DEF Flow
<1> QED BY Zenon, <1>6, <1>7, <1>8, <1>9, <1>10, <1>11 DEF Flow

\* What the local peers do keeps both streams.
LEMMA FlowPeer ==
  ASSUME PortalInv, PortalTypes', NEW s \in Sides,
         PeerSends(s) \/ PeerCloses(s) \/ PeerResets(s) \/ PeerAnswersClose(s)
  PROVE  \A t \in Sides : Flow(t)'
<1>1. /\ UNCHANGED <<read, received, worker, reason, receiver, net, internal>>
      /\ \A t \in Sides : sent[t] <= sent'[t]
  <2>1. sent \in [Sides -> Nat] BY DEF PortalInv, PortalTypes
  <2>2. CASE PeerSends(s) BY <2>1, <2>2 DEF PeerSends
  <2>3. CASE PeerCloses(s) \/ PeerResets(s) \/ PeerAnswersClose(s)
    BY <2>1, <2>3 DEF PeerCloses, PeerResets, PeerAnswersClose
  <2> QED BY <2>2, <2>3
<1>2. ASSUME NEW t \in Sides, Drained(t) PROVE Drained(t)' /\ sent'[t] = sent[t]
  <2>1. CASE PeerSends(s) BY ZenonT(60), <1>1, <1>2, <2>1 DEF PeerSends, Drained, PortalInv, PortalTypes
  <2>2. CASE PeerCloses(s) BY ZenonT(60), <1>1, <1>2, <2>2 DEF PeerCloses, Drained, PortalInv, PortalTypes
  <2>3. CASE PeerResets(s) BY ZenonT(60), <1>1, <1>2, <2>3 DEF PeerResets, Drained, PortalInv, PortalTypes
  <2>4. CASE PeerAnswersClose(s)
    BY <1>1, <1>2, <2>4 DEF PeerAnswersClose, Drained, PortalInv, PortalTypes
  <2> QED BY Zenon, <2>1, <2>2, <2>3, <2>4
<1>3. ASSUME NEW t \in Sides PROVE Flow(t)'
  <2>1. Flow(t) /\ PortalTypes /\ Other(t) \in Sides BY TwoSides DEF PortalInv
  <2>2. Open(t)' => Open(t) /\ Hello(t)' = Hello(t) /\ net'[t] = net[t]
    BY <1>1 DEF Open, Hello
  <2>3. internal'[t] => Drained(t)' BY Zenon, <1>1, <1>2, <2>1 DEF Flow
  <2> QED BY Zenon, <1>1, <1>2, <2>1, <2>2, <2>3, FlowKept
<1> QED BY ZenonT(60), <1>3

\* What one side assigns to its own fields leaves those of the other side alone.
LEMMA Elsewhere ==
  ASSUME NEW s, NEW o \in Sides, o # s, NEW T, NEW f \in [Sides -> T], NEW v
  PROVE  [f EXCEPT ![s] = v][o] = f[o]
BY Zenon

\* What a receiver does keeps both streams: it forwards the next chunk, or
\* announces the end once everything has been forwarded.
LEMMA FlowReceiver ==
  ASSUME PortalInv, PortalTypes', NEW s \in Sides, ReceiverStep(s)
  PROVE  \A t \in Sides : Flow(t)'
<1> DEFINE o == Other(s)
<1>1. /\ o \in Sides /\ o # s /\ Other(o) = s /\ PortalTypes /\ Greetings
      /\ Flow(s) /\ Flow(o) /\ \A t \in Sides : t = s \/ t = o
  BY Zenon, TwoSides DEF PortalInv
<1>2. /\ UNCHANGED <<peer, sent, received, worker, reason>> /\ receiver[s] = "running"
  BY Zenon DEF ReceiverStep, ForwardChunk, ReadEnd, ReadError
<1>3. worker[s] \notin {"none", "ReceivePong", "Connecting", "SendPong"}
  BY <1>1, <1>2 DEF Greetings
<1>4. ~Drained(s) /\ ~internal[s] BY Zenon, <1>1, <1>2 DEF Drained, Flow
<1>5. /\ receiver'[o] = receiver[o] /\ read'[o] = read[o] /\ internal'[o] = internal[o]
  <2>0. /\ o \in Sides /\ o # s /\ read \in [Sides -> Nat] /\ internal \in [Sides -> BOOLEAN]
        /\ receiver \in [Sides -> {"none", "running", "stopped"}]
    BY Zenon, <1>1 DEF PortalTypes
  <2> HIDE DEF o
  <2>1. CASE ForwardChunk(s) BY Zenon, <2>0, <2>1, Elsewhere DEF ForwardChunk
  <2>2. CASE ReadEnd(s) BY <2>0, <2>2, Elsewhere DEF ReadEnd
  <2>3. CASE ReadError(s) BY <2>0, <2>3, Elsewhere DEF ReadError
  <2> QED BY Zenon, <2>1, <2>2, <2>3 DEF ReceiverStep
<1>6. (Drained(o)' <=> Drained(o)) /\ (internal'[o] => Drained(o)')
  BY Zenon, <1>1, <1>2, <1>5 DEF Drained, Flow
<1>7. Payload(read[s] + 1) \in Msgs /\ Disconnect \in Msgs
  <2>1. PortalTypes BY <1>1
  <2>2. read[s] \in Nat BY <2>1 DEF PortalTypes
  <2>3. read[s] + 1 \in Nat BY <2>2
  <2> QED BY <2>3, MessagesDiffer
<1>8. net'[s] = net[s]
  <2>1. CASE ForwardChunk(s) BY ZenonT(60), <1>1, <1>7, <2>1, Routes DEF ForwardChunk
  <2>2. CASE ReadEnd(s) BY <1>1, <1>7, <2>2, Routes DEF ReadEnd
  <2>3. CASE ReadError(s) BY <2>3 DEF ReadError
  <2> QED BY Zenon, <2>1, <2>2, <2>3 DEF ReceiverStep
<1>9. internal'[s] => Drained(s)'
  <2>1. CASE ReadEnd(s) BY SMTT(60), <1>1, <1>2, <2>1 DEF ReadEnd, Drained, PortalTypes
  <2>2. CASE ForwardChunk(s) \/ ReadError(s) BY <1>4, <2>2 DEF ForwardChunk, ReadError
  <2> QED BY Zenon, <2>1, <2>2 DEF ReceiverStep
<1>10. \A t \in Sides : sent[t] <= sent'[t] BY <1>1, <1>2 DEF PortalTypes
<1>11. Flow(s)'
  <2>1. Open(s)' => Open(s) /\ Hello(s)' = Hello(s) /\ net'[s] = net[s]
    BY <1>2, <1>8 DEF Open, Hello
  <2> QED BY ZenonT(60), <1>1, <1>2, <1>5, <1>6, <1>9, <1>10, <2>1, FlowKept
<1>12. Flow(o)'
  <2>1. CASE ForwardChunk(s)
    <3>1. /\ net'[o] = Append(net[o], Payload(read[s] + 1))
          /\ read'[s] = read[s] + 1 /\ read[s] < sent[s]
      <4>1. net' = Send(s, Payload(read[s] + 1)) BY <2>1 DEF ForwardChunk
      <4>2. net'[o] = Append(net[o], Payload(read[s] + 1)) BY Zenon, <1>1, <1>7, <4>1, Routes
      <4>3. read'[s] = read[s] + 1 /\ read[s] < sent[s]
        BY <1>1, <2>1 DEF ForwardChunk, PortalTypes
      <4> QED BY ZenonT(60), <4>2, <4>3
    <3> QED BY ZenonT(60), <1>1, <1>2, <1>3, <1>4, <1>6, <3>1, FlowSent
  <2>2. CASE ReadEnd(s)
    <3>1. /\ net'[o] = Append(net[o], Disconnect) /\ read'[s] = read[s]
          /\ Drained(s)'
      <4>1. net' = Send(s, Disconnect) BY Zenon, <2>2 DEF ReadEnd
      <4>2. net'[o] = Append(net[o], Disconnect) BY Zenon, <1>1, <1>7, <4>1, Routes
      <4>3. read'[s] = read[s] /\ Drained(s)'
        BY <1>1, <2>2 DEF ReadEnd, Drained, PortalTypes
      <4> QED BY <4>2, <4>3
    <3>2. reason'[s] = "FailedTx" \/ (Drained(s)' /\ reason[s] # "FailedTx")
      BY Zenon, <1>2, <3>1
    <3> QED BY ZenonT(60), <1>1, <1>2, <1>3, <1>6, <3>1, <3>2, FlowSent
  <2>3. CASE ReadError(s)
    <3>1. Open(o)' => Open(o) /\ Hello(o)' = Hello(o) /\ net'[o] = net[o]
      BY ZenonT(60), <1>2, <2>3 DEF Open, Hello, ReadError
    <3>2. read'[s] = read[s] BY <2>3 DEF ReadError
    <3> QED BY Zenon, <1>1, <1>2, <1>4, <1>6, <1>10, <3>1, <3>2, FlowKept
  <2> QED BY <2>1, <2>2, <2>3 DEF ReceiverStep
<1> QED BY <1>1, <1>11, <1>12

\* A step of one worker leaves alone what the other side holds.
LEMMA OtherSide ==
  ASSUME PortalTypes, NEW s \in Sides, WorkerStep(s)
  PROVE  /\ sent' = sent /\ read' = read
         /\ received'[Other(s)] = received[Other(s)] /\ worker'[Other(s)] = worker[Other(s)]
         /\ reason'[Other(s)] = reason[Other(s)] /\ peer'[Other(s)] = peer[Other(s)]
         /\ receiver'[Other(s)] = receiver[Other(s)]
         /\ internal'[Other(s)] = internal[Other(s)]
<1>1. Other(s) \in Sides /\ Other(s) # s BY Zenon, TwoSides
<1>2. CASE HandlePayload(s) BY Zenon, <1>1, <1>2 DEF HandlePayload, PortalTypes
<1>3. CASE FailedTx(s) BY Zenon, <1>1, <1>3 DEF FailedTx, StartDisconnection, PortalTypes
<1>4. CASE FailedRx(s) BY Zenon, <1>1, <1>4 DEF FailedRx, StartDisconnection, PortalTypes
<1>5. CASE RemoteDisconnect(s)
  BY Zenon, <1>1, <1>5 DEF RemoteDisconnect, StartDisconnection, PortalTypes
<1>6. CASE FinishDisconnection(s) BY Zenon, <1>1, <1>6 DEF FinishDisconnection, PortalTypes
<1>7. CASE Discard(s) BY <1>1, <1>7 DEF Discard
<1>8. CASE s = "inlet" /\ (InletAccept \/ HandlePong)
  BY ZenonT(60), <1>1, <1>8 DEF InletAccept, HandlePong, PortalTypes
<1>9. CASE s = "outlet" /\ (OutletListen \/ OutletConnects \/ OutletFailsToConnect)
  <2>1. CASE OutletListen BY <1>1, <1>9, <2>1 DEF OutletListen, PortalTypes
  <2>2. CASE OutletConnects BY <1>1, <1>9, <2>2 DEF OutletConnects, PortalTypes
  <2>3. CASE OutletFailsToConnect BY <1>1, <1>9, <2>3 DEF OutletFailsToConnect, PortalTypes
  <2> QED BY Zenon, <1>9, <2>1, <2>2, <2>3
<1> QED BY Zenon, <1>2, <1>3, <1>4, <1>5, <1>6, <1>7, <1>8, <1>9 DEF WorkerStep

\* A route that only holds the greeting carries what the empty one did.
LEMMA GreetingOnly ==
  ASSUME NEW m \in Msgs, m # Disconnect, NEW got \in Nat, NEW last \in Nat,
         Carries(<<>>, got, 0, last)
  PROVE  Carries(<<m>>, got, 1, last) /\ NoneUpTo(<<m>>, Len(<<m>>))
<1>1. Len(<<m>>) = 1 /\ <<m>>[1] = m /\ Len(<<>>) = 0 OBVIOUS
<1>2. NoneUpTo(<<>>, Len(<<>>)) BY <1>1 DEF NoneUpTo
<1>3. got + 0 - 0 = last BY <1>1, <1>2 DEF Carries
<1>4. \A i \in 1..1 : i = 1 OBVIOUS
<1>5. NoneUpTo(<<m>>, Len(<<m>>)) BY <1>1, <1>4 DEF NoneUpTo
<1>6. got + Len(<<m>>) - 1 = last BY <1>1, <1>3
<1>7. \A i \in 1..Len(<<m>>) : ~(i > 1) BY <1>1
<1> QED BY <1>5, <1>6, <1>7 DEF Carries

\* Taking the first message of its route, a side that stays open keeps its
\* stream: the greeting changes nothing, a chunk is the next one.
LEMMA FlowTaken ==
  ASSUME PortalTypes, PortalTypes', NEW s \in Sides, NEW h \in {0, 1}, Flow(s), Open(s),
         net[s] # <<>>, net'[s] = Tail(net[s]), net[s][1] # Disconnect,
         Hello(s) = h, Hello(s)' = 0,
         \/ h = 1 /\ received'[s] = received[s]
         \/ h = 0 /\ received'[s] = Append(received[s], net[s][1][2]),
         read' = read, sent' = sent, reason' = reason,
         Drained(Other(s))' <=> Drained(Other(s)), internal'[s] => Drained(s)',
         reason[s] = "none"
  PROVE  Flow(s)'
<1> DEFINE o == Other(s)
           q == net[s]
           got == Len(received[s])
           last == read[o]
<1>1. o \in Sides /\ q \in Seq(Msgs) /\ last \in Nat BY Zenon, TwoSides DEF PortalTypes
<1>2. got \in Nat BY LenProperties DEF PortalTypes
<1>3. /\ Carries(q, got, h, last)
      /\ reason[o] # "FailedTx" /\ ~NoneUpTo(q, Len(q)) =>
           Drained(o) /\ EndsAfter(q, got, h, last)
      /\ received[s] = Chunks(got) /\ got <= last /\ last <= sent[o]
  BY ZenonT(60) DEF Flow
<1>4. /\ Carries(Tail(q), got + 1 - h, 0, last)
      /\ EndsAfter(q, got, h, last) => EndsAfter(Tail(q), got + 1 - h, 0, last)
      /\ NoneUpTo(q, Len(q)) => NoneUpTo(Tail(q), Len(Tail(q)))
  <2> HIDE DEF q, got, last
  <2>1. q # <<>> /\ q[1] # Disconnect BY Zenon DEF q
  <2> QED BY ZenonT(60), <1>1, <1>2, <1>3, <2>1, CarriesTail
<1>5. /\ Len(received'[s]) = got + 1 - h /\ received'[s] = Chunks(got + 1 - h)
      /\ got + 1 - h <= last
  <2>1. CASE h = 1
    <3>1. got + 1 - h = got BY <1>2, <2>1
    <3>2. received'[s] = received[s] /\ Len(received'[s]) = got BY <2>1
    <3>3. received[s] = Chunks(got) /\ got <= last BY ZenonT(60), <1>3
    <3> HIDE DEF got, last
    <3> QED BY Zenon, <3>1, <3>2, <3>3
  <2>2. CASE h = 0
    <3>1. Len(q) \in Nat /\ Len(q) >= 1 /\ 1 \in 1..Len(q) /\ \A j \in 1..1 : j = 1
      <4>1. q \in Seq(Msgs) /\ q # <<>> BY Zenon, <1>1
      <4> HIDE DEF q
      <4>2. Len(q) \in Nat /\ Len(q) >= 1 BY Zenon, <4>1, TakeFirst
      <4> QED BY <4>2
    <3>2. NoneUpTo(q, 1) BY Zenon, <3>1 DEF NoneUpTo
    <3>3. q[1] = Payload(got + 1 - 0) /\ got + 1 - 0 <= last
      <4> HIDE DEF q, got, last
      <4>1. Carries(q, got, 0, last) BY ZenonT(60), <1>3, <2>2
      <4>2. 1 > 0 OBVIOUS
      <4> QED BY <3>1, <3>2, <4>1, <4>2 DEF Carries
    <3>4. got + 1 - 0 = got + 1 /\ got + 1 - h = got + 1 /\ got + 1 \in Nat BY <1>2, <2>2
    <3>5. q[1][2] = got + 1
      <4> HIDE DEF q, got, last
      <4>1. q[1] = Payload(got + 1) BY Zenon, <3>3, <3>4
      <4>2. Payload(got + 1)[2] = got + 1 BY Zenon, <3>4, MessagesDiffer
      <4> QED BY Zenon, <4>1, <4>2
    <3>6. received'[s] = Append(Chunks(got), got + 1)
      <4>1. received[s] = Chunks(got) BY Zenon, <1>3
      <4>2. h # 1 BY <2>2
      <4>3. received'[s] = Append(received[s], q[1][2]) BY Zenon, <4>2
      <4> HIDE DEF q, got
      <4> QED BY Zenon, <3>5, <4>1, <4>3
    <3>7. received'[s] = Chunks(got + 1) BY Zenon, <1>2, <3>6, NextChunk
    <3>8. Len(received'[s]) = got + 1 BY ZenonT(60), <3>4, <3>7, NextChunk
    <3> QED BY Zenon, <3>3, <3>4, <3>7, <3>8
  <2> QED BY Zenon, <2>1, <2>2
<1>6. reason'[o] # "FailedTx" /\ ~NoneUpTo(net'[s], Len(net'[s])) =>
        Drained(o)' /\ EndsAfter(net'[s], Len(received'[s]), Hello(s)', read'[o])
  <2>1. net'[s] = Tail(q) /\ read'[o] = last /\ reason'[o] = reason[o] BY ZenonT(60)
  <2>2. reason[o] # "FailedTx" /\ ~NoneUpTo(Tail(q), Len(Tail(q))) =>
          Drained(o) /\ EndsAfter(Tail(q), got + 1 - h, 0, last)
    <3> HIDE DEF o, q, got, last
    <3> QED BY Zenon, <1>3, <1>4
  <2> QED BY Zenon, <1>5, <2>1, <2>2
<1>7. Carries(net'[s], Len(received'[s]), Hello(s)', read'[o]) BY Zenon, <1>4, <1>5
<1>8. /\ received'[s] = Chunks(Len(received'[s])) /\ Len(received'[s]) <= read'[o]
      /\ read'[o] <= sent'[o]
  BY Zenon, <1>3, <1>5
<1> QED BY ZenonT(60), <1>6, <1>7, <1>8 DEF Flow

\* What an established worker does, and the end of it, keeps both streams.
LEMMA FlowEstablished ==
  ASSUME PortalInv, PortalTypes', NEW s \in Sides,
         \/ HandlePayload(s) \/ FailedTx(s) \/ FailedRx(s) \/ RemoteDisconnect(s)
         \/ FinishDisconnection(s) \/ Discard(s)
  PROVE  \A t \in Sides : Flow(t)'
<1> DEFINE o == Other(s)
<1>1. /\ o \in Sides /\ o # s /\ Other(o) = s /\ PortalTypes /\ Greetings
      /\ Flow(s) /\ Flow(o) /\ \A t \in Sides : t = s \/ t = o
  BY TwoSides DEF PortalInv
<1>2. WorkerStep(s) BY DEF WorkerStep
<1>3. /\ sent' = sent /\ read' = read /\ received'[o] = received[o] /\ worker'[o] = worker[o]
      /\ reason'[o] = reason[o] /\ peer'[o] = peer[o] /\ receiver'[o] = receiver[o]
      /\ internal'[o] = internal[o]
  BY ZenonT(60), <1>1, <1>2, OtherSide
<1>4. \A t \in Sides : sent[t] <= sent'[t] BY <1>1, <1>3 DEF PortalTypes
<1>5. (Drained(o)' <=> Drained(o)) /\ (internal'[o] => Drained(o)')
  BY ZenonT(60), <1>1, <1>3 DEF Drained, Flow
<1>6. Drained(s) => Drained(s)'
  BY <1>1, <1>3 DEF Drained, HandlePayload, FailedTx, FailedRx, RemoteDisconnect,
     FinishDisconnection, Discard, PortalTypes
<1>7. internal'[s] => Drained(s)'
  <2>1. internal'[s] => internal[s]
    <3>1. CASE HandlePayload(s) BY Zenon, <3>1 DEF HandlePayload
    <3>2. CASE FailedTx(s) BY Zenon, <3>2 DEF FailedTx
    <3>3. CASE FailedRx(s) BY Zenon, <3>3 DEF FailedRx
    <3>4. CASE RemoteDisconnect(s) BY Zenon, <3>4 DEF RemoteDisconnect
    <3>5. CASE FinishDisconnection(s)
      <4>1. internal \in [Sides -> BOOLEAN] BY Zenon, <1>1 DEF PortalTypes
      <4> QED BY Zenon, <3>5, <4>1 DEF FinishDisconnection
    <3>6. CASE Discard(s) BY Zenon, <3>6 DEF Discard
    <3> QED BY Zenon, <3>1, <3>2, <3>3, <3>4, <3>5, <3>6
  <2> QED BY Zenon, <1>1, <1>6, <2>1 DEF Flow
<1>8. ASSUME net'[o] = net[o], reason'[s] # "FailedTx" => reason[s] # "FailedTx"
      PROVE  Flow(o)'
  <2>1. Open(o)' => Open(o) /\ Hello(o)' = Hello(o) /\ net'[o] = net[o]
    BY <1>3, <1>8 DEF Open, Hello
  <2> QED BY ZenonT(60), <1>1, <1>3, <1>4, <1>5, <1>6, <1>8, <2>1, FlowKept
<1>9. ASSUME ~Open(s)', received' = received, reason'[s] = "Remote" => reason[s] = "Remote"
      PROVE  Flow(s)'
  BY Zenon, <1>1, <1>3, <1>4, <1>5, <1>7, <1>9, FlowKept
<1>10. CASE HandlePayload(s)
  <2>1. /\ net'[s] = Tail(net[s]) /\ net'[o] = net[o] /\ net[s] # <<>>
    BY Zenon, <1>1, <1>10, Routes DEF HandlePayload
  <2>2. /\ worker[s] = "Initialized" /\ worker'[s] = "Initialized" /\ reason' = reason
    BY Zenon, <1>10 DEF HandlePayload
  <2>3. Open(s) /\ Hello(s) = 0 /\ Hello(s)' = 0 /\ reason[s] = "none"
    BY Zenon, <1>1, <2>2 DEF Open, Hello, Greetings
  <2>4. net[s] \in Seq(Msgs) BY Zenon, <1>1 DEF PortalTypes
  <2>5. Head(net[s]) = net[s][1] BY Zenon, <2>1, <2>4, TakeFirst
  <2>6. net[s][1] # Disconnect BY Zenon, <1>10, <2>5, MessagesDiffer DEF HandlePayload
  <2>7. received'[s] = Append(received[s], net[s][1][2])
    BY <1>1, <1>10, <2>5 DEF HandlePayload, PortalTypes
  <2>8. Flow(s)' BY Zenon, <1>1, <1>3, <1>5, <1>7, <2>1, <2>2, <2>3, <2>6, <2>7, FlowTaken
  <2>9. Flow(o)' BY Zenon, <1>8, <2>1, <2>2
  <2> QED BY <1>1, <2>8, <2>9
<1>11. ASSUME NEW why, StartDisconnection(s, why)
       PROVE  worker'[s] = "disconnecting" /\ reason'[s] = why /\ ~Open(s)'
  BY <1>1, <1>11 DEF StartDisconnection, Open, PortalTypes
<1>12. worker[s] = "Initialized" => /\ reason[s] = "none"
         /\ worker[s] \notin {"none", "ReceivePong", "Connecting", "SendPong"}
  BY <1>1 DEF Greetings
<1>13. net[o] \in Seq(Msgs) /\ net[s] \in Seq(Msgs) BY Zenon, <1>1 DEF PortalTypes
<1>14. CASE FailedTx(s)
  <2>1. reason'[s] = "FailedTx" /\ ~Open(s)' BY ZenonT(60), <1>11, <1>14 DEF FailedTx
  <2>2. worker[s] = "Initialized" /\ received' = received BY <1>14 DEF FailedTx
  <2>3. net'[o] = net[o] \o Notice(s, "FailedTx") BY Zenon, <1>1, <1>14, Routes, NoticeIs DEF FailedTx
  <2>4. net'[o] = net[o] \/ net'[o] = Append(net[o], Disconnect) BY Zenon, <1>13, <2>3, NoticeIs
  <2>5. CASE net'[o] = net[o] BY ZenonT(60), <1>1, <1>8, <1>9, <2>1, <2>2, <2>5
  <2>6. CASE net'[o] = Append(net[o], Disconnect)
    <3>1. read'[s] = read[s] BY Zenon, <1>3
    <3>2. Flow(o)' BY ZenonT(60), <1>1, <1>3, <1>5, <1>12, <2>1, <2>2, <2>6, <3>1, FlowSent
    <3> QED BY <1>1, <1>9, <2>1, <2>2, <3>2
  <2> QED BY Zenon, <2>4, <2>5, <2>6
<1>15. CASE FailedRx(s)
  <2>1. reason'[s] = "FailedRx" /\ ~Open(s)' BY Zenon, <1>11, <1>15 DEF FailedRx
  <2>2. worker[s] = "Initialized" /\ received' = received BY <1>15 DEF FailedRx
  <2>3. net'[o] = net[o] \o Notice(s, "FailedRx")
    <3>1. net' = [net EXCEPT ![o] = @ \o Notice(s, "FailedRx")] /\ o \in Sides /\ net \in [Sides -> Seq(Msgs)]
      BY Zenon, <1>1, <1>15 DEF FailedRx, PortalTypes
    <3> HIDE DEF o
    <3> QED BY Zenon, <3>1
  <2>4. net'[o] = net[o] \/ net'[o] = Append(net[o], Disconnect) BY Zenon, <1>13, <2>3, NoticeIs
  <2>5. Drained(s)' BY Zenon, <1>1, <1>6, <1>15 DEF FailedRx, Flow
  <2>6. CASE net'[o] = net[o] BY Zenon, <1>1, <1>8, <1>9, <1>12, <2>1, <2>2, <2>6
  <2>7. CASE net'[o] = Append(net[o], Disconnect)
    <3>1. read'[s] = read[s] BY Zenon, <1>3
    <3>2. reason'[s] = "FailedTx" \/ (Drained(s)' /\ reason[s] # "FailedTx")
      BY <1>12, <2>2, <2>5
    <3>3. Flow(o)' BY Zenon, <1>1, <1>3, <1>5, <1>12, <2>2, <2>7, <3>1, <3>2, FlowSent
    <3> QED BY ZenonT(60), <1>1, <1>9, <2>1, <2>2, <3>3
  <2> QED BY <2>4, <2>6, <2>7
<1>16. CASE RemoteDisconnect(s)
  <2>1. reason'[s] = "Remote" /\ ~Open(s)' BY Zenon, <1>11, <1>16 DEF RemoteDisconnect
  <2>2. /\ worker[s] = "Initialized" /\ received' = received /\ net[s] # <<>>
        /\ Head(net[s]) = Disconnect
    BY <1>16 DEF RemoteDisconnect
  <2>3. net'[o] = net[o] BY Zenon, <1>1, <1>16, <2>2, Routes DEF RemoteDisconnect
  <2>4. Flow(o)' BY ZenonT(60), <1>8, <1>12, <2>2, <2>3
  <2>5. /\ Len(net[s]) \in Nat /\ Len(net[s]) >= 1 /\ net[s][1] = Disconnect
        /\ 1 \in 1..Len(net[s])
    BY <1>13, <2>2, TakeFirst
  <2>6. ~NoneUpTo(net[s], Len(net[s])) /\ NoneUpTo(net[s], 1 - 1)
    BY <2>5 DEF NoneUpTo
  <2>7. Open(s) /\ Hello(s) = 0 BY <2>2 DEF Open, Hello
  <2>8. reason[o] # "FailedTx" =>
          Drained(o) /\ EndsAfter(net[s], Len(received[s]), 0, read[o])
    BY Zenon, <1>1, <2>6, <2>7 DEF Flow
  <2>9. reason[o] # "FailedTx" => Len(received[s]) + 1 - 1 - 0 = read[o]
    BY Zenon, <2>5, <2>6, <2>8 DEF EndsAfter
  <2>10. Len(received[s]) \in Nat BY <1>1, LenProperties DEF PortalTypes
  <2>11. reason'[o] # "FailedTx" => Len(received'[s]) = sent'[o] /\ Drained(o)'
    <3> DEFINE got == Len(received[s])
    <3>1. Len(received'[s]) = got /\ sent'[o] = sent[o] /\ reason'[o] = reason[o]
      BY ZenonT(60), <1>3, <2>2
    <3>2. Drained(o) => read[o] = sent[o] BY DEF Drained
    <3>3. got + 1 - 1 - 0 = got BY <2>10
    <3>4. reason[o] # "FailedTx" => got = sent[o] /\ Drained(o)
      <4> HIDE DEF got
      <4>1. reason[o] # "FailedTx" => Drained(o) /\ got = read[o]
        BY Zenon, <2>8, <2>9, <3>3 DEF got
      <4> QED BY ZenonT(60), <3>2, <4>1
    <3> QED BY Zenon, <1>5, <3>1, <3>4
  <2>12. /\ received'[s] = Chunks(Len(received'[s])) /\ Len(received'[s]) <= read'[o]
         /\ read'[o] <= sent'[o]
    BY Zenon, <1>1, <1>3, <2>2 DEF Flow
  <2>13. Flow(s)' BY Zenon, <1>7, <2>1, <2>11, <2>12 DEF Flow
  <2> QED BY Zenon, <1>1, <2>4, <2>13
<1>17. CASE FinishDisconnection(s)
  <2>1. net' = net /\ received' = received /\ reason' = reason /\ worker'[s] = "stopped"
    BY <1>1, <1>17 DEF FinishDisconnection, PortalTypes
  <2>2. ~Open(s)' BY <2>1 DEF Open
  <2> QED BY ZenonT(60), <1>1, <1>8, <1>9, <2>1, <2>2
<1>18. CASE Discard(s)
  <2>1. received' = received /\ reason' = reason /\ worker' = worker /\ ~Open(s)'
    BY Zenon, <1>18 DEF Discard, Open
  <2>2. net'[o] = net[o] BY Zenon, <1>1, <1>18, Routes DEF Discard
  <2> QED BY Zenon, <1>1, <1>8, <1>9, <2>1, <2>2
<1> QED BY Zenon, <1>10, <1>14, <1>15, <1>16, <1>17, <1>18

\* Opening the portal keeps both streams.
LEMMA FlowOpening ==
  ASSUME PortalInv, PortalTypes', NEW s \in Sides,
         \/ s = "inlet" /\ (InletAccept \/ HandlePong)
         \/ s = "outlet" /\ (OutletListen \/ OutletConnects \/ OutletFailsToConnect)
  PROVE  \A t \in Sides : Flow(t)'
<1> DEFINE o == Other(s)
<1>1. /\ o \in Sides /\ o # s /\ Other(o) = s /\ PortalTypes /\ Greetings
      /\ Flow(s) /\ Flow(o) /\ \A t \in Sides : t = s \/ t = o
  BY TwoSides DEF PortalInv
<1>2. WorkerStep(s) BY DEF WorkerStep
<1>3. /\ sent' = sent /\ read' = read /\ received'[o] = received[o] /\ worker'[o] = worker[o]
      /\ reason'[o] = reason[o] /\ peer'[o] = peer[o] /\ receiver'[o] = receiver[o]
      /\ internal'[o] = internal[o]
  BY ZenonT(60), <1>1, <1>2, OtherSide
<1>4. \A t \in Sides : sent[t] <= sent'[t] BY <1>1, <1>3 DEF PortalTypes
<1>5. (Drained(o)' <=> Drained(o)) /\ (internal'[o] => Drained(o)')
  BY Zenon, <1>1, <1>3 DEF Drained, Flow
<1>6. /\ worker[s] \in {"none", "ReceivePong", "Connecting"} /\ internal' = internal
      /\ reason' = reason /\ received' = received
  BY Zenon DEF InletAccept, HandlePong, OutletListen, OutletConnects, OutletFailsToConnect
<1>7. ~Drained(s) /\ ~internal'[s] /\ reason[s] = "none"
  BY <1>1, <1>6 DEF Greetings, Drained
<1>8. ASSUME net'[o] = net[o] PROVE Flow(o)'
  <2>1. Open(o)' => Open(o) /\ Hello(o)' = Hello(o) /\ net'[o] = net[o]
    BY <1>3, <1>8 DEF Open, Hello
  <2> QED BY ZenonT(60), <1>1, <1>3, <1>4, <1>5, <1>6, <1>7, <2>1, FlowKept
<1>9. ASSUME Open(s)' => Open(s) /\ Hello(s)' = Hello(s) /\ net'[s] = net[s]
      PROVE  Flow(s)'
  BY ZenonT(60), <1>1, <1>3, <1>4, <1>5, <1>6, <1>7, <1>9, FlowKept
<1>10. /\ net[s] \in Seq(Msgs) /\ net[o] \in Seq(Msgs) /\ read[s] \in Nat /\ read[o] \in Nat
  BY <1>1 DEF PortalTypes
<1>11. ASSUME NEW t \in Sides, Flow(t), Open(t), net[t] = <<>>, NEW m \in Msgs,
              m # Disconnect, net'[t] = <<m>>, Hello(t) = 0, Hello(t)' = 1, Open(t)',
              reason[t] = "none", ~internal'[t]
       PROVE  Flow(t)'
  <2>1. Len(received[t]) \in Nat BY ZenonT(60), <1>1, LenProperties DEF PortalTypes
  <2>2. read[Other(t)] \in Nat BY <1>1, TwoSides DEF PortalTypes
  <2>3. Carries(<<>>, Len(received[t]), 0, read[Other(t)]) BY ZenonT(60), <1>11 DEF Flow
  <2>4. Carries(<<m>>, Len(received[t]), 1, read[Other(t)]) /\ NoneUpTo(<<m>>, Len(<<m>>))
    BY ZenonT(60), <1>11, <2>1, <2>2, <2>3, GreetingOnly
  <2>5. /\ Carries(net'[t], Len(received'[t]), Hello(t)', read'[Other(t)])
        /\ NoneUpTo(net'[t], Len(net'[t]))
    BY Zenon, <1>3, <1>6, <1>11, <2>4
  <2>6. /\ received'[t] = Chunks(Len(received'[t])) /\ Len(received'[t]) <= read'[Other(t)]
        /\ read'[Other(t)] <= sent'[Other(t)]
    BY Zenon, <1>3, <1>6, <1>11 DEF Flow
  <2> QED BY Zenon, <1>6, <1>11, <2>5, <2>6 DEF Flow
<1>12. CASE s = "inlet" /\ InletAccept
  <2>1. o = "outlet" BY Zenon, <1>12 DEF Other
  <2>2. /\ worker["inlet"] = "none" /\ worker'[s] = "ReceivePong" /\ worker["outlet"] = "none"
        /\ net[s] = <<>> /\ net[o] = <<>>
    BY Zenon, <1>1, <1>12, <2>1 DEF InletAccept, Greetings, PortalTypes
  <2>3. net'[s] = <<>> /\ net'[o] = <<Ping>> BY <1>1, <1>12, <2>1, <2>2, Accepts
  <2>4. Flow(s)'
    <3>1. Open(s) /\ Hello(s) = 0 /\ Hello(s)' = 0 BY <1>12, <2>2, <2>3 DEF Open, Hello
    <3> QED BY Zenon, <1>9, <2>2, <2>3, <3>1
  <2>5. Flow(o)'
    <3>1. Open(o) /\ Open(o)' BY <1>3, <2>1, <2>2 DEF Open
    <3>2. <<Ping>> # <<>> BY Zenon
    <3>3. Hello(o) = 0 /\ Hello(o)' = 1 BY Zenon, <1>3, <2>1, <2>2, <2>3, <3>2 DEF Hello
    <3>4. reason[o] = "none" /\ ~internal[o] BY Zenon, <1>1, <2>1, <2>2 DEF Greetings
    <3> QED BY ZenonT(60), <1>1, <1>6, <1>11, <2>2, <2>3, <3>1, <3>3, <3>4, MessagesDiffer
  <2> QED BY <1>1, <2>4, <2>5
<1>13. CASE s = "inlet" /\ HandlePong
  <2>1. /\ worker[s] = "ReceivePong" /\ worker'[s] = "Initialized" /\ net[s] # <<>>
        /\ Head(net[s]) = Pong /\ net' = Took(s)
    BY <1>1, <1>13 DEF HandlePong, PortalTypes
  <2>2. net'[s] = Tail(net[s]) /\ net'[o] = net[o] BY Zenon, <1>1, <2>1, Routes
  <2>3. Open(s) /\ Hello(s) = 1 /\ Hello(s)' = 0 BY Zenon, <2>1 DEF Open, Hello
  <2>4. net[s][1] # Disconnect BY <1>10, <2>1, TakeFirst, MessagesDiffer
  <2>5. Flow(s)'
    BY Zenon, <1>1, <1>3, <1>5, <1>6, <1>7, <2>1, <2>2, <2>3, <2>4, FlowTaken
  <2> QED BY Zenon, <1>1, <1>8, <2>2, <2>5
<1>14. CASE s = "outlet" /\ OutletListen
  <2>1. o = "inlet" BY Zenon, <1>14 DEF Other
  <2>2. /\ worker[s] = "none" /\ worker'[s] = "Connecting" /\ net[s] # <<>>
        /\ Head(net[s]) = Ping
    BY <1>1, <1>14 DEF OutletListen, PortalTypes
  <2>3. net[o] = <<>> /\ worker[o] = "ReceivePong"
    BY Zenon, <1>1, <1>14, <2>1, <2>2 DEF Greetings
  <2>4. net'[s] = Tail(net[s]) /\ net'[o] = <<>> \o <<Pong>>
    BY Zenon, <1>1, <1>14, <2>1, <2>3, Accepts
  <2>5. net'[o] = <<Pong>> BY <2>4
  <2>6. Flow(s)'
    <3>1. Open(s) /\ Hello(s) = 1 /\ Hello(s)' = 0 BY Zenon, <2>2 DEF Open, Hello
    <3>2. net[s][1] # Disconnect BY Zenon, <1>10, <2>2, TakeFirst, MessagesDiffer
    <3> QED BY Zenon, <1>1, <1>3, <1>5, <1>6, <1>7, <2>2, <2>4, <3>1, <3>2, FlowTaken
  <2>7. Flow(o)'
    <3>1. Open(o) /\ Open(o)' BY Zenon, <1>3, <2>3 DEF Open
    <3>2. <<Pong>> # <<>> OBVIOUS
    <3>3. Hello(o) = 0 /\ Hello(o)' = 1 BY Zenon, <1>3, <2>3, <2>5, <3>2 DEF Hello
    <3>4. reason[o] = "none" /\ ~internal[o] BY Zenon, <1>1, <2>3 DEF Greetings
    <3> QED BY Zenon, <1>1, <1>6, <1>11, <2>3, <2>5, <3>1, <3>3, <3>4, MessagesDiffer
  <2> QED BY <1>1, <2>6, <2>7
<1>15. CASE s = "outlet" /\ (OutletConnects \/ OutletFailsToConnect)
  <2>1. /\ worker[s] = "Connecting" /\ worker'[s] \in {"Initialized", "SendPong"}
        /\ net' = net
    BY <1>1, <1>15 DEF OutletConnects, OutletFailsToConnect, PortalTypes
  <2>2. Open(s) /\ Hello(s)' = Hello(s) BY <2>1 DEF Open, Hello
  <2> QED BY Zenon, <1>1, <1>8, <1>9, <2>1, <2>2
<1> QED BY Zenon, <1>12, <1>13, <1>14, <1>15

\* The inductive invariant of the portal holds in every reachable state, however
\* many chunks are sent and whoever resets the connection.
THEOREM PortalInvariance == Spec => []PortalInv
<1>1. Init => PortalInv
  <2> SUFFICES ASSUME Init PROVE PortalInv OBVIOUS
  <2>1. <<>> \in Seq(Msgs) /\ <<>> \in Seq(Nat) /\ Len(<<>>) = 0 BY Zenon, EmptySeq
  <2>2. PortalTypes BY Zenon, <2>1 DEF Init, PortalTypes
  <2>3. Greetings BY DEF Init, Greetings, Sides
  <2>4. ASSUME NEW s \in Sides PROVE Flow(s)
    <3>1. /\ Other(s) \in Sides /\ net[s] = <<>> /\ received[s] = <<>> /\ ~internal[s]
          /\ reason[s] = "none" /\ worker[s] = "none"
      BY TwoSides DEF Init
    <3>2. read[Other(s)] = 0 /\ sent[Other(s)] = 0 BY ZenonT(60), <3>1 DEF Init
    <3>3. Hello(s) = 0 BY <3>1 DEF Hello
    <3>4. NoneUpTo(<<>>, 0) /\ Carries(<<>>, 0, 0, 0) BY <2>1 DEF NoneUpTo, Carries
    <3>5. <<>> = Chunks(0)
      <4>1. Chunks(0) \in Seq(Nat) /\ Len(Chunks(0)) = 0 BY Zenon, NextChunk
      <4> QED BY <4>1, EmptySeq
    <3>6. NoneUpTo(net[s], Len(net[s])) /\ Carries(net[s], Len(received[s]), Hello(s), read[Other(s)])
      BY Zenon, <2>1, <3>1, <3>2, <3>3, <3>4
    <3>7. /\ received[s] = Chunks(Len(received[s])) /\ Len(received[s]) <= read[Other(s)]
          /\ read[Other(s)] <= sent[Other(s)]
      BY <2>1, <3>1, <3>2, <3>5
    <3> QED BY Zenon, <3>1, <3>6, <3>7 DEF Flow
  <2> QED BY <2>2, <2>3, <2>4 DEF PortalInv
<1>2. PortalInv /\ [Next]_vars => PortalInv'
  <2> SUFFICES ASSUME PortalInv, [Next]_vars PROVE PortalInv' OBVIOUS
  <2>1. PortalTypes' /\ Greetings' BY TypesStep, GreetingsStep DEF PortalInv
  <2>2. \A t \in Sides : Flow(t)'
    <3>1. CASE UNCHANGED vars
      BY ZenonT(60), <3>1 DEF vars, PortalInv, Flow, Open, Hello, Drained
    <3>2. ASSUME NEW s \in Sides,
                 PeerSends(s) \/ PeerCloses(s) \/ PeerResets(s) \/ PeerAnswersClose(s)
          PROVE  \A t \in Sides : Flow(t)'
      BY <2>1, <3>2, FlowPeer
    <3>3. ASSUME NEW s \in Sides, ReceiverStep(s) PROVE \A t \in Sides : Flow(t)'
      BY <2>1, <3>3, FlowReceiver
    <3>4. ASSUME NEW s \in Sides, WorkerStep(s) PROVE \A t \in Sides : Flow(t)'
      <4>1. CASE \/ HandlePayload(s) \/ FailedTx(s) \/ FailedRx(s) \/ RemoteDisconnect(s)
                 \/ FinishDisconnection(s) \/ Discard(s)
        BY <2>1, <4>1, FlowEstablished
      <4>2. CASE \/ s = "inlet" /\ (InletAccept \/ HandlePong)
                 \/ s = "outlet" /\ (OutletListen \/ OutletConnects \/ OutletFailsToConnect)
        BY <2>1, <4>2, FlowOpening
      <4> QED BY <3>4, <4>1, <4>2 DEF WorkerStep
    <3> QED BY <3>1, <3>2, <3>3, <3>4 DEF Next
  <2> QED BY <2>1, <2>2 DEF PortalInv
<1> QED BY <1>1, <1>2, PTL DEF Spec

\* What TcpPortalWorker writes to its local peer is a prefix of what the other
\* local peer sent, in the same order.
THEOREM PortalIsAPipe == Spec => []InOrder
<1>1. PortalInv => InOrder
  <2> SUFFICES ASSUME PortalInv, NEW s \in Sides
               PROVE  \E n \in 0..sent[Other(s)] : received[s] = Chunks(n)
    BY Zenon DEF InOrder
  <2>1. /\ Len(received[s]) \in Nat /\ sent[Other(s)] \in Nat /\ read[Other(s)] \in Nat
    BY TwoSides, LenProperties DEF PortalInv, PortalTypes
  <2>2. /\ received[s] = Chunks(Len(received[s])) /\ Len(received[s]) <= read[Other(s)]
        /\ read[Other(s)] <= sent[Other(s)]
    BY ZenonT(60) DEF PortalInv, Flow
  <2>3. Len(received[s]) \in 0..sent[Other(s)] BY <2>1, <2>2
  <2> QED BY <2>2, <2>3
<1> QED BY <1>1, PortalInvariance, PTL

\* A worker that disconnects because the other side's stream ended has written
\* all of that stream, unless the other side announced a failed write.
THEOREM OrderlyCloseDeliversAll == Spec => []CloseDeliversAll
<1>1. PortalInv => CloseDeliversAll BY Zenon DEF PortalInv, Flow, CloseDeliversAll
<1> QED BY <1>1, PortalInvariance, PTL

\* The first message that reaches an inlet in state ReceivePong is Pong.
THEOREM PongTravelsFirst == Spec => []PongFirst
<1>1. PortalInv => PongFirst
  <2> SUFFICES ASSUME PortalInv, worker["inlet"] = "ReceivePong", net["inlet"] # <<>>
               PROVE  Head(net["inlet"]) = Pong
    BY Zenon DEF PongFirst
  <2>1. net["inlet"][1] = Pong BY DEF PortalInv, Greetings
  <2>2. net["inlet"] \in Seq(Msgs) BY DEF PortalInv, PortalTypes, Sides
  <2> QED BY <2>1, <2>2, TakeFirst
<1> QED BY <1>1, PortalInvariance, PTL
=============================================================================
