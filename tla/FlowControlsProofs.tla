------------------------- MODULE FlowControlsProofs -------------------------
(***************************************************************************)
(* Proofs about the flow controls of a node, for any connections, channels *)
(* and receivers, and any number of workers that wait for the clean-up.    *)
(***************************************************************************)
EXTENDS FlowControls, SequenceTheorems, TLAPS

\* The addresses of connections, channels, receivers and listeners.
LEMMA Addresses ==
  /\ \A c \in Conns : <<"receiver", c>> \in Flow /\ <<"receiver", c>> \in Address /\ <<"sender", c>> \in Address
  /\ \A k \in Chans : /\ <<"internal", k>> \in Flow /\ <<"internal", k>> \in Address
                      /\ <<"remote", k>> \in Address /\ <<"encryptor", k>> \in Address
  /\ \A r \in Receivers : <<"main", r>> \in Address /\ <<"mailbox", r>> \in Address
  /\ TcpListener \in Flow /\ TcpListener \in Address /\ ChannelListener \in Flow /\ ChannelListener \in Address
  /\ Service \in Address /\ Forwarder \in Address
<1>1. \A c \in Conns : <<"receiver", c>> \in Address /\ <<"sender", c>> \in Address
  BY DEF Address
<1>2. \A k \in Chans : <<"internal", k>> \in Address /\ <<"remote", k>> \in Address /\ <<"encryptor", k>> \in Address
  BY DEF Address
<1>3. \A r \in Receivers : <<"main", r>> \in Address /\ <<"mailbox", r>> \in Address
  BY DEF Address
<1>4. TcpListener \in Address /\ ChannelListener \in Address /\ Service \in Address /\ Forwarder \in Address
  BY DEF Address, TcpListener, ChannelListener, Service, Forwarder
<1>5. \A a \in Address : a[1] \in {"receiver", "internal", "tcp_listener", "channel_listener"} => a \in Flow
  BY DEF Flow
<1> QED BY <1>1, <1>2, <1>3, <1>4, <1>5 DEF TcpListener, ChannelListener

\* A flow control is named by its producer or spawner; no address is NoFlow.
LEMMA FlowKinds ==
  /\ Flow \subseteq Address /\ NoFlow \notin Address
  /\ \A f \in Flow : \/ \E c \in Conns : f = <<"receiver", c>>
                     \/ \E k \in Chans : f = <<"internal", k>>
                     \/ f \in Listeners
BY DEF Flow, Address, NoFlow, Listeners, TcpListener, ChannelListener

\* Flow controls that lose consumers, and workers that go on, keep messages in
\* their own channel.
LEMMA OwnMono ==
  ASSUME OwnInv, \A g \in Flow : consumers'[g] \subseteq consumers[g],
         \A k \in Chans : chan[k] # "none" => chan'[k] # "none" /\ over'[k] = over[k],
         \A r \in Receivers : recv[r] # "none" => recv'[r] # "none" /\ on'[r] = on[r],
         joined \subseteq joined'
  PROVE  OwnInv'
<1>1. ASSUME NEW c \in Conns, NEW a \in consumers'[<<"receiver", c>>]
      PROVE  \E k \in Chans : a = <<"remote", k>> /\ chan'[k] # "none" /\ over'[k] = c
  <2>1. a \in consumers[<<"receiver", c>>]
    BY Zenon, <1>1, Addresses
  <2>2. PICK k \in Chans : a = <<"remote", k>> /\ chan[k] # "none" /\ over[k] = c
    BY <2>1 DEF OwnInv
  <2> QED BY <2>2
<1>2. ASSUME NEW k \in Chans, NEW a \in consumers'[<<"internal", k>>]
      PROVE  \/ \E r \in Receivers : a = <<"mailbox", r>> /\ recv'[r] # "none" /\ on'[r] = k
             \/ \E j \in Chans : a = <<"encryptor", j>> /\ {j, k} \in joined'
  <2>1. a \in consumers[<<"internal", k>>]
    BY Zenon, <1>2, Addresses
  <2>2. \/ \E r \in Receivers : a = <<"mailbox", r>> /\ recv[r] # "none" /\ on[r] = k
        \/ \E j \in Chans : a = <<"encryptor", j>> /\ {j, k} \in joined
    BY Zenon, <2>1 DEF OwnInv
  <2> QED BY Zenon, <2>2
<1>3. consumers'[TcpListener] \subseteq {ChannelListener} /\ consumers'[ChannelListener] \subseteq {Service, Forwarder}
  BY Addresses DEF OwnInv
<1> QED BY Zenon, <1>1, <1>2, <1>3 DEF OwnInv

-----------------------------------------------------------------------------
(* Connections.                                                            *)

\* A new connection is a producer with a flow control of its own.
LEMMA ConnectionKeeps ==
  ASSUME FlowInv, NEW c \in Conns, Accept(c) \/ Connect(c)
  PROVE  FlowInv'
<1> USE DEF FlowInv
<1> DEFINE a == <<"receiver", c>>
           b == <<"sender", c>>
<1>1. PICK s \in {TcpListener, NoFlow} : producers' = [producers EXCEPT ![a] = [flow |-> a, spawner |-> s]]
                                         /\ (conn'[c] # "out" => s = TcpListener)
  BY DEF Accept, Connect, add_producer, TypeOK
<1>2. producers_additional_addresses' =
        [x \in Address |-> IF x \in {b} \cup {a} THEN a ELSE producers_additional_addresses[x]]
  BY DEF Accept, Connect, add_producer
<1>3. /\ conn[c] = "none" /\ \E z \in {"in", "late", "out"} : conn' = [conn EXCEPT ![c] = z] /\ (z = "in" => listening = "running")
      /\ UNCHANGED <<consumers, spawners, listening, chan, over, accepted, recv, on, joined, found, toClean, stage, doomed, info>>
  BY DEF Accept, Connect, cleanup
<1>4. TypeOK'
  <2>1. a \in Flow /\ a \in Address /\ TcpListener \in Flow
    BY Zenon, Addresses
  <2> HIDE DEF a, b
  <2>2. producers' \in [Address -> [flow : Flow \cup {NoFlow}, spawner : Flow \cup {NoFlow}]]
    BY <1>1, <2>1 DEF TypeOK
  <2>3. producers_additional_addresses' \in [Address -> Address \cup {NoAddress}]
    BY <1>2, <2>1 DEF TypeOK
  <2> QED BY <1>3, <2>2, <2>3 DEF TypeOK
<1>5. OwnInv'
  BY ZenonT(60), <1>3 DEF OwnInv
<1>6. KnownInv'
  <2>1. \A x \in Conns : x # c => conn'[x] = conn[x] /\ producers'[<<"receiver", x>>] = producers[<<"receiver", x>>]
                                  /\ producers_additional_addresses'[<<"sender", x>>] = producers_additional_addresses[<<"sender", x>>]
    BY Zenon, <1>1, <1>2, <1>3, Addresses DEF TypeOK
  <2>2. producers'[a].flow = a /\ (conn'[c] # "out" => producers'[a].spawner = TcpListener)
        /\ producers_additional_addresses'[b] = a
    BY Zenon, <1>1, <1>2, Addresses DEF TypeOK
  <2>3. \A k \in Chans : producers'[<<"internal", k>>] = producers[<<"internal", k>>]
                         /\ producers_additional_addresses'[<<"encryptor", k>>] = producers_additional_addresses[<<"encryptor", k>>]
    BY Zenon, <1>1, <1>2, Addresses DEF TypeOK
  <2>4. \A x \in Conns : conn[x] # "none" => conn'[x] # "none"
    BY <1>3 DEF TypeOK
  <2>5. ASSUME NEW x \in Conns, Connected(x)'
        PROVE  /\ producers'[<<"receiver", x>>].flow = <<"receiver", x>>
               /\ conn'[x] # "out" => producers'[<<"receiver", x>>].spawner = TcpListener
               /\ producers_additional_addresses'[<<"sender", x>>] = <<"receiver", x>>
    BY ZenonT(60), <2>1, <2>2, <2>5 DEF KnownInv, Connected
  <2>6. ASSUME NEW k \in Chans, Opened(k)'
        PROVE  /\ producers'[<<"internal", k>>].flow = <<"internal", k>>
               /\ producers_additional_addresses'[<<"encryptor", k>>] = <<"internal", k>>
    BY Zenon, <1>3, <2>3, <2>6 DEF KnownInv, Opened
  <2>7. ASSUME NEW k \in Chans, chan'[k] # "none" PROVE conn'[over'[k]] # "none"
    BY Zenon, <1>3, <2>4, <2>7 DEF KnownInv, TypeOK
  <2> HIDE DEF a, b
  <2> QED BY Zenon, <1>3, <2>5, <2>6, <2>7 DEF KnownInv, Opened
<1>7. GoneInv'
  <2>1. \A x : Gone(x) => Gone(x)'
    BY <1>3 DEF Gone, TypeOK
  <2>2. \A f : Unused(f) => Unused(f)'
    BY Zenon, <1>3 DEF Unused, TypeOK
  <2>3. \A x \in Address : x # a => producers'[x] = producers[x]
    BY <1>1 DEF TypeOK
  <2>4. producers'[a].flow = a /\ producers'[a].spawner \in Listeners \cup {NoFlow} /\ a \notin Listeners
    BY Zenon, <1>1, Addresses DEF TypeOK, Listeners, TcpListener, ChannelListener
  <2> HIDE DEF a
  <2> QED BY ZenonT(60), <1>3, <2>1, <2>2, <2>3, <2>4 DEF GoneInv, Opened
<1>8. ReachInv'
  <2>1. \A x \in Conns : x # c => conn'[x] = conn[x]
    BY Zenon, <1>3 DEF TypeOK
  <2>2. \A k \in Chans : chan[k] # "none" => over[k] # c /\ over[k] \in Conns
    BY <1>3 DEF TypeOK, KnownInv
  <2>3. conn'[c] = "in" => listening = "running"
    BY <1>3 DEF TypeOK
  <2> QED BY Zenon, <1>3, <2>1, <2>2, <2>3 DEF ReachInv, Connected, Opened
<1> QED BY <1>4, <1>5, <1>6, <1>7, <1>8

-----------------------------------------------------------------------------
(* Secure channels.                                                        *)

\* A channel that is begun finds the flow control of its own connection.
LEMMA ChannelSetupKeeps ==
  ASSUME FlowInv, NEW k \in Chans, NEW c \in Conns, ChannelSetup(k, c)
  PROVE  FlowInv'
<1> USE DEF FlowInv
<1>1. /\ chan[k] = "none" /\ Connected(c) /\ chan' = [chan EXCEPT ![k] = "setup"] /\ over' = [over EXCEPT ![k] = c]
      /\ accepted' \in [Chans -> BOOLEAN]
      /\ UNCHANGED <<consumers, producers, producers_additional_addresses, spawners, listening, conn, recv, on, joined,
                     toClean, stage, doomed, info>>
  BY ZenonT(60) DEF ChannelSetup, Connected, maps, cleanup, TypeOK
<1>2. found' = [found EXCEPT ![k] = <<"receiver", c>>]
  <2>1. /\ get_flow_control_with_producer(<<"receiver", c>>) = <<"receiver", c>>
        /\ producers_additional_addresses[<<"sender", c>>] = <<"receiver", c>>
        /\ producers[<<"receiver", c>>].flow = <<"receiver", c>>
    BY Zenon, <1>1 DEF KnownInv, get_flow_control_with_producer
  <2>2. <<"receiver", c>> # NoAddress
    BY DEF NoAddress, NoFlow
  <2>3. find_flow_control_with_producer_address(<<"sender", c>>) = <<"receiver", c>>
    BY <2>1, <2>2 DEF find_flow_control_with_producer_address
  <2> QED BY <2>1, <2>3 DEF ChannelSetup
<1>3. TypeOK'
  BY ZenonT(60), <1>1, <1>2, Addresses DEF TypeOK
<1>4. /\ \A j \in Chans : j # k => chan'[j] = chan[j] /\ over'[j] = over[j] /\ found'[j] = found[j]
      /\ chan'[k] = "setup" /\ over'[k] = c /\ found'[k] = <<"receiver", c>>
      /\ \A r \in Receivers : found'[r] = found[r]
  BY <1>1, <1>2, FlowControlsAssumption DEF TypeOK
<1>5. OwnInv'
  BY <1>1, <1>4, OwnMono
<1>6. KnownInv'
  <2>1. \A j \in Chans : Opened(j)' => Opened(j)
    BY <1>1, <1>4 DEF Opened
  <2>2. \A j \in Chans : Opened(j) => Opened(j)'
    BY <1>1, <1>4 DEF Opened
  <2>3. \A r \in Receivers : recv[r] # "none" => Opened(on[r])'
    BY <1>1, <2>2 DEF KnownInv, TypeOK
  <2>4. conn[c] # "none"
    BY <1>1 DEF Connected
  <2>5. \A j \in Chans : chan'[j] # "none" => conn'[over'[j]] # "none"
    BY ZenonT(60), <1>1, <1>4, <2>4 DEF KnownInv
  <2> QED BY ZenonT(60), <1>1, <1>4, <2>1, <2>3, <2>5 DEF KnownInv, Connected
<1>7. GoneInv'
  <2>1. \A x : Gone(x) => Gone(x)'
    BY <1>1, <1>4 DEF Gone
  <2>2. \A j \in Chans : Opened(j) => Opened(j)'
    BY <1>1, <1>4 DEF Opened
  <2>3. \A f : Unused(f) => Unused(f)'
    BY Zenon, <1>1 DEF Unused
  <2> QED BY Zenon, <1>1, <2>1, <2>2, <2>3 DEF GoneInv
<1>8. ReachInv'
  <2>1. \A j \in Chans : Opened(j) => Opened(j)'
    BY <1>1, <1>4 DEF Opened
  <2> QED BY <1>1, <1>4, <2>1 DEF ReachInv, Connected
<1> QED BY <1>3, <1>5, <1>6, <1>7, <1>8

\* The channel starts: its decryptor is a consumer of the connection's flow control,
\* its internal address the producer of a new one.
LEMMA ChannelStartKeeps ==
  ASSUME FlowInv, NEW k \in Chans, ChannelStart(k)
  PROVE  FlowInv'
<1> USE DEF FlowInv
<1> DEFINE a == <<"internal", k>>
           b == <<"encryptor", k>>
           f == <<"receiver", over[k]>>
<1>1. /\ chan[k] = "setup" /\ chan' = [chan EXCEPT ![k] = "live"]
      /\ consumers' = add_consumer(consumers, <<"remote", k>>, found[k])
      /\ UNCHANGED <<spawners, listening, conn, over, accepted, recv, on, joined, found, toClean, stage, doomed, info>>
  BY DEF ChannelStart, cleanup
<1>2. PICK s \in {ChannelListener, NoFlow} : producers' = [producers EXCEPT ![a] = [flow |-> a, spawner |-> s]]
  BY Zenon DEF ChannelStart, add_producer
<1>3. producers_additional_addresses' =
        [x \in Address |-> IF x \in {b} \cup {a} THEN a ELSE producers_additional_addresses[x]]
  BY DEF ChannelStart, add_producer
<1>4. over[k] \in Conns /\ f \in Flow /\ f # NoFlow /\ found[k] = f
  BY ZenonT(60), <1>1, Addresses DEF TypeOK, KnownInv, NoFlow
<1>5. consumers' = [consumers EXCEPT ![f] = @ \cup {<<"remote", k>>}]
  BY Zenon, <1>1, <1>4 DEF add_consumer
<1>6. /\ \A j \in Chans : j # k => chan'[j] = chan[j]
      /\ chan'[k] = "live"
      /\ \A j \in Chans : Opened(j)' <=> Opened(j) \/ j = k
  BY <1>1 DEF TypeOK, Opened
<1>7. TypeOK'
  <2>1. a \in Flow /\ a \in Address /\ <<"remote", k>> \in Address /\ ChannelListener \in Flow
    BY Zenon, Addresses
  <2> HIDE DEF a, b, f
  <2>2. producers' \in [Address -> [flow : Flow \cup {NoFlow}, spawner : Flow \cup {NoFlow}]]
    BY <1>2, <2>1 DEF TypeOK
  <2>3. producers_additional_addresses' \in [Address -> Address \cup {NoAddress}]
    BY <1>3, <2>1 DEF TypeOK
  <2>4. consumers' \in [Flow -> SUBSET Address]
    BY Zenon, <1>5, <2>1 DEF TypeOK
  <2> QED BY ZenonT(60), <1>1, <2>2, <2>3, <2>4 DEF TypeOK
<1>8. /\ \A g \in Flow : g # f => consumers'[g] = consumers[g]
      /\ consumers'[f] = consumers[f] \cup {<<"remote", k>>}
  BY <1>4, <1>5 DEF TypeOK
<1>9. /\ \A j \in Chans : consumers'[<<"internal", j>>] = consumers[<<"internal", j>>]
      /\ consumers'[TcpListener] = consumers[TcpListener] /\ consumers'[ChannelListener] = consumers[ChannelListener]
  BY Zenon, <1>8, Addresses DEF TcpListener, ChannelListener
<1>10. OwnInv'
  <2>1. ASSUME NEW c \in Conns, NEW x \in consumers'[<<"receiver", c>>]
        PROVE  \E j \in Chans : x = <<"remote", j>> /\ chan'[j] # "none" /\ over'[j] = c
    <3>1. CASE x \in consumers[<<"receiver", c>>]
      BY ZenonT(60), <1>1, <1>6, <3>1 DEF OwnInv
    <3>2. CASE x \notin consumers[<<"receiver", c>>]
      <4>1. <<"receiver", c>> \in Flow
        BY Zenon, Addresses
      <4>2. <<"receiver", c>> = f
        BY <1>8, <2>1, <3>2, <4>1
      <4>3. x = <<"remote", k>> /\ c = over[k]
        BY <1>8, <2>1, <3>2, <4>2
      <4> QED BY <1>1, <1>6, <4>3
    <3> QED BY Zenon, <3>1, <3>2
  <2>2. ASSUME NEW i \in Chans, NEW x \in consumers'[<<"internal", i>>]
        PROVE  \/ \E r \in Receivers : x = <<"mailbox", r>> /\ recv'[r] # "none" /\ on'[r] = i
               \/ \E j \in Chans : x = <<"encryptor", j>> /\ {j, i} \in joined'
    BY ZenonT(60), <1>1, <1>9, <2>2 DEF OwnInv
  <2>3. consumers'[TcpListener] \subseteq {ChannelListener} /\ consumers'[ChannelListener] \subseteq {Service, Forwarder}
    BY <1>9 DEF OwnInv
  <2> HIDE DEF f
  <2> QED BY Zenon, <2>1, <2>2, <2>3 DEF OwnInv
<1>11. KnownInv'
  <2>1. \A x \in Conns : producers'[<<"receiver", x>>] = producers[<<"receiver", x>>]
          /\ producers_additional_addresses'[<<"sender", x>>] = producers_additional_addresses[<<"sender", x>>]
    BY Zenon, <1>2, <1>3, Addresses DEF TypeOK
  <2>2. producers'[a].flow = a /\ producers_additional_addresses'[b] = a
    BY Zenon, <1>2, <1>3, Addresses DEF TypeOK
  <2>3. \A j \in Chans : j # k => producers'[<<"internal", j>>] = producers[<<"internal", j>>]
          /\ producers_additional_addresses'[<<"encryptor", j>>] = producers_additional_addresses[<<"encryptor", j>>]
    BY ZenonT(60), <1>2, <1>3, Addresses DEF TypeOK
  <2>4. ASSUME NEW j \in Chans, Opened(j)'
        PROVE  /\ producers'[<<"internal", j>>].flow = <<"internal", j>>
               /\ producers_additional_addresses'[<<"encryptor", j>>] = <<"internal", j>>
    BY Zenon, <1>6, <2>2, <2>3, <2>4 DEF KnownInv
  <2>5. \A r \in Receivers : recv[r] # "none" => Opened(on[r])'
    BY Zenon, <1>1, <1>6 DEF KnownInv, TypeOK
  <2>6. \A j \in Chans : /\ chan'[j] # "none" => conn[over[j]] # "none"
                         /\ chan'[j] = "setup" => found[j] = <<"receiver", over[j]>>
    BY <1>1, <1>6 DEF KnownInv
  <2> HIDE DEF a, b, f
  <2> QED BY ZenonT(60), <1>1, <2>1, <2>4, <2>5, <2>6 DEF KnownInv, Connected
<1>12. GoneInv'
  <2>1. \A x : Gone(x) => Gone(x)'
    BY <1>1, <1>6 DEF Gone
  <2>2. \A g : Unused(g) => Unused(g)'
    BY Zenon, <1>1 DEF Unused
  <2>3. \A x \in Address : x # a => producers'[x] = producers[x]
    BY <1>2 DEF TypeOK
  <2>4. producers'[a].flow = a /\ producers'[a].spawner \in Listeners \cup {NoFlow} /\ a \notin Listeners
    BY Zenon, <1>2, Addresses DEF TypeOK, Listeners, TcpListener, ChannelListener
  <2> HIDE DEF a
  <2> QED BY ZenonT(60), <1>1, <1>6, <2>1, <2>2, <2>3, <2>4 DEF GoneInv
<1>13. ReachInv'
  <2>1. \A g \in Flow : consumers[g] \subseteq consumers'[g]
    BY <1>8
  <2>2. ASSUME NEW j \in Chans, chan'[j] = "live", Connected(over[j])'
        PROVE  <<"remote", j>> \in consumers'[<<"receiver", over'[j]>>]
    <3>1. CASE j = k
      BY <1>1, <1>8, <3>1
    <3>2. CASE j # k
      <4>1. over[j] \in Conns /\ <<"remote", j>> \in consumers[<<"receiver", over[j]>>]
        BY Zenon, <1>1, <1>6, <2>2, <3>2 DEF ReachInv, Connected, TypeOK
      <4> QED BY ZenonT(60), <1>1, <2>1, <4>1, Addresses
    <3> QED BY Zenon, <3>1, <3>2
  <2>3. \A r \in Receivers : recv[r] = "live" => <<"mailbox", r>> \in consumers'[<<"internal", on[r]>>]
    BY ZenonT(60), <1>9 DEF ReachInv, TypeOK
  <2>4. \A i, j \in Chans : {i, j} \in joined /\ i # j =>
          Opened(j)' /\ (chan'[j] = "live" => <<"encryptor", j>> \in consumers'[<<"internal", i>>])
    BY Zenon, <1>1, <1>6, <1>9 DEF ReachInv, Opened
  <2>5. listening = "running" \/ (\E c \in Conns : conn[c] = "in") => ChannelListener \in consumers'[TcpListener]
    BY Zenon, <1>9 DEF ReachInv
  <2>6. Service \in consumers'[ChannelListener]
    BY <1>9 DEF ReachInv
  <2> HIDE DEF a, b, f
  <2> QED BY ZenonT(60), <1>1, <2>2, <2>3, <2>4, <2>5, <2>6 DEF ReachInv
<1> QED BY Zenon, <1>7, <1>10, <1>11, <1>12, <1>13

\* The flow control of an open channel is found through its encryptor.
LEMMA FindChannel ==
  ASSUME FlowInv, NEW k \in Chans, Opened(k)
  PROVE  find_flow_control_with_producer_address(<<"encryptor", k>>) = <<"internal", k>>
BY Zenon DEF FlowInv, KnownInv, find_flow_control_with_producer_address, NoAddress, NoFlow

-----------------------------------------------------------------------------
(* Receivers and forwarders.                                               *)

\* A receiver finds the flow control of the channel it is set up for ...
LEMMA ReceiverSetupKeeps ==
  ASSUME FlowInv, NEW r \in Receivers, NEW k \in Chans, ReceiverSetup(r, k)
  PROVE  FlowInv'
<1> USE DEF FlowInv
<1>1. /\ recv[r] = "none" /\ Opened(k) /\ recv' = [recv EXCEPT ![r] = "setup"] /\ on' = [on EXCEPT ![r] = k]
      /\ found' = [found EXCEPT ![r] = <<"internal", k>>]
      /\ UNCHANGED <<consumers, producers, producers_additional_addresses, spawners, listening, conn, chan, over,
                     accepted, joined, toClean, stage, doomed, info>>
  BY Zenon, FindChannel DEF ReceiverSetup, Opened, maps, cleanup
<1>2. TypeOK'
  <2>1. /\ recv' \in [Receivers -> {"none", "setup", "live", "stopped"}]
        /\ on' \in [Receivers -> Chans \cup {NoFlow}]
        /\ \A q \in Receivers : recv'[q] # "none" => on'[q] \in Chans
    BY <1>1 DEF TypeOK
  <2>2. <<"internal", k>> \in Flow
    BY Zenon, Addresses
  <2>3. found' \in [Chans \cup Receivers -> Flow \cup {NoFlow}]
    BY ZenonT(60), <1>1, <2>2 DEF TypeOK
  <2> QED BY ZenonT(60), <1>1, <2>1, <2>3 DEF TypeOK
<1>3. /\ \A q \in Receivers : q # r => recv'[q] = recv[q] /\ on'[q] = on[q] /\ found'[q] = found[q]
      /\ recv'[r] = "setup" /\ on'[r] = k /\ found'[r] = <<"internal", k>>
      /\ \A j \in Chans : found'[j] = found[j]
  BY <1>1, FlowControlsAssumption DEF TypeOK
<1>4. OwnInv'
  BY Zenon, <1>1, <1>3, OwnMono
<1>5. KnownInv'
  <2>1. \A q \in Receivers : recv'[q] # "none" => Opened(on[q])'
    BY Zenon, <1>1, <1>3 DEF KnownInv, Opened
  <2>2. \A q \in Receivers : recv'[q] = "setup" => found'[q] = <<"internal", on'[q]>>
    BY ZenonT(60), <1>3 DEF KnownInv
  <2>3. \A j \in Chans : chan'[j] = "setup" => found'[j] = <<"receiver", over'[j]>>
    BY ZenonT(60), <1>1, <1>3 DEF KnownInv
  <2> QED BY Zenon, <1>1, <2>1, <2>2, <2>3 DEF KnownInv, Connected, Opened
<1>6. GoneInv'
  <2>1. \A x : Gone(x) => Gone(x)'
    BY ZenonT(60), <1>1, <1>3 DEF Gone
  <2> QED BY Zenon, <1>1, <2>1 DEF GoneInv, Unused, Opened
<1>7. ReachInv'
  BY ZenonT(60), <1>1, <1>3 DEF ReachInv, Connected, Opened
<1> QED BY <1>2, <1>4, <1>5, <1>6, <1>7

\* Consumers that are added to a flow control in use disturb no other.
LEMMA AddedReach ==
  ASSUME FlowInv, \A g \in Flow : consumers[g] \subseteq consumers'[g],
         UNCHANGED <<listening, conn, chan, over, on, joined>>,
         \A r \in Receivers : recv'[r] = "live" => recv[r] = "live" \/ <<"mailbox", r>> \in consumers'[<<"internal", on[r]>>],
         \A r \in Receivers : recv'[r] = "live" => on[r] \in Chans
  PROVE  ReachInv'
<1> USE DEF FlowInv
<1>1. \A k \in Chans : chan[k] = "live" /\ Connected(over[k]) => <<"remote", k>> \in consumers'[<<"receiver", over[k]>>]
  BY Zenon, Addresses DEF ReachInv, TypeOK
<1>2. listening = "running" \/ (\E c \in Conns : conn[c] = "in") => ChannelListener \in consumers'[TcpListener]
  BY ZenonT(60), Addresses DEF ReachInv
<1>3. Service \in consumers'[ChannelListener]
  BY Addresses DEF ReachInv
<1>4. \A r \in Receivers : recv'[r] = "live" => <<"mailbox", r>> \in consumers'[<<"internal", on[r]>>]
  BY Zenon, Addresses DEF ReachInv
<1>5. \A i, j \in Chans : {i, j} \in joined /\ i # j =>
        Opened(j) /\ (chan[j] = "live" => <<"encryptor", j>> \in consumers'[<<"internal", i>>])
  BY Zenon, Addresses DEF ReachInv
<1> QED BY Zenon, <1>1, <1>2, <1>3, <1>4, <1>5 DEF ReachInv, Connected, Opened

\* ... and is added to it; a remote forwarder becomes a producer of it.
LEMMA ReceiverStartKeeps ==
  ASSUME FlowInv, NEW r \in Receivers, ReceiverStart(r)
  PROVE  FlowInv'
<1> USE DEF FlowInv
<1> DEFINE m == <<"main", r>>
           k == on[r]
           f == <<"internal", k>>
<1>1. /\ recv[r] = "setup" /\ recv' = [recv EXCEPT ![r] = "live"]
      /\ consumers' = add_consumer(consumers, <<"mailbox", r>>, found[r])
      /\ UNCHANGED <<spawners, listening, conn, chan, over, accepted, on, joined, found, toClean, stage, doomed, info>>
  BY DEF ReceiverStart, cleanup
<1>2. k \in Chans /\ Opened(k) /\ found[r] = f /\ f \in Flow /\ f # NoFlow /\ m \in Address /\ <<"mailbox", r>> \in Address
  BY Zenon, <1>1, Addresses DEF TypeOK, KnownInv, NoFlow
<1>3. consumers' = [consumers EXCEPT ![f] = @ \cup {<<"mailbox", r>>}]
  BY ZenonT(60), <1>1, <1>2 DEF add_consumer
<1>4. /\ producers' = [producers EXCEPT ![m] = [flow |-> f, spawner |-> NoFlow]] \/ producers' = producers
      /\ \A x \in Address : x # m => producers_additional_addresses'[x] = producers_additional_addresses[x]
      /\ producers_additional_addresses' \in [Address -> Address \cup {NoAddress}]
  <2>1. CASE UNCHANGED <<producers, producers_additional_addresses>>
    BY Zenon, <2>1 DEF TypeOK
  <2>2. CASE add_producer(m, found[r], NoFlow, {})
    <3>1. producers' = [producers EXCEPT ![m] = [flow |-> f, spawner |-> NoFlow]]
      BY Zenon, <1>2, <2>2 DEF add_producer
    <3>2. producers_additional_addresses' =
            [x \in Address |-> IF x \in {} \cup {m} THEN m ELSE producers_additional_addresses[x]]
      BY Zenon, <2>2 DEF add_producer
    <3> HIDE DEF m, f
    <3> QED BY Zenon, <1>2, <3>1, <3>2 DEF TypeOK
  <2> QED BY Zenon, <2>1, <2>2 DEF ReceiverStart
<1>5. /\ \A x \in Address : x # m => producers'[x] = producers[x]
      /\ producers'[m] = producers[m] \/ (producers'[m].flow = f /\ producers'[m].spawner = NoFlow)
      /\ producers' \in [Address -> [flow : Flow \cup {NoFlow}, spawner : Flow \cup {NoFlow}]]
  <2> HIDE DEF m, f
  <2> QED BY <1>2, <1>4 DEF TypeOK
<1>6. /\ consumers' \in [Flow -> SUBSET Address]
      /\ \A g \in Flow : g # f => consumers'[g] = consumers[g]
      /\ consumers'[f] = consumers[f] \cup {<<"mailbox", r>>}
  <2> HIDE DEF f
  <2> QED BY Zenon, <1>2, <1>3 DEF TypeOK
<1>7. recv'[r] = "live" /\ \A q \in Receivers : q # r => recv'[q] = recv[q]
  BY <1>1 DEF TypeOK
<1>8. TypeOK'
  <2> HIDE DEF m, f, k
  <2>1. \A q \in Receivers : recv'[q] # "none" => on[q] \in Chans
    BY <1>1, <1>7 DEF TypeOK
  <2> QED BY ZenonT(60), <1>1, <1>4, <1>5, <1>6, <2>1 DEF TypeOK
<1>9. OwnInv'
  <2>1. \A c \in Conns : consumers'[<<"receiver", c>>] = consumers[<<"receiver", c>>]
    BY Zenon, <1>6, Addresses
  <2>2. consumers'[TcpListener] = consumers[TcpListener] /\ consumers'[ChannelListener] = consumers[ChannelListener]
    BY <1>6, Addresses DEF TcpListener, ChannelListener
  <2>3. ASSUME NEW i \in Chans, NEW x \in consumers'[<<"internal", i>>]
        PROVE  \/ \E q \in Receivers : x = <<"mailbox", q>> /\ recv'[q] # "none" /\ on'[q] = i
               \/ \E j \in Chans : x = <<"encryptor", j>> /\ {j, i} \in joined'
    <3>1. CASE x \in consumers[<<"internal", i>>]
      <4>1. \A q \in Receivers : recv[q] # "none" => recv'[q] # "none" /\ on'[q] = on[q]
        BY <1>1, <1>7
      <4>2. \/ \E q \in Receivers : x = <<"mailbox", q>> /\ recv[q] # "none" /\ on[q] = i
            \/ \E j \in Chans : x = <<"encryptor", j>> /\ {j, i} \in joined
        BY Zenon, <3>1 DEF OwnInv
      <4> QED BY Zenon, <1>1, <4>1, <4>2
    <3>2. CASE x \notin consumers[<<"internal", i>>]
      <4>1. <<"internal", i>> \in Flow
        BY Zenon, Addresses
      <4>2. <<"internal", i>> = f
        BY Zenon, <1>6, <2>3, <3>2, <4>1
      <4>3. x = <<"mailbox", r>> /\ i = on[r]
        BY ZenonT(60), <1>6, <2>3, <3>2, <4>2
      <4> QED BY <1>1, <1>7, <4>3
    <3> QED BY Zenon, <3>1, <3>2
  <2> HIDE DEF m, f, k
  <2>4. consumers'[TcpListener] \subseteq {ChannelListener} /\ consumers'[ChannelListener] \subseteq {Service, Forwarder}
    BY Zenon, <2>2 DEF OwnInv
  <2>5. \A c \in Conns : \A a \in consumers'[<<"receiver", c>>] :
          \E j \in Chans : a = <<"remote", j>> /\ chan'[j] # "none" /\ over'[j] = c
    BY <1>1, <2>1 DEF OwnInv
  <2> QED BY Zenon, <2>3, <2>4, <2>5 DEF OwnInv
<1>10. KnownInv'
  <2>1. \A x \in Conns : producers'[<<"receiver", x>>] = producers[<<"receiver", x>>]
          /\ producers_additional_addresses'[<<"sender", x>>] = producers_additional_addresses[<<"sender", x>>]
    BY Zenon, <1>4, <1>5, Addresses
  <2>2. \A j \in Chans : producers'[<<"internal", j>>] = producers[<<"internal", j>>]
          /\ producers_additional_addresses'[<<"encryptor", j>>] = producers_additional_addresses[<<"encryptor", j>>]
    BY Zenon, <1>4, <1>5, Addresses
  <2>3. \A q \in Receivers : /\ recv'[q] # "none" => Opened(on[q])'
                             /\ recv'[q] = "setup" => found[q] = <<"internal", on[q]>>
    BY <1>1, <1>7 DEF KnownInv, Opened
  <2>4. (\A c \in Conns : Connected(c)' <=> Connected(c)) /\ (\A j \in Chans : Opened(j)' <=> Opened(j))
    BY Zenon, <1>1 DEF Connected, Opened
  <2> HIDE DEF m, f, k
  <2> QED BY ZenonT(60), <1>1, <2>1, <2>2, <2>3, <2>4 DEF KnownInv
<1>11. GoneInv'
  <2>1. \A x : Gone(x) => Gone(x)'
    BY ZenonT(60), <1>1, <1>7 DEF Gone
  <2>2. \A x \in Address : \/ producers'[x].flow \in {x, NoFlow} \ Listeners
                           \/ \E j \in Chans : producers'[x].flow = <<"internal", j>> /\ Opened(j)'
    BY <1>1, <1>2, <1>5 DEF GoneInv, Opened
  <2>3. \A x \in Address : producers'[x].spawner \in Listeners \cup {NoFlow}
    BY Zenon, <1>5 DEF GoneInv
  <2> HIDE DEF m, f, k
  <2> QED BY ZenonT(60), <1>1, <2>1, <2>2, <2>3 DEF GoneInv, Unused, Opened
<1>12. ReachInv'
  <2>1. \A g \in Flow : consumers[g] \subseteq consumers'[g]
    BY Zenon, <1>6
  <2>2. \A q \in Receivers : recv'[q] = "live" => recv[q] = "live" \/ <<"mailbox", q>> \in consumers'[<<"internal", on[q]>>]
    BY Zenon, <1>6, <1>7
  <2>3. \A q \in Receivers : recv'[q] = "live" => on[q] \in Chans
    BY <1>1, <1>7 DEF TypeOK
  <2> HIDE DEF m, f, k
  <2> QED BY <1>1, <2>1, <2>2, <2>3, AddedReach
<1> QED BY Zenon, <1>8, <1>9, <1>10, <1>11, <1>12

\* The forwarder joins two live channels: each encryptor is added to the other's
\* flow control.
LEMMA ForwardKeeps ==
  ASSUME FlowInv, NEW i \in Chans, NEW j \in Chans, Forward(i, j)
  PROVE  FlowInv'
<1> USE DEF FlowInv
<1> DEFINE fi == <<"internal", i>>
           fj == <<"internal", j>>
           ei == <<"encryptor", i>>
           ej == <<"encryptor", j>>
<1>1. /\ i # j /\ chan[i] = "live" /\ chan[j] = "live" /\ joined' = joined \cup {{i, j}}
      /\ UNCHANGED <<producers, producers_additional_addresses, spawners, listening, conn, chan, over, accepted, recv,
                     on, found, toClean, stage, doomed, info>>
  BY DEF Forward, cleanup
<1>2. /\ find_flow_control_with_producer_address(<<"encryptor", i>>) = fi
      /\ find_flow_control_with_producer_address(<<"encryptor", j>>) = fj
  BY <1>1, FindChannel DEF Opened
<1>3. fi \in Flow /\ fj \in Flow /\ fi # NoFlow /\ fj # NoFlow /\ fi # fj /\ ei \in Address /\ ej \in Address
  BY Zenon, <1>1, Addresses DEF NoFlow
<1>4. consumers' = [[consumers EXCEPT ![fj] = @ \cup {ei}] EXCEPT ![fi] = @ \cup {ej}]
  BY Zenon, <1>2, <1>3 DEF Forward, add_consumer
<1>5. /\ consumers' \in [Flow -> SUBSET Address]
      /\ \A g \in Flow : g \notin {fi, fj} => consumers'[g] = consumers[g]
      /\ consumers'[fi] = consumers[fi] \cup {ej} /\ consumers'[fj] = consumers[fj] \cup {ei}
  <2> HIDE DEF fi, fj, ei, ej
  <2> QED BY <1>3, <1>4 DEF TypeOK
<1>6. TypeOK'
  <2>1. joined' \subseteq SUBSET Chans
    BY ZenonT(60), <1>1 DEF TypeOK
  <2> HIDE DEF fi, fj, ei, ej
  <2> QED BY ZenonT(60), <1>1, <1>5, <2>1 DEF TypeOK
<1>7. OwnInv'
  <2>1. \A c \in Conns : consumers'[<<"receiver", c>>] = consumers[<<"receiver", c>>]
    BY Zenon, <1>5, Addresses
  <2>2. consumers'[TcpListener] = consumers[TcpListener] /\ consumers'[ChannelListener] = consumers[ChannelListener]
    BY Zenon, <1>5, Addresses DEF TcpListener, ChannelListener
  <2>3. ASSUME NEW k \in Chans, NEW x \in consumers'[<<"internal", k>>]
        PROVE  \/ \E r \in Receivers : x = <<"mailbox", r>> /\ recv'[r] # "none" /\ on'[r] = k
               \/ \E l \in Chans : x = <<"encryptor", l>> /\ {l, k} \in joined'
    <3>1. CASE x \in consumers[<<"internal", k>>]
      <4>2. \/ \E r \in Receivers : x = <<"mailbox", r>> /\ recv[r] # "none" /\ on[r] = k
            \/ \E l \in Chans : x = <<"encryptor", l>> /\ {l, k} \in joined
        BY Zenon, <3>1 DEF OwnInv
      <4> QED BY Zenon, <1>1, <4>2
    <3>2. CASE x \notin consumers[<<"internal", k>>]
      <4>1. <<"internal", k>> \in Flow
        BY Zenon, Addresses
      <4>2. \/ k = i /\ x = <<"encryptor", j>>
            \/ k = j /\ x = <<"encryptor", i>>
        BY ZenonT(60), <1>5, <2>3, <3>2, <4>1
      <4>3. {j, i} \in joined' /\ {i, j} \in joined'
        BY Zenon, <1>1
      <4> QED BY Zenon, <4>2, <4>3
    <3> QED BY Zenon, <3>1, <3>2
  <2> HIDE DEF fi, fj, ei, ej
  <2>4. consumers'[TcpListener] \subseteq {ChannelListener} /\ consumers'[ChannelListener] \subseteq {Service, Forwarder}
    BY Zenon, <2>2 DEF OwnInv
  <2>5. \A c \in Conns : \A a \in consumers'[<<"receiver", c>>] :
          \E k \in Chans : a = <<"remote", k>> /\ chan'[k] # "none" /\ over'[k] = c
    BY <1>1, <2>1 DEF OwnInv
  <2> QED BY Zenon, <2>3, <2>4, <2>5 DEF OwnInv
<1>8. KnownInv'
  BY Zenon, <1>1 DEF KnownInv, Connected, Opened
<1>9. GoneInv'
  BY ZenonT(60), <1>1 DEF GoneInv, Gone, Unused, Opened
<1>10. ReachInv'
  <2>1. \A g \in Flow : consumers[g] \subseteq consumers'[g]
    BY Zenon, <1>5
  <2>2. \A k \in Chans : chan[k] = "live" /\ Connected(over[k]) => <<"remote", k>> \in consumers'[<<"receiver", over[k]>>]
    BY Zenon, <2>1, Addresses DEF ReachInv, TypeOK
  <2>3. listening = "running" \/ (\E c \in Conns : conn[c] = "in") => ChannelListener \in consumers'[TcpListener]
    BY ZenonT(60), <2>1, Addresses DEF ReachInv
  <2>4. Service \in consumers'[ChannelListener]
    BY <2>1, Addresses DEF ReachInv
  <2>5. \A r \in Receivers : recv[r] = "live" => <<"mailbox", r>> \in consumers'[<<"internal", on[r]>>]
    BY Zenon, <2>1, Addresses DEF ReachInv, TypeOK
  <2>6. ASSUME NEW k \in Chans, NEW l \in Chans, {k, l} \in joined', k # l
        PROVE  Opened(l) /\ (chan[l] = "live" => <<"encryptor", l>> \in consumers'[<<"internal", k>>])
    <3>1. CASE {k, l} \in joined
      BY Zenon, <2>1, <2>6, <3>1, Addresses DEF ReachInv
    <3>2. CASE {k, l} = {i, j}
      <4>1. (k = i /\ l = j) \/ (k = j /\ l = i)
        BY Zenon, <2>6, <3>2
      <4> QED BY Zenon, <1>1, <1>5, <4>1 DEF Opened
    <3> QED BY Zenon, <1>1, <2>6, <3>1, <3>2
  <2> HIDE DEF fi, fj, ei, ej
  <2> QED BY Zenon, <1>1, <2>2, <2>3, <2>4, <2>5, <2>6 DEF ReachInv, Connected, Opened
<1> QED BY Zenon, <1>6, <1>7, <1>8, <1>9, <1>10

-----------------------------------------------------------------------------
(* Workers that stop.                                                      *)

\* The addresses of a worker that stopped join the queue of the clean-up.
LEMMA StopQueue ==
  ASSUME FlowInv, NEW addrs \in Seq(Address), Stop(addrs),
         \A n \in 1 .. Len(addrs) : Gone(addrs[n])', \A x : Gone(x) => Gone(x)'
  PROVE  /\ toClean' \in Seq(Address) /\ \A n \in 1 .. Len(toClean') : Gone(toClean[n])'
         /\ stage' # "idle" => toClean' # <<>>
         /\ UNCHANGED <<stage, doomed, info>>
<1>1. toClean \in Seq(Address) /\ toClean' = toClean \o addrs /\ UNCHANGED <<stage, doomed, info>>
  BY DEF FlowInv, TypeOK, Stop
<1>2. /\ toClean' \in Seq(Address) /\ Len(toClean') = Len(toClean) + Len(addrs)
      /\ \A n \in 1 .. Len(toClean) + Len(addrs) :
           toClean'[n] = IF n <= Len(toClean) THEN toClean[n] ELSE addrs[n - Len(toClean)]
  BY <1>1, ConcatProperties
<1>3. Len(toClean) \in Nat /\ Len(addrs) \in Nat
  BY Zenon, <1>1, LenProperties
<1>4. ASSUME NEW n \in 1 .. Len(toClean') PROVE Gone(toClean[n])'
  <2>1. CASE n <= Len(toClean)
    <3>1. n \in 1 .. Len(toClean) /\ toClean'[n] = toClean[n]
      BY <1>2, <1>3, <2>1
    <3>2. Gone(toClean[n])
      BY <3>1 DEF FlowInv, GoneInv
    <3> QED BY Zenon, <3>1, <3>2 DEF Gone
  <2>2. CASE ~ (n <= Len(toClean))
    <3>1. n - Len(toClean) \in 1 .. Len(addrs) /\ toClean'[n] = addrs[n - Len(toClean)]
      BY <1>2, <1>3, <2>2
    <3> QED BY <3>1 DEF Gone
  <2> QED BY Zenon, <2>1, <2>2
<1>5. toClean # <<>> => toClean' # <<>>
  BY <1>1, <1>2, <1>3
<1> QED BY Zenon, <1>1, <1>2, <1>4, <1>5 DEF FlowInv, GoneInv

\* A worker that stops keeps the maps as they are: nothing else depends on its state.
LEMMA StopKeeps ==
  ASSUME FlowInv,
         \/ \E c \in Conns : StopConnection(c)
         \/ \E k \in Chans : StopChannel(k)
         \/ \E r \in Receivers : StopReceiver(r)
         \/ RemoveListener \/ StopListener
  PROVE  FlowInv'
<1> USE DEF FlowInv
<1>1. UNCHANGED <<consumers, producers, producers_additional_addresses, spawners, over, accepted, on, joined, found>>
  BY Zenon DEF StopConnection, StopChannel, StopReceiver, RemoveListener, StopListener, maps
<1>2. /\ listening' \in {"running", "removed", "stopped"} /\ (listening' = "running" => listening = "running")
      /\ conn' \in [Conns -> {"none", "in", "late", "out", "stopped"}]
      /\ \A c \in Conns : conn'[c] = conn[c] \/ (conn'[c] = "stopped" /\ conn[c] # "none")
      /\ chan' \in [Chans -> {"none", "setup", "live", "stopped"}]
      /\ \A k \in Chans : chan'[k] = chan[k] \/ (chan'[k] = "stopped" /\ chan[k] = "live")
      /\ recv' \in [Receivers -> {"none", "setup", "live", "stopped"}]
      /\ \A r \in Receivers : recv'[r] = recv[r] \/ (recv'[r] = "stopped" /\ recv[r] = "live")
  BY ZenonT(60) DEF StopConnection, StopChannel, StopReceiver, RemoveListener, StopListener, TypeOK
<1>3. \A x : Gone(x) => Gone(x)'
  BY <1>2 DEF Gone, TypeOK
<1> DEFINE Queued == /\ toClean' \in Seq(Address) /\ \A n \in 1 .. Len(toClean') : Gone(toClean[n])'
                     /\ stage' # "idle" => toClean' # <<>>
                     /\ UNCHANGED <<stage, doomed, info>>
<1>4. Queued
  <2>1. ASSUME NEW c \in Conns, StopConnection(c) PROVE Queued
    <3> DEFINE q == << <<"receiver", c>>, <<"sender", c>> >>
    <3>a. conn'[c] = "stopped"
      BY <2>1 DEF StopConnection, TypeOK
    <3>b. q \in Seq(Address)
      BY Addresses
    <3>1. q \in Seq(Address) /\ Stop(q) /\ conn'[c] = "stopped"
      BY Zenon, <2>1, <3>a, <3>b DEF StopConnection
    <3>2. \A n \in 1 .. Len(q) : Gone(q[n])'
      BY <3>1 DEF Gone
    <3> HIDE DEF q
    <3> QED BY Zenon, <1>3, <3>1, <3>2, StopQueue
  <2>2. ASSUME NEW k \in Chans, StopChannel(k) PROVE Queued
    <3> DEFINE q == << <<"remote", k>>, <<"encryptor", k>> >>
    <3>a. chan'[k] = "stopped"
      BY <2>2 DEF StopChannel, TypeOK
    <3>c. <<"remote", k>> \in Address /\ <<"encryptor", k>> \in Address
      BY Zenon, Addresses
    <3>b. q \in Seq(Address)
      BY <3>c
    <3>1. q \in Seq(Address) /\ Stop(q) /\ chan'[k] = "stopped"
      BY Zenon, <2>2, <3>a, <3>b DEF StopChannel
    <3>2. \A n \in 1 .. Len(q) : Gone(q[n])'
      BY <3>1 DEF Gone
    <3> HIDE DEF q
    <3> QED BY Zenon, <1>3, <3>1, <3>2, StopQueue
  <2>3. ASSUME NEW r \in Receivers, StopReceiver(r) PROVE Queued
    <3> DEFINE q == << <<"main", r>> >>
    <3>a. recv'[r] = "stopped"
      BY <2>3 DEF StopReceiver, TypeOK
    <3>c. <<"main", r>> \in Address
      BY Zenon, Addresses
    <3>b. q \in Seq(Address)
      BY <3>c
    <3>1. q \in Seq(Address) /\ Stop(q) /\ recv'[r] = "stopped"
      BY Zenon, <2>3, <3>a, <3>b DEF StopReceiver
    <3>2. \A n \in 1 .. Len(q) : Gone(q[n])'
      BY <3>1 DEF Gone
    <3> HIDE DEF q
    <3> QED BY Zenon, <1>3, <3>1, <3>2, StopQueue
  <2>4. CASE RemoveListener
    <3> DEFINE q == <<TcpListener>>
    <3>1. q \in Seq(Address) /\ Stop(q) /\ listening' # "running"
      BY <2>4, Addresses DEF RemoveListener
    <3>2. \A n \in 1 .. Len(q) : Gone(q[n])'
      BY <3>1 DEF Gone
    <3> HIDE DEF q
    <3> QED BY Zenon, <1>3, <3>1, <3>2, StopQueue
  <2>5. CASE StopListener
    <3>1. UNCHANGED <<toClean, stage, doomed, info>>
      BY Zenon, <2>5 DEF StopListener, cleanup
    <3>2. /\ toClean \in Seq(Address) /\ (stage # "idle" => toClean # <<>>)
          /\ \A n \in 1 .. Len(toClean) : Gone(toClean[n])
      BY DEF TypeOK, GoneInv
    <3>3. \A n \in 1 .. Len(toClean) : Gone(toClean[n])'
      BY Zenon, <1>3, <3>1, <3>2 DEF Gone
    <3> QED BY Zenon, <3>1, <3>2, <3>3
  <2> QED BY <2>1, <2>2, <2>3, <2>4, <2>5
<1>5. TypeOK'
  <2>1. /\ \A k \in Chans : chan'[k] # "none" => over[k] \in Conns
        /\ \A r \in Receivers : recv'[r] # "none" => on[r] \in Chans
    BY Zenon, <1>2 DEF TypeOK
  <2> QED BY ZenonT(60), <1>1, <1>2, <1>4, <2>1 DEF TypeOK
<1>6. OwnInv'
  BY Zenon, <1>1, <1>2, OwnMono
<1>7. \A k \in Chans : Opened(k)' <=> Opened(k)
  BY Zenon, <1>2 DEF Opened, TypeOK
<1>8. \A c \in Conns : Connected(c)' => Connected(c) /\ conn'[c] = conn[c]
  BY <1>2 DEF Connected, TypeOK
<1>9. KnownInv'
  <2>1. \A r \in Receivers : /\ recv'[r] # "none" => Opened(on[r])'
                             /\ recv'[r] = "setup" => found[r] = <<"internal", on[r]>>
    BY ZenonT(60), <1>1, <1>2, <1>7 DEF KnownInv, TypeOK
  <2>2. \A k \in Chans : /\ chan'[k] # "none" => conn'[over[k]] # "none"
                         /\ chan'[k] = "setup" => found[k] = <<"receiver", over[k]>>
    <3> TAKE k \in Chans
    <3>1. chan'[k] = chan[k] \/ (chan'[k] = "stopped" /\ chan[k] = "live")
      BY Zenon, <1>2
    <3>2. chan'[k] # "none" => chan[k] # "none"
      BY Zenon, <3>1
    <3>3. chan'[k] = "setup" => chan[k] = "setup"
      BY <3>1
    <3>4. chan'[k] # "none" => over[k] \in Conns /\ conn[over[k]] # "none"
      BY Zenon, <3>2 DEF TypeOK, KnownInv
    <3>5. \A c \in Conns : conn[c] # "none" => conn'[c] # "none"
      BY Zenon, <1>2
    <3>6. chan'[k] = "setup" => found[k] = <<"receiver", over[k]>>
      BY Zenon, <3>3 DEF KnownInv
    <3> QED BY Zenon, <3>4, <3>5, <3>6
  <2> QED BY ZenonT(60), <1>1, <1>2, <1>7, <1>8, <2>1, <2>2 DEF KnownInv
<1>10. GoneInv'
  <2>1. \A f : Unused(f) => Unused(f)'
    BY <1>2 DEF Unused, TypeOK
  <2> QED BY ZenonT(60), <1>1, <1>4, <1>7, <2>1 DEF GoneInv
<1>11. ReachInv'
  <2>1. \A k \in Chans : chan'[k] = "live" => chan[k] = "live" /\ over[k] \in Conns
    BY Zenon, <1>2 DEF TypeOK
  <2>2. \A c \in Conns : conn'[c] = "in" => conn[c] = "in"
    BY Zenon, <1>2
  <2>3. \A r \in Receivers : recv'[r] = "live" => recv[r] = "live"
    BY <1>2
  <2>4. \A k \in Chans : chan'[k] = "live" /\ Connected(over[k])' => <<"remote", k>> \in consumers[<<"receiver", over[k]>>]
    BY Zenon, <1>1, <1>8, <2>1 DEF ReachInv
  <2>5. \A i, j \in Chans : {i, j} \in joined /\ i # j =>
          Opened(j)' /\ (chan'[j] = "live" => <<"encryptor", j>> \in consumers[<<"internal", i>>])
    BY ZenonT(60), <1>7, <2>1 DEF ReachInv
  <2> QED BY ZenonT(60), <1>1, <1>2, <2>2, <2>3, <2>4, <2>5 DEF ReachInv
<1> QED BY <1>5, <1>6, <1>9, <1>10, <1>11

\* Who has gone: never a listener in use, a decryptor, an encryptor or a mailbox in
\* use, and of the flow controls only those of stopped connections.
LEMMA GoneKinds ==
  ASSUME NEW a \in Address, Gone(a)
  PROVE  /\ a # ChannelListener /\ a # Service /\ (a = TcpListener => listening # "running")
         /\ \A c \in Conns : a \in {<<"receiver", c>>, <<"sender", c>>} => ~Connected(c)
         /\ \A k \in Chans : /\ a # <<"internal", k>>
                             /\ a \in {<<"remote", k>>, <<"encryptor", k>>} => chan[k] # "live"
         /\ \A r \in Receivers : a # <<"mailbox", r>>
         /\ a \in Flow => a = TcpListener \/ \E c \in Conns : a = <<"receiver", c>> /\ conn[c] = "stopped"
<1>1. CASE a = TcpListener /\ listening # "running"
  BY Zenon, <1>1 DEF TcpListener, ChannelListener, Service
<1>2. CASE \E c \in Conns : a \in {<<"receiver", c>>, <<"sender", c>>} /\ conn[c] = "stopped"
  BY <1>2 DEF TcpListener, ChannelListener, Service, Connected, Flow
<1>3. CASE \E k \in Chans : a \in {<<"remote", k>>, <<"encryptor", k>>} /\ chan[k] = "stopped"
  BY <1>3 DEF TcpListener, ChannelListener, Service, Flow
<1>4. CASE \E r \in Receivers : a = <<"main", r>>
  BY <1>4 DEF TcpListener, ChannelListener, Service, Flow
<1> QED BY Zenon, <1>1, <1>2, <1>3, <1>4 DEF Gone

\* The clean-up works on an address that has gone.
LEMMA HeadGone ==
  ASSUME FlowInv, stage # "idle" \/ toClean # <<>>
  PROVE  Head(toClean) \in Address /\ Gone(Head(toClean))
<1>1. toClean \in Seq(Address) /\ toClean # <<>> /\ \A n \in 1 .. Len(toClean) : Gone(toClean[n])
  BY DEF FlowInv, TypeOK, GoneInv
<1>2. Head(toClean) \in Address /\ Head(toClean) = toClean[1] /\ 1 \in 1 .. Len(toClean)
  BY <1>1
<1> QED BY ZenonT(60), <1>1, <1>2

\* The addresses still to be cleaned up after the first have gone too.
LEMMA TailGone ==
  ASSUME NEW q \in Seq(Address), q # <<>>, \A n \in 1 .. Len(q) : Gone(q[n])
  PROVE  Tail(q) \in Seq(Address) /\ \A n \in 1 .. Len(Tail(q)) : Gone(Tail(q)[n])
<1>1. /\ Len(q) \in Nat /\ Tail(q) \in Seq(Address) /\ Len(Tail(q)) = Len(q) - 1
      /\ \A n \in 1 .. Len(Tail(q)) : Tail(q)[n] = q[n + 1]
  BY HeadTailProperties, LenProperties
<1>2. \A n \in 1 .. Len(Tail(q)) : n + 1 \in 1 .. Len(q)
  BY <1>1
<1> QED BY <1>1, <1>2

\* A step of the clean-up that takes away only what is unused or gone keeps the
\* invariant.
LEMMA CleanKeeps ==
  ASSUME FlowInv, UNCHANGED <<workers, found>>, TypeOK', GoneInv',
         \A f \in Flow : consumers'[f] \subseteq consumers[f],
         \A f \in Flow : ~Unused(f) => \A a \in consumers[f] : ~Gone(a) => a \in consumers'[f],
         \A c \in Conns : Connected(c) =>
             /\ producers'[<<"receiver", c>>] = producers[<<"receiver", c>>]
             /\ producers_additional_addresses'[<<"sender", c>>] = producers_additional_addresses[<<"sender", c>>],
         \A k \in Chans : Opened(k) =>
             /\ producers'[<<"internal", k>>] = producers[<<"internal", k>>]
             /\ producers_additional_addresses'[<<"encryptor", k>>] = producers_additional_addresses[<<"encryptor", k>>],
         spawners'[ChannelListener] = spawners[ChannelListener],
         listening = "running" => spawners'[TcpListener] = spawners[TcpListener]
  PROVE  FlowInv'
<1> USE DEF FlowInv
<1>1. UNCHANGED <<listening, conn, chan, over, accepted, recv, on, joined, found>>
  BY Zenon DEF workers
<1>2. OwnInv'
  BY Zenon, <1>1, OwnMono
<1>3. KnownInv'
  <2>1. \A c \in Conns : Connected(c)' <=> Connected(c)
    BY Zenon, <1>1 DEF Connected
  <2>2. \A k \in Chans : Opened(k)' <=> Opened(k)
    BY Zenon, <1>1 DEF Opened
  <2>3. \A r \in Receivers : recv'[r] # "none" => Opened(on[r])'
    BY Zenon, <1>1, <2>2 DEF KnownInv, TypeOK
  <2> QED BY ZenonT(60), <1>1, <2>1, <2>2, <2>3 DEF KnownInv
<1>4. \A c \in Conns : Connected(c) => ~Unused(<<"receiver", c>>)
  BY Zenon DEF Unused, Connected, NoFlow, TcpListener
<1>5. \A k \in Chans : ~Unused(<<"internal", k>>)
  BY Zenon DEF Unused, NoFlow, TcpListener
<1>6. ~Unused(ChannelListener) /\ (listening = "running" \/ (\E c \in Conns : conn[c] = "in") => ~Unused(TcpListener))
  BY Zenon DEF Unused, NoFlow, TcpListener, ChannelListener
<1>7. /\ \A k \in Chans : chan[k] = "live" => ~Gone(<<"remote", k>>) /\ ~Gone(<<"encryptor", k>>)
      /\ \A r \in Receivers : ~Gone(<<"mailbox", r>>)
      /\ ~Gone(ChannelListener) /\ ~Gone(Service)
  BY Zenon, Addresses, GoneKinds
<1>8. ReachInv'
  <2>1. \A k \in Chans : chan[k] = "live" /\ Connected(over[k]) => <<"remote", k>> \in consumers'[<<"receiver", over[k]>>]
    BY ZenonT(60), <1>4, <1>7, Addresses DEF ReachInv, TypeOK
  <2>2. listening = "running" \/ (\E c \in Conns : conn[c] = "in") => ChannelListener \in consumers'[TcpListener]
    BY Zenon, <1>6, <1>7, Addresses DEF ReachInv
  <2>3. Service \in consumers'[ChannelListener]
    BY Zenon, <1>6, <1>7, Addresses DEF ReachInv
  <2>4. \A r \in Receivers : recv[r] = "live" => <<"mailbox", r>> \in consumers'[<<"internal", on[r]>>]
    <3> TAKE r \in Receivers
    <3> HAVE recv[r] = "live"
    <3>1. on[r] \in Chans /\ <<"mailbox", r>> \in consumers[<<"internal", on[r]>>]
      BY Zenon DEF TypeOK, ReachInv
    <3> QED BY Zenon, <1>5, <1>7, <3>1, Addresses
  <2>5. \A i, j \in Chans : {i, j} \in joined /\ i # j =>
          Opened(j) /\ (chan[j] = "live" => <<"encryptor", j>> \in consumers'[<<"internal", i>>])
    <3> TAKE i, j \in Chans
    <3> HAVE {i, j} \in joined /\ i # j
    <3>1. Opened(j) /\ (chan[j] = "live" => <<"encryptor", j>> \in consumers[<<"internal", i>>])
      BY DEF ReachInv
    <3> QED BY ZenonT(60), <1>5, <1>7, <3>1, Addresses
  <2> QED BY ZenonT(60), <1>1, <2>1, <2>2, <2>3, <2>4, <2>5 DEF ReachInv, Opened, Connected
<1> QED BY Zenon, <1>2, <1>3, <1>8

\* FlowControls::cleanup_spawner, its check and its removal keep the invariant: the
\* consumers removed are those of a spawner nobody was spawned by any more.
LEMMA CleanupSpawnerKeeps ==
  ASSUME FlowInv, cleanup_spawner \/ cleanup_spawner_check \/ cleanup_spawner_remove
  PROVE  FlowInv'
<1> USE DEF FlowInv
<1>1. UNCHANGED <<producers, producers_additional_addresses, toClean, info, listening, conn, chan, recv, over, accepted, on, joined, found>>
      /\ UNCHANGED <<workers, found>>
  BY Zenon DEF cleanup_spawner, cleanup_spawner_check, cleanup_spawner_remove, maps, workers
<1>2. /\ \A x : Gone(x)' <=> Gone(x)
      /\ \A x : Unused(x)' <=> Unused(x)
      /\ \A k : Opened(k)' <=> Opened(k)
  BY <1>1 DEF Gone, Unused, Opened
<1>3. toClean # <<>> /\ \A n \in 1 .. Len(toClean) : Gone(toClean[n])'
  BY <1>2 DEF GoneInv, cleanup_spawner, cleanup_spawner_check, cleanup_spawner_remove
<1>4. \A a \in Address : \/ producers'[a].flow \in {a, NoFlow} \ Listeners
                         \/ \E k \in Chans : producers'[a].flow = <<"internal", k>> /\ Opened(k)'
  BY Zenon, <1>1, <1>2 DEF GoneInv
<1>5. CASE cleanup_spawner
  <2> DEFINE a == Head(toClean)
  <2>1. a \in Address /\ Gone(a)
    BY Zenon, <1>3, HeadGone
  <2>2. a # ChannelListener /\ (a = TcpListener => listening # "running")
    BY Zenon, <2>1, GoneKinds
  <2>3. /\ spawners' = [spawners EXCEPT ![a] = NoFlow] /\ doomed' = spawners[a]
        /\ stage' \in {"producer", "spawner"} /\ consumers' = consumers
    BY Zenon, <1>5 DEF cleanup_spawner, Goto
  <2> HIDE DEF a
  <2>4. TypeOK'
    <3>1. spawners' \in [Address -> Flow \cup {NoFlow}] /\ doomed' \in Flow \cup {NoFlow}
      BY Zenon, <2>1, <2>3 DEF TypeOK
    <3> QED BY ZenonT(60), <1>1, <2>3, <3>1 DEF TypeOK
  <2>5. \A x \in Address : spawners'[x] \in Listeners \cup {NoFlow}
    BY Zenon, <2>3 DEF TypeOK, GoneInv
  <2>6. GoneInv'
    BY ZenonT(60), <1>1, <1>3, <1>4, <2>1, <2>3, <2>5 DEF GoneInv
  <2>7. spawners'[ChannelListener] = spawners[ChannelListener] /\ (listening = "running" => spawners'[TcpListener] = spawners[TcpListener])
    BY Zenon, <2>2, <2>3, Addresses DEF TypeOK
  <2> QED BY Zenon, <1>1, <2>3, <2>4, <2>6, <2>7, CleanKeeps
<1>6. CASE cleanup_spawner_check
  <2>1. /\ doomed' = IF Spawning(doomed) \/ SpawnedBy(doomed) THEN NoFlow ELSE doomed
        /\ stage' \in {"spawner_remove", "producers_spawner_remove"} /\ UNCHANGED <<consumers, spawners>>
        /\ stage' = "producers_spawner_remove" => stage = "producers_spawner"
        /\ doomed \in Listeners \cup {NoFlow}
    BY Zenon, <1>6 DEF cleanup_spawner_check, Goto, maps, GoneInv
  <2>2. Unused(doomed')
    <3>1. Spawning(ChannelListener)
      BY Zenon, Addresses DEF Spawning, KnownInv
    <3>2. listening = "running" => Spawning(TcpListener)
      BY Addresses DEF Spawning, KnownInv
    <3>3. \A c \in Conns : conn[c] = "in" => SpawnedBy(TcpListener)
      BY Zenon, Addresses DEF SpawnedBy, KnownInv, Connected
    <3> QED BY ZenonT(60), <2>1, <3>1, <3>2, <3>3 DEF Unused, Listeners
  <2>3. Unused(doomed)'
    BY Zenon, <1>1, <2>2 DEF Unused
  <2>4. TypeOK'
    BY Zenon, <1>1, <2>1 DEF TypeOK
  <2>5. stage' = "producers_spawner_remove" => Unused(info.flow)' \/ \E k \in Chans : info'.flow = <<"internal", k>> /\ Opened(k)'
    BY ZenonT(60), <1>1, <1>2, <2>1 DEF GoneInv, Unused
  <2>6. GoneInv'
    BY ZenonT(60), <1>1, <1>3, <1>4, <2>1, <2>3, <2>5 DEF GoneInv
  <2> QED BY Zenon, <1>1, <2>1, <2>4, <2>6, CleanKeeps
<1>7. CASE cleanup_spawner_remove
  <2>1. /\ consumers' = IF doomed = NoFlow THEN consumers ELSE [consumers EXCEPT ![doomed] = {}]
        /\ doomed' = NoFlow /\ spawners' = spawners /\ Unused(doomed)
        /\ stage' \in {"producer", "flow", "consumer"} /\ (stage' = "flow" => stage = "producers_spawner_remove")
    BY Zenon, <1>7 DEF cleanup_spawner_remove, Goto, Remove, GoneInv
  <2>2. /\ consumers' \in [Flow -> SUBSET Address] /\ \A f \in Flow : consumers'[f] \subseteq consumers[f]
        /\ \A f \in Flow : ~Unused(f) => consumers'[f] = consumers[f]
    BY <2>1 DEF TypeOK
  <2>3. TypeOK'
    BY ZenonT(60), <1>1, <2>1, <2>2 DEF TypeOK
  <2>4. stage' = "flow" => Unused(info.flow)' \/ \E k \in Chans : info'.flow = <<"internal", k>> /\ Opened(k)'
    BY ZenonT(60), <1>1, <1>2, <2>1 DEF GoneInv, Unused
  <2>5. GoneInv'
    BY ZenonT(60), <1>1, <1>3, <1>4, <2>1, <2>4 DEF GoneInv
  <2> QED BY Zenon, <1>1, <2>1, <2>2, <2>3, <2>5, CleanKeeps
<1> QED BY <1>5, <1>6, <1>7

\* FlowControls::cleanup_producer and its check keep the invariant: the id that is
\* then removed is that of a stopped connection; a channel's outlives its workers.
LEMMA CleanupProducerKeeps ==
  ASSUME FlowInv, cleanup_producer \/ cleanup_producer_check
  PROVE  FlowInv'
<1> USE DEF FlowInv
<1>1. UNCHANGED <<consumers, spawners, toClean, listening, conn, chan, recv, over, accepted, on, joined, found>>
      /\ UNCHANGED <<workers, found>>
  BY Zenon DEF cleanup_producer, cleanup_producer_check, maps, workers
<1>2. /\ \A x : Gone(x)' <=> Gone(x)
      /\ \A k : Opened(k)' <=> Opened(k)
  BY <1>1 DEF Gone, Opened
<1>3. toClean # <<>> /\ \A n \in 1 .. Len(toClean) : Gone(toClean[n])'
  BY Zenon, <1>2 DEF GoneInv, cleanup_producer, cleanup_producer_check
<1>4. CASE cleanup_producer
  <2> DEFINE a == Head(toClean)
  <2>1. a \in Address /\ Gone(a)
    BY Zenon, <1>3, HeadGone
  <2>2. /\ info' = producers[a] /\ producers' = [producers EXCEPT ![a] = NoProducer]
        /\ producers_additional_addresses' =
               [x \in Address |-> IF producers[a] # NoProducer /\ producers_additional_addresses[x] = a
                                    THEN NoAddress ELSE producers_additional_addresses[x]]
        /\ doomed' = producers[a].spawner /\ stage' \in {"consumer", "flow", "producers_spawner"}
    BY Zenon, <1>4 DEF cleanup_producer, Goto
  <2> HIDE DEF a
  <2>3. /\ \A c \in Conns : Connected(c) => a # <<"receiver", c>>
        /\ \A k \in Chans : a # <<"internal", k>>
        /\ a \in Flow => a = TcpListener \/ \E c \in Conns : a = <<"receiver", c>> /\ conn[c] = "stopped"
    BY Zenon, <2>1, GoneKinds
  <2>4. NoProducer \in [flow : Flow \cup {NoFlow}, spawner : Flow \cup {NoFlow}] /\ NoProducer.flow = NoFlow /\ NoProducer.spawner = NoFlow
    BY Zenon DEF NoProducer
  <2>5. TypeOK'
    <3>1. producers' \in [Address -> [flow : Flow \cup {NoFlow}, spawner : Flow \cup {NoFlow}]]
      BY Zenon, <2>1, <2>2, <2>4 DEF TypeOK
    <3>2. producers_additional_addresses' \in [Address -> Address \cup {NoAddress}]
      BY Zenon, <2>2 DEF TypeOK
    <3>3. info' \in [flow : Flow \cup {NoFlow}, spawner : Flow \cup {NoFlow}] /\ doomed' \in Flow \cup {NoFlow}
      BY Zenon, <2>1, <2>2 DEF TypeOK
    <3> QED BY Zenon, <1>1, <2>2, <3>1, <3>2, <3>3 DEF TypeOK
  <2>6. /\ info'.flow \notin Listeners /\ doomed' \in Listeners \cup {NoFlow}
        /\ \/ info'.flow = NoFlow
           \/ info'.flow = a
           \/ \E k \in Chans : info'.flow = <<"internal", k>> /\ Opened(k)
    <3>1. /\ producers[a].spawner \in Listeners \cup {NoFlow}
          /\ \/ producers[a].flow \in {a, NoFlow} \ Listeners
             \/ \E k \in Chans : producers[a].flow = <<"internal", k>> /\ Opened(k)
      BY Zenon, <2>1 DEF GoneInv
    <3>2. \A k \in Chans : <<"internal", k>> \notin Listeners
      BY DEF Listeners, TcpListener, ChannelListener
    <3> QED BY Zenon, <2>2, <3>1, <3>2
  <2>7. Unused(info'.flow) \/ \E k \in Chans : info'.flow = <<"internal", k>> /\ Opened(k)
    <3>1. info'.flow = a => a \in Flow
      <4>1. info'.flow \in Flow \cup {NoFlow}
        BY <2>5 DEF TypeOK
      <4>2. a # NoFlow
        BY Zenon, <2>1, FlowKinds
      <4> QED BY ZenonT(60), <4>1, <4>2
    <3> QED BY Zenon, <2>3, <2>6, <3>1 DEF Unused, Listeners
  <2>8. Unused(info.flow)' \/ \E k \in Chans : info'.flow = <<"internal", k>> /\ Opened(k)'
    BY ZenonT(60), <1>1, <1>2, <2>7 DEF Unused
  <2>9. \A x \in Address : producers'[x] = producers[x] \/ producers'[x] = NoProducer
    BY <2>2 DEF TypeOK
  <2>10. /\ \A x \in Address : producers'[x].spawner \in Listeners \cup {NoFlow}
         /\ \A x \in Address : \/ producers'[x].flow \in {x, NoFlow} \ Listeners
                               \/ \E k \in Chans : producers'[x].flow = <<"internal", k>> /\ Opened(k)'
    <3>1. NoFlow \notin Listeners
      BY Zenon, Addresses, FlowKinds DEF Listeners
    <3> QED BY ZenonT(60), <1>2, <2>4, <2>9, <3>1 DEF GoneInv
  <2>11. GoneInv'
    BY ZenonT(60), <1>1, <1>3, <2>2, <2>6, <2>8, <2>10 DEF GoneInv
  <2>12. \A c \in Conns : Connected(c) =>
           /\ producers'[<<"receiver", c>>] = producers[<<"receiver", c>>]
           /\ producers_additional_addresses'[<<"sender", c>>] = producers_additional_addresses[<<"sender", c>>]
    <3> TAKE c \in Conns
    <3> HAVE Connected(c)
    <3>1. <<"receiver", c>> \in Address /\ <<"sender", c>> \in Address /\ a # <<"receiver", c>>
      BY Zenon, <2>3, Addresses
    <3>2. producers_additional_addresses[<<"sender", c>>] = <<"receiver", c>>
      BY Zenon DEF KnownInv
    <3> QED BY ZenonT(60), <2>2, <3>1, <3>2 DEF TypeOK
  <2>13. \A k \in Chans : Opened(k) =>
           /\ producers'[<<"internal", k>>] = producers[<<"internal", k>>]
           /\ producers_additional_addresses'[<<"encryptor", k>>] = producers_additional_addresses[<<"encryptor", k>>]
    <3> TAKE k \in Chans
    <3> HAVE Opened(k)
    <3>1. <<"internal", k>> \in Address /\ <<"encryptor", k>> \in Address /\ a # <<"internal", k>>
      BY Zenon, <2>3, Addresses
    <3>2. producers_additional_addresses[<<"encryptor", k>>] = <<"internal", k>>
      BY Zenon DEF KnownInv
    <3> QED BY ZenonT(60), <2>2, <3>1, <3>2 DEF TypeOK
  <2> QED BY Zenon, <1>1, <2>5, <2>11, <2>12, <2>13, CleanKeeps
<1>5. CASE cleanup_producer_check
  <2>1. /\ doomed' = IF ProducedIn(info.flow) THEN NoFlow ELSE info.flow
        /\ info' = NoProducer /\ stage' = "flow_remove"
        /\ UNCHANGED <<producers, producers_additional_addresses>>
        /\ Unused(info.flow) \/ \E k \in Chans : info.flow = <<"internal", k>> /\ Opened(k)
    BY Zenon, <1>5 DEF cleanup_producer_check, Goto, maps, GoneInv
  <2>2. \A k \in Chans : Opened(k) => ProducedIn(<<"internal", k>>)
    BY ZenonT(60), Addresses DEF ProducedIn, KnownInv
  <2>3. Unused(doomed')
    BY Zenon, <2>1, <2>2 DEF Unused
  <2>4. Unused(doomed)'
    BY <1>1, <2>3 DEF Unused
  <2>5. TypeOK'
    BY Zenon, <1>1, <2>1 DEF TypeOK, NoProducer
  <2>6. info'.flow \notin Listeners
    BY ZenonT(60), <2>1, Addresses, FlowKinds DEF NoProducer, Listeners
  <2>7. \A x \in Address : \/ producers'[x].flow \in {x, NoFlow} \ Listeners
                           \/ \E k \in Chans : producers'[x].flow = <<"internal", k>> /\ Opened(k)'
    BY <1>2, <2>1 DEF GoneInv
  <2>8. GoneInv'
    BY ZenonT(60), <1>1, <1>3, <2>1, <2>4, <2>6, <2>7 DEF GoneInv
  <2> QED BY Zenon, <1>1, <2>1, <2>5, <2>8, CleanKeeps
<1> QED BY Zenon, <1>4, <1>5

\* FlowControls::cleanup_consumer keeps the invariant: only an address that has gone
\* is taken out of the consumers.
LEMMA CleanupConsumerKeeps ==
  ASSUME FlowInv, cleanup_consumer
  PROVE  FlowInv'
<1> USE DEF FlowInv
<1> DEFINE a == Head(toClean)
<1>1. a \in Address /\ Gone(a)
  BY Zenon, HeadGone DEF cleanup_consumer
<1>2. /\ consumers' = [f \in Flow |-> consumers[f] \ {a}] /\ toClean' = Tail(toClean) /\ stage' = "idle"
      /\ UNCHANGED <<producers, producers_additional_addresses, spawners, workers, found, doomed, info>>
  BY DEF cleanup_consumer, Goto
<1> HIDE DEF a
<1>3. UNCHANGED <<listening, conn, chan, recv, over, accepted, on, joined, found>>
  BY ZenonT(60), <1>2 DEF workers
<1>4. toClean \in Seq(Address) /\ toClean # <<>> /\ \A n \in 1 .. Len(toClean) : Gone(toClean[n])
  BY DEF TypeOK, GoneInv, cleanup_consumer
<1>5. toClean' \in Seq(Address) /\ \A n \in 1 .. Len(toClean') : Gone(toClean'[n])
  BY Zenon, <1>2, <1>4, TailGone
<1>6. \A n \in 1 .. Len(toClean') : Gone(toClean[n])'
  BY Zenon, <1>3, <1>5 DEF Gone
<1>7. TypeOK'
  <2>1. consumers' \in [Flow -> SUBSET Address]
    BY <1>2 DEF TypeOK
  <2> QED BY ZenonT(60), <1>2, <1>3, <1>5, <2>1 DEF TypeOK
<1>8. GoneInv'
  <2>1. \A k : Opened(k)' <=> Opened(k)
    BY <1>3 DEF Opened
  <2> QED BY Zenon, <1>2, <1>6, <2>1 DEF GoneInv
<1>9. /\ \A f \in Flow : consumers'[f] \subseteq consumers[f]
      /\ \A f \in Flow : \A x \in consumers[f] : ~Gone(x) => x \in consumers'[f]
  BY Zenon, <1>1, <1>2
<1> QED BY Zenon, <1>2, <1>7, <1>8, <1>9, CleanKeeps

\* The node starts with the invariant: only the listeners and what they are open to.
LEMMA FlowInit == Init => FlowInv
<1> SUFFICES ASSUME Init PROVE FlowInv
  BY Zenon
<1>1. TcpListener # ChannelListener /\ NoFlow \notin Listeners
  BY Addresses, FlowKinds DEF TcpListener, ChannelListener, Listeners
<1>2. NoProducer = [flow |-> NoFlow, spawner |-> NoFlow]
  BY Zenon DEF NoProducer
<1>3. TypeOK
  <2>1. consumers \in [Flow -> SUBSET Address]
    BY Zenon, Addresses DEF Init
  <2>2. spawners \in [Address -> Flow \cup {NoFlow}]
    BY Zenon, Addresses DEF Init
  <2>3. /\ producers \in [Address -> [flow : Flow \cup {NoFlow}, spawner : Flow \cup {NoFlow}]]
        /\ producers_additional_addresses \in [Address -> Address \cup {NoAddress}]
        /\ info \in [flow : Flow \cup {NoFlow}, spawner : Flow \cup {NoFlow}]
    BY <1>2 DEF Init
  <2> QED BY <2>1, <2>2, <2>3 DEF Init, TypeOK
<1>4. /\ consumers[TcpListener] = {ChannelListener} /\ consumers[ChannelListener] = {Service, Forwarder}
      /\ \A c \in Conns : consumers[<<"receiver", c>>] = {}
      /\ \A k \in Chans : consumers[<<"internal", k>>] = {}
  BY Zenon, <1>1, Addresses DEF Init, TcpListener, ChannelListener
<1>5. spawners[TcpListener] = TcpListener /\ spawners[ChannelListener] = ChannelListener
  BY Zenon, Addresses DEF Init
<1>6. \A a \in Address : spawners[a] \in Listeners \cup {NoFlow} /\ producers[a] = NoProducer
  BY Zenon DEF Init, Listeners
<1>7. OwnInv
  BY Zenon, <1>4 DEF OwnInv
<1>8. KnownInv
  BY <1>5 DEF KnownInv, Init, Connected, Opened
<1>9. GoneInv
  <2>1. NoFlow \notin Listeners /\ NoProducer.flow = NoFlow /\ NoProducer.spawner = NoFlow
    BY <1>1, <1>2
  <2>2. \A a \in Address : /\ producers[a].spawner \in Listeners \cup {NoFlow}
                           /\ producers[a].flow \in {a, NoFlow} \ Listeners
    BY Zenon, <1>6, <2>1
  <2>3. toClean = <<>> /\ stage = "idle" /\ info = NoProducer
    BY DEF Init
  <2>4. \A n \in 1 .. Len(toClean) : Gone(toClean[n])
    BY <2>3
  <2>5. /\ stage \notin {"spawner", "producers_spawner", "spawner_remove", "producers_spawner_remove", "flow_remove", "flow"}
        /\ info.flow \notin Listeners
    BY <2>1, <2>3
  <2> QED BY Zenon, <1>6, <2>2, <2>3, <2>4, <2>5 DEF GoneInv
<1>10. ReachInv
  BY Zenon, <1>4 DEF ReachInv, Init
<1> QED BY <1>3, <1>7, <1>8, <1>9, <1>10 DEF FlowInv

\* The invariant of the flow controls holds whatever workers start, stop and are
\* cleaned up after, in whatever order (ockam_core::flow_control).
THEOREM FlowInvariance == Spec => []FlowInv
<1>1. FlowInv /\ [Next]_vars => FlowInv'
  <2> SUFFICES ASSUME FlowInv, [Next]_vars PROVE FlowInv'
    OBVIOUS
  <2>1. ASSUME NEW c \in Conns, Accept(c) \/ Connect(c) PROVE FlowInv'
    BY <2>1, ConnectionKeeps
  <2>2. ASSUME NEW k \in Chans, NEW c \in Conns, ChannelSetup(k, c) PROVE FlowInv'
    BY <2>2, ChannelSetupKeeps
  <2>3. ASSUME NEW k \in Chans, ChannelStart(k) PROVE FlowInv'
    BY <2>3, ChannelStartKeeps
  <2>4. ASSUME NEW k \in Chans, NEW j \in Chans, Forward(k, j) PROVE FlowInv'
    BY <2>4, ForwardKeeps
  <2>5. ASSUME NEW k \in Chans, NEW r \in Receivers, ReceiverSetup(r, k) PROVE FlowInv'
    BY Zenon, <2>5, ReceiverSetupKeeps
  <2>6. ASSUME NEW r \in Receivers, ReceiverStart(r) PROVE FlowInv'
    BY <2>6, ReceiverStartKeeps
  <2>7. CASE \/ \E c \in Conns : StopConnection(c)
             \/ \E k \in Chans : StopChannel(k)
             \/ \E r \in Receivers : StopReceiver(r)
             \/ RemoveListener \/ StopListener
    BY <2>7, StopKeeps
  <2>8. CASE cleanup_spawner \/ cleanup_spawner_check \/ cleanup_spawner_remove
    BY <2>8, CleanupSpawnerKeeps
  <2>9. CASE cleanup_producer \/ cleanup_producer_check
    BY <2>9, CleanupProducerKeeps
  <2>10. CASE cleanup_consumer
    BY <2>10, CleanupConsumerKeeps
  <2>11. CASE UNCHANGED vars
    <3>1. UNCHANGED <<consumers, producers, producers_additional_addresses, spawners, listening, conn, chan, over,
                      accepted, recv, on, joined, found, toClean, stage, doomed, info>>
      BY <2>11 DEF vars, maps, workers, cleanup
    <3>2. TypeOK'
      BY ZenonT(60), <3>1 DEF FlowInv, TypeOK
    <3>3. OwnInv'
      BY Zenon, <3>1, OwnMono DEF FlowInv
    <3>4. KnownInv'
      BY ZenonT(60), <3>1 DEF FlowInv, KnownInv, Connected, Opened
    <3>5. GoneInv'
      BY ZenonT(60), <3>1 DEF FlowInv, GoneInv, Gone, Unused, Opened
    <3>6. ReachInv'
      BY Zenon, <3>1 DEF FlowInv, ReachInv, Connected, Opened
    <3> QED BY Zenon, <3>2, <3>3, <3>4, <3>5, <3>6 DEF FlowInv
  <2> QED BY Zenon, <2>1, <2>2, <2>3, <2>4, <2>5, <2>6, <2>7, <2>8, <2>9, <2>10, <2>11 DEF Next
<1> QED BY <1>1, FlowInit, PTL DEF Spec

\* What comes in over a TCP connection reaches only the secure channel listener, if
\* the TCP listener accepted the connection, and its own channels.
THEOREM ConnectionsReachOwnChannels == Spec => []OnlyOwnChannels
<1>1. FlowInv => OnlyOwnChannels
  <2> SUFFICES ASSUME FlowInv, NEW c \in Conns, NEW a \in Address, Connected(c), is_authorized(<<"receiver", c>>, a)
               PROVE  \/ a = ChannelListener /\ conn[c] # "out"
                      \/ \E k \in Chans : a = <<"remote", k>> /\ over[k] = c
    BY DEF OnlyOwnChannels
  <2>1. FlowOf(<<"receiver", c>>) = <<"receiver", c>>
        /\ SpawnerOf(<<"receiver", c>>) = IF conn[c] = "out" THEN NoFlow ELSE TcpListener
    BY DEF FlowOf, SpawnerOf
  <2> QED BY ZenonT(60), <2>1 DEF is_authorized, is_consumer, FlowInv, OwnInv
<1> QED BY <1>1, FlowInvariance, PTL

\* What comes in through a secure channel reaches only the services of the listener
\* that accepted it, its own receivers and the channels it was joined with.
THEOREM ChannelsReachOwnReceivers == Spec => []OnlyOwnReceivers
<1>1. FlowInv => OnlyOwnReceivers
  <2> SUFFICES ASSUME FlowInv, NEW k \in Chans, NEW a \in Address, chan[k] = "live", is_authorized(<<"internal", k>>, a)
               PROVE  \/ a \in {Service, Forwarder} /\ accepted[k]
                      \/ \E r \in Receivers : a = <<"mailbox", r>> /\ on[r] = k
                      \/ \E j \in Chans : a = <<"encryptor", j>> /\ {j, k} \in joined
    BY Zenon DEF OnlyOwnReceivers
  <2>1. FlowOf(<<"internal", k>>) = <<"internal", k>>
        /\ SpawnerOf(<<"internal", k>>) = IF accepted[k] THEN ChannelListener ELSE NoFlow
    BY Zenon DEF FlowOf, SpawnerOf
  <2> QED BY Zenon, <2>1 DEF is_authorized, is_consumer, FlowInv, OwnInv
<1> QED BY <1>1, FlowInvariance, PTL

\* The clean-up after a worker cuts off nobody else: whoever lives still gets what is
\* meant for them.
THEOREM NobodyCutOff == Spec => []NotCutOff
<1>1. FlowInv => NotCutOff
  <2> SUFFICES ASSUME FlowInv PROVE NotCutOff
    OBVIOUS
  <2> USE DEF FlowInv
  <2>1. /\ \A c \in Conns : FlowOf(<<"receiver", c>>) = <<"receiver", c>>
        /\ \A c \in Conns : conn[c] = "in" => SpawnerOf(<<"receiver", c>>) = TcpListener
        /\ \A k \in Chans : FlowOf(<<"internal", k>>) = <<"internal", k>>
        /\ \A k \in Chans : accepted[k] => SpawnerOf(<<"internal", k>>) = ChannelListener
    BY DEF FlowOf, SpawnerOf
  <2>2. \A f \in Flow : f # NoFlow
    BY FlowKinds
  <2>3. \A k \in Chans : chan[k] = "live" /\ Connected(over[k]) => is_authorized(<<"receiver", over[k]>>, <<"remote", k>>)
    <3> TAKE k \in Chans
    <3> HAVE chan[k] = "live" /\ Connected(over[k])
    <3>1. over[k] \in Conns /\ <<"remote", k>> \in consumers[<<"receiver", over[k]>>]
      BY Zenon DEF TypeOK, ReachInv
    <3> QED BY Zenon, <2>1, <2>2, <3>1, Addresses DEF is_authorized, is_consumer
  <2>4. \A c \in Conns : conn[c] = "in" => is_authorized(<<"receiver", c>>, ChannelListener)
    BY Zenon, <2>1, <2>2, Addresses DEF is_authorized, is_consumer, ReachInv
  <2>5. \A k \in Chans : chan[k] = "live" /\ accepted[k] => is_authorized(<<"internal", k>>, Service)
    BY Zenon, <2>1, <2>2, Addresses DEF is_authorized, is_consumer, ReachInv
  <2>6. \A r \in Receivers : recv[r] = "live" /\ chan[on[r]] = "live" => is_authorized(<<"internal", on[r]>>, <<"mailbox", r>>)
    <3> TAKE r \in Receivers
    <3> HAVE recv[r] = "live"
    <3>1. on[r] \in Chans /\ <<"mailbox", r>> \in consumers[<<"internal", on[r]>>]
      BY DEF TypeOK, ReachInv
    <3> QED BY Zenon, <2>1, <2>2, <3>1, Addresses DEF is_authorized, is_consumer
  <2>7. \A i, j \in Chans : {i, j} \in joined /\ i # j /\ chan[i] = "live" /\ chan[j] = "live" =>
          is_authorized(<<"internal", i>>, <<"encryptor", j>>)
    BY Zenon, <2>1, <2>2, Addresses DEF is_authorized, is_consumer, ReachInv
  <2> QED BY <2>3, <2>4, <2>5, <2>6, <2>7 DEF NotCutOff
<1> QED BY <1>1, FlowInvariance, PTL
=============================================================================
