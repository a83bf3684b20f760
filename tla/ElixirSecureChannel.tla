------------------------ MODULE ElixirSecureChannel -------------------------
(***************************************************************************)
(* The secure channel of the Elixir implementation: the XX key             *)
(* establishment (xx/protocol.ex), the channel worker of both roles        *)
(* (secure_channel/channel.ex), its handshake timer, the caller that waits *)
(* for the channel, and the listener that spawns a responder for every     *)
(* message it gets.  The network loses, repeats, delays and reorders.      *)
(*                                                                         *)
(* Cryptography is symbolic.  A hash is the nesting of what was mixed into *)
(* it, a key is the sequence of the shared secrets mixed into the chaining *)
(* key, and a ciphertext opens with the key, nonce and hash it was made    *)
(* with.  The window and the rekeying of the transport phase are left out. *)
(***************************************************************************)
EXTENDS Integers, Sequences, SequencesExt, FiniteSets

CONSTANTS Initiators,  \* channels opened by callers
          Responders,  \* slots for channels spawned by the listener
          Listener,    \* address of the listener, and its identity
          Distrusted,  \* pairs <<channel, identity>> that trust policies refuse
          Credential,  \* initiator -> "none", "good", "bad" or "several"
          Linked,      \* initiators opened with start_link_channel
          MaxSends     \* bound on messages each channel sends

Channels == Initiators \cup Responders

VARIABLES chan,     \* the channel workers
          net,      \* messages that may arrive, once or again
          waiter,   \* the caller of an initiator
          attrs,    \* AttributeStorage: identities whose attributes are stored
          got       \* what was routed to local workers, with its metadata

vars == <<chan, net, waiter, attrs, got>>

Identity(c) == IF c \in Responders THEN Listener ELSE c

----------------------------------------------------------------------------
(* XX. *)
Static(c) == <<"s", c>>
Ephemeral(c) == <<"e", c>>
DH(a, b) == {a, b}
None == <<"none">>

\* setup
Setup(c) == [s |-> Static(c), e |-> Ephemeral(c), re |-> None, rs |-> None, h |-> <<"XX">>, ck |-> <<>>, n |-> 0]

MixHash(x, v) == [x EXCEPT !.h = <<@, v>>]
MixKey(x, dh) == [x EXCEPT !.ck = Append(@, dh), !.n = 0]
\* The ciphertext holds the hash it was made with, and so stands for the next hash.
Seal(x, v) == [k |-> x.ck, n |-> x.n, h |-> x.h, v |-> v]
EncryptAndHash(x, v) == [x EXCEPT !.h = <<"h", Seal(x, v)>>, !.n = @ + 1]
Opens(x, c) == c.k = x.ck /\ c.n = x.n /\ c.h = x.h
DecryptAndHash(x, c) == [x EXCEPT !.h = <<"h", c>>, !.n = @ + 1]

\* encode: the message, and the state after it.
Encode1(x) == [msg |-> <<"m1", x.e>>, x |-> MixHash(x, x.e)]
Encode2(x, p) ==
    LET x1 == MixKey(MixHash(x, x.e), DH(x.e, x.re))
        x2 == MixKey(EncryptAndHash(x1, x1.s), DH(x1.s, x.re))
    IN  [msg |-> <<"m2", x.e, Seal(x1, x1.s), Seal(x2, p)>>, x |-> EncryptAndHash(x2, p)]
Encode3(x, p) ==
    LET x1 == MixKey(EncryptAndHash(x, x.s), DH(x.s, x.re))
    IN  [msg |-> <<"m3", Seal(x, x.s), Seal(x1, p)>>, x |-> EncryptAndHash(x1, p)]

\* decode: whether everything opens, the payload, and the state after it.
Failed(x) == [ok |-> FALSE, x |-> x]
Decode1(x, m) == [ok |-> TRUE, x |-> [MixHash(x, m[2]) EXCEPT !.re = m[2]]]
Decode2(x, m) ==
    LET x1 == MixKey(MixHash([x EXCEPT !.re = m[2]], m[2]), DH(x.e, m[2]))
        x2 == MixKey([DecryptAndHash(x1, m[3]) EXCEPT !.rs = m[3].v], DH(x.e, m[3].v))
    IN  IF Opens(x1, m[3]) /\ Opens(x2, m[4]) THEN [ok |-> TRUE, p |-> m[4].v, x |-> DecryptAndHash(x2, m[4])] ELSE Failed(x)
Decode3Unbound(x, m) == [ok |-> TRUE, p |-> m[3].v, x |-> [x EXCEPT !.rs = m[2].v]]
Decode3(x, m) ==
    LET x1 == MixKey([DecryptAndHash(x, m[2]) EXCEPT !.rs = m[2].v], DH(x.e, m[2].v))
    IN  IF Opens(x, m[2]) /\ Opens(x1, m[3]) THEN [ok |-> TRUE, p |-> m[3].v, x |-> DecryptAndHash(x1, m[3])] ELSE Failed(x)

----------------------------------------------------------------------------
Off == [st |-> "off", x |-> Setup("none"), pending |-> <<>>, route |-> "none", timer |-> "none",
        peer |-> "none", enc |-> <<>>, dec |-> <<>>, sent |-> 0, seen |-> {}]

Init ==
    /\ chan = [c \in Channels |-> Off]
    /\ net = {}
    /\ waiter = [c \in Initiators |-> "none"]
    /\ attrs = {} /\ got = {}

Msg(to, from, body) == [to |-> to, from |-> from, body |-> body]

\* setup_noise_key_exchange: the identity's signature over the static key goes with it.
Proof(c) == [contact |-> Identity(c), signature |-> Static(c),
             credentials |-> IF c \in Initiators THEN Credential[c] ELSE "none"]

\* start_link_channel, create_channel: the worker sends the first message in its setup.
CreateChannel(c) ==
    /\ waiter[c] = "none"
    /\ waiter' = [waiter EXCEPT ![c] = "waiting"]
    /\ LET out == Encode1(Setup(c)) IN
       /\ chan' = [chan EXCEPT ![c] = [Off EXCEPT !.st = "handshaking", !.x = out.x, !.pending = <<"m2", "m3">>,
                                                  !.route = Listener, !.timer = "armed"]]
       /\ net' = net \cup {Msg(Listener, c, out.msg)}
    /\ UNCHANGED <<attrs, got>>

\* The listener spawns a responder for every message; one that does not parse ends it.
SpawnResponder(r) ==
    /\ chan[r].st = "off"
    /\ \E m \in net :
        /\ m.to = Listener
        /\ LET in == Decode1(Setup(r), m.body)
               out == Encode2(in.x, Proof(r)) IN
           /\ chan' = [chan EXCEPT ![r] = [Off EXCEPT !.st = "handshaking", !.x = out.x, !.pending = <<"m3">>,
                                                      !.route = m.from, !.timer = "armed"]]
           /\ net' = net \cup {Msg(m.from, r, out.msg)}
    /\ UNCHANGED <<waiter, attrs, got>>

----------------------------------------------------------------------------
(* next_handshake_state, when the last message has been sent or received.  *)
\* validate_contact_data, verify_signature over the static key of this handshake.
Verifies(c, proof, rs) == proof.signature = rs

CheckTrust(c, proof) == <<c, proof.contact>> \notin Distrusted

\* process_credentials: none, or one that the verifier accepts.
ProcessCredentials(proof) == proof.credentials \in {"none", "good"}

\* The attributes of an accepted credential are stored for the identity.
Stored(proof) == IF proof.credentials = "good" THEN {proof.contact} ELSE {}

\* split: the initiator encrypts with the second key.
Split(c, ck) == IF c \in Initiators THEN [enc |-> <<ck, 2>>, dec |-> <<ck, 1>>]
                ELSE [enc |-> <<ck, 1>>, dec |-> <<ck, 2>>]

TimerAfter(t) == IF t = "armed" THEN "cancelled" ELSE t

\* The channel of c is established, told to the caller, and its timer cancelled.
Established(c, x, proof, route) ==
    [chan[c] EXCEPT !.st = "established", !.x = x, !.pending = <<>>, !.peer = proof.contact, !.route = route,
                    !.enc = Split(c, x.ck).enc, !.dec = Split(c, x.ck).dec, !.timer = TimerAfter(@)]

\* An error stops the worker; its timer stays and finds nobody.
Stopped(c) == [Off EXCEPT !.st = "stopped", !.timer = chan[c].timer]

\* A linked caller is taken down with the channel.
WaiterOfStopped(c) == IF c \in Linked /\ waiter[c] = "waiting" THEN "crashed" ELSE waiter[c]

Tell(c, w) == IF c \in Initiators THEN waiter' = [waiter EXCEPT ![c] = w] ELSE UNCHANGED waiter

Complete(c, x, proof, route, sends) ==
    IF Verifies(c, proof, x.rs) /\ CheckTrust(c, proof) /\ ProcessCredentials(proof)
    THEN /\ chan' = [chan EXCEPT ![c] = Established(c, x, proof, route)]
         /\ attrs' = attrs \cup Stored(proof)
         /\ net' = net \cup sends
         /\ IF c \in Initiators /\ waiter[c] = "waiting" THEN Tell(c, "connected") ELSE UNCHANGED waiter
    ELSE /\ chan' = [chan EXCEPT ![c] = Stopped(c)]
         /\ net' = net \cup sends
         /\ IF c \in Initiators THEN Tell(c, WaiterOfStopped(c)) ELSE UNCHANGED waiter
         /\ UNCHANGED attrs

\* in_payload, out_payload.  Message 3 is sent before the proof of the peer is checked.
Handshake(c, m) ==
    LET h == chan[c] IN
    /\ h.st = "handshaking" /\ m.to = c
    /\ IF m.body[1] # Head(h.pending)
       THEN /\ chan' = [chan EXCEPT ![c] = Stopped(c)]
            /\ IF c \in Initiators THEN Tell(c, WaiterOfStopped(c)) ELSE UNCHANGED waiter
            /\ UNCHANGED <<net, attrs>>
       ELSE LET in == IF m.body[1] = "m2" THEN Decode2(h.x, m.body) ELSE Decode3(h.x, m.body) IN
            IF ~in.ok
            THEN /\ chan' = [chan EXCEPT ![c] = Stopped(c)]
                 /\ IF c \in Initiators THEN Tell(c, WaiterOfStopped(c)) ELSE UNCHANGED waiter
                 /\ UNCHANGED <<net, attrs>>
            ELSE IF m.body[1] = "m2"
            THEN LET out == Encode3(in.x, Proof(c)) IN
                 Complete(c, out.x, in.p, m.from, {Msg(m.from, c, out.msg)})
            ELSE Complete(c, in.x, in.p, m.from, {})
    /\ UNCHANGED got

----------------------------------------------------------------------------
(* The transport phase. *)
Ciphertext(c, v) == <<"data", [k |-> chan[c].enc, n |-> chan[c].sent, v |-> v]>>

\* handle_outer_message: encrypted and sent along the route of the last handshake message.
Send(c) ==
    /\ chan[c].st = "established" /\ chan[c].sent < MaxSends
    /\ net' = net \cup {Msg(chan[c].route, c, Ciphertext(c, <<"hello", c>>))}
    /\ chan' = [chan EXCEPT ![c].sent = @ + 1]
    /\ UNCHANGED <<waiter, attrs, got>>

AttachMetadata(c) == chan[c].peer

\* handle_inner_message: what does not decrypt is dropped, a message without an onward
\* route is a command.
Receive(c, m) ==
    /\ chan[c].st = "established" /\ m.to = c
    /\ m.body[1] = "data" /\ m.body[2].k = chan[c].dec /\ m.body[2].n \notin chan[c].seen
    /\ IF m.body[2].v = <<"disconnect">>
       THEN chan' = [chan EXCEPT ![c] = Stopped(c)] /\ UNCHANGED got
       ELSE /\ chan' = [chan EXCEPT ![c].seen = @ \cup {m.body[2].n}]
            /\ got' = got \cup {[at |-> c, from |-> m.body[2].v[2], identity |-> AttachMetadata(c)]}
    /\ UNCHANGED <<net, waiter, attrs>>

\* disconnect: the command is sent and the worker stops.
Disconnect(c) ==
    /\ chan[c].st = "established" /\ chan[c].sent < MaxSends
    /\ net' = net \cup {Msg(chan[c].route, c, Ciphertext(c, <<"disconnect">>))}
    /\ chan' = [chan EXCEPT ![c] = Stopped(c)]
    /\ UNCHANGED <<waiter, attrs, got>>

----------------------------------------------------------------------------
(* Timers. *)
Lose(m) == net' = net \ {m} /\ UNCHANGED <<chan, waiter, attrs, got>>

\* The timer starts a process that asks the worker to stop; a later cancel is too late.
TimerFires(c) ==
    /\ chan[c].timer = "armed"
    /\ chan' = [chan EXCEPT ![c].timer = "fired"]
    /\ UNCHANGED <<net, waiter, attrs, got>>

StopByTimer(c) ==
    /\ chan[c].timer = "fired" /\ chan[c].st \in {"handshaking", "established"}
    /\ chan' = [chan EXCEPT ![c] = [Stopped(c) EXCEPT !.timer = "none"]]
    /\ UNCHANGED <<net, waiter, attrs, got>>

\* The caller gives up and stops the worker.
WaiterTimeout(c) ==
    /\ waiter[c] = "waiting"
    /\ waiter' = [waiter EXCEPT ![c] = "timeout"]
    /\ chan' = [chan EXCEPT ![c] = Stopped(c)]
    /\ UNCHANGED <<net, attrs, got>>

Deliver(c) == \E m \in net : Handshake(c, m) \/ Receive(c, m)

Next ==
    \/ \E c \in Initiators : CreateChannel(c) \/ WaiterTimeout(c)
    \/ \E r \in Responders : SpawnResponder(r)
    \/ \E c \in Channels : Deliver(c) \/ Send(c) \/ Disconnect(c) \/ TimerFires(c) \/ StopByTimer(c)
    \/ \E m \in net : Lose(m)

Spec == Init /\ [][Next]_vars

\* Timers fire, callers time out, and workers are stopped.
FairSpec == /\ Spec
            /\ \A c \in Channels : WF_vars(TimerFires(c)) /\ WF_vars(StopByTimer(c))
            /\ \A c \in Initiators : WF_vars(WaiterTimeout(c))

----------------------------------------------------------------------------
TypeOK ==
    \A c \in Channels :
        /\ chan[c].st \in {"off", "handshaking", "established", "stopped"}
        /\ chan[c].timer \in {"none", "armed", "fired", "cancelled"}
        /\ chan[c].st = "established" => chan[c].peer # "none" /\ chan[c].route \in Channels

Up(c) == chan[c].st = "established"

\* A responder is established only with an initiator that takes part in the same
\* handshake: message 3 opens only at the responder whose message 2 it answers, also
\* when messages are repeated and several responders answer one initiator.
ResponderAgrees ==
    \A r \in Responders : Up(r) =>
        /\ chan[r].peer = chan[r].route
        /\ \A i \in Initiators : Up(i) /\ i = chan[r].peer => chan[i].enc = chan[r].dec /\ chan[i].dec = chan[r].enc /\ chan[i].x.h = chan[r].x.h

\* Two channels with the same key have each other as peer, and opposite roles; no
\* channel decrypts what it has encrypted itself.
KeysPaired ==
    /\ \A c \in Channels : Up(c) => chan[c].enc # chan[c].dec
    /\ \A c, d \in Channels : Up(c) /\ Up(d) /\ c # d /\ chan[c].enc = chan[d].dec =>
        chan[c].peer = Identity(d) /\ chan[d].peer = Identity(c) /\ (c \in Initiators <=> d \in Responders)

\* The identity in the metadata of a message is the identity that sent the message.
MetadataTrue == \A g \in got : g.identity = Identity(g.from)

\* Nothing is exchanged with an identity that trust policies refuse or whose
\* credential is rejected, and attributes are stored only for accepted credentials.
OnlyAccepted ==
    /\ \A c \in Channels : Up(c) => <<c, chan[c].peer>> \notin Distrusted
    /\ \A g \in got : g.from \in Initiators => Credential[g.from] \in {"none", "good"}
    /\ \A i \in attrs : i \in Initiators /\ Credential[i] = "good"

\* A caller is told that the channel is connected only when the peer was accepted.
ConnectedAccepted == \A c \in Initiators : waiter[c] = "connected" => <<c, Listener>> \notin Distrusted

=============================================================================
