---------------------------- MODULE XXHandshake ----------------------------
(***************************************************************************)
(* The key exchange which creates a secure channel (ockam_identity,        *)
(* secure_channel/handshake): Noise XX, three messages, run by a worker on *)
(* each side.  Initiators are started by create_secure_channel, responders *)
(* are spawned by the channel listener, one for every message it receives. *)
(*                                                                         *)
(* Cryptography is symbolic.  A public key is <<worker, "e">> or           *)
(* <<worker, "s">>, a Diffie-Hellman secret the set of its two public      *)
(* keys, the chaining key made of ck and a secret the pair of the two (k   *)
(* is derived by the same call and named by it), the hash of h and a value *)
(* the pair of the two.  A ciphertext opens only under the k, n and h it   *)
(* was sealed with.  `vault` is the set of the key ids which can be looked *)
(* up.                                                                     *)
(*                                                                         *)
(* The network loses, repeats, reorders and damages messages, a send may   *)
(* fail and an identity may be refused: FaultKinds says which of them a    *)
(* run allows, and each takes one unit of the budget MaxFaults.            *)
(***************************************************************************)
EXTENDS Naturals, Sequences, FiniteSets

CONSTANTS Initiators, Responders,
          FaultKinds,  \* subset of {"lose", "repeat", "damage", "send", "refuse"}
          MaxFaults,
          Listener,  \* address of the secure channel listener
          Junk       \* a damaged part of a message

ASSUME HandshakeAssumption ==
    /\ MaxFaults \in Nat
    /\ Initiators \cap Responders = {}
    /\ Listener \notin Initiators \cup Responders
    /\ \A r \in Responders : <<r>> \notin Initiators \cup Responders \cup {Listener}

Workers == Initiators \cup Responders

VARIABLES
  hs,        \* HandshakeState of each worker; status "Absent" before it starts
  route,     \* remote_route: the address the worker sends to
  payload,   \* whether identity_payload is still there to be taken
  done,      \* decryptor_handler is set: the channel is in use
  stopped,   \* workers that have been shut down
  registry,  \* SecureChannelRegistry: <<worker, address of its peer>>
  create,    \* what the call to create_secure_channel has come to
  vault,     \* ids of the secrets held: <<owner, kind, name>>
  net,       \* messages under way
  faults     \* number of faults so far

vars == <<hs, route, payload, done, stopped, registry, create, vault, net, faults>>

E(w) == <<w, "e">>
S(w) == <<w, "s">>
None == <<>>

Message(to, from, parts) == [to |-> to, from |-> from, parts |-> parts]

(***************************************************************************)
(* The handshake functions.  Each works on a copy of the state, assigned   *)
(* back if it succeeds; the vault keeps every change.  A computation under *)
(* way is not failed so far (ok), and has the copy st and the vault v.     *)
(***************************************************************************)
HandshakeState(status, re, rs, n, h, ck) ==
    [status |-> status, re |-> re, rs |-> rs, n |-> n, h |-> h, ck |-> ck]

Computation(ok, st, v) == [ok |-> ok, st |-> st, v |-> v]

\* The secrets of a handshake under way with the chaining key ck.
Intermediate(w, ck) == {<<w, "s", None>>, <<w, "e", None>>, <<w, "ck", ck>>, <<w, "k", ck>>}

\* initialize: h, k and ck start from the protocol name.
Initialize(w) ==
    Computation(TRUE, HandshakeState("Initial", None, None, 0, <<"protocol">>, <<>>),
                vault \cup Intermediate(w, <<>>))

MixHash(x, data) == [x EXCEPT !.st.h = <<@, data>>]

\* A key of the other side is known from now on.
SetRe(x, key) == [x EXCEPT !.st.re = key]
SetRs(x, key) == [x EXCEPT !.st.rs = key]

\* dh then hkdf: the new ck and k replace the old ones, which are deleted from
\* the vault at once.  Without the old ck the call fails and leaves dh behind.
DhHkdf(w, x, own, public) ==
    LET dh == {own, public}
        ck == x.st.ck
        new == <<ck, dh>>
    IN  IF ~x.ok THEN x
        ELSE IF <<w, "ck", ck>> \notin x.v
        THEN [x EXCEPT !.ok = FALSE, !.v = @ \cup {<<w, "dh", dh>>}]
        ELSE [x EXCEPT !.st.ck = new, !.st.n = 0,
                       !.v = (@ \ {<<w, "ck", ck>>, <<w, "k", ck>>})
                               \cup {<<w, "ck", new>>, <<w, "k", new>>}]

Seal(st, p) == [k |-> st.ck, n |-> st.n, h |-> st.h, p |-> p]

EncryptAndHash(x, p) ==
    [MixHash(x, Seal(x.st, p)) EXCEPT !.st.n = @ + 1]

\* Mutant: any ciphertext of a handshake message opens.
HashAndDecryptAnything(w, x, c) ==
    IF x.ok /\ c # Junk /\ c.p # Junk
    THEN [MixHash(x, c) EXCEPT !.st.n = @ + 1]
    ELSE [x EXCEPT !.ok = FALSE]

\* hash_and_decrypt: fails on a part which was not sealed in this very state.
HashAndDecrypt(w, x, c) ==
    IF x.ok /\ c # Junk /\ <<w, "k", x.st.ck>> \in x.v /\ c = Seal(x.st, c.p)
    THEN [MixHash(x, c) EXCEPT !.st.n = @ + 1]
    ELSE [x EXCEPT !.ok = FALSE]

\* The last parts hashed: what an encode function has output.
Output2(x) == <<x.st.h[1][2], x.st.h[2]>>
Output3(x) == <<x.st.h[1][1][2], x.st.h[1][2], x.st.h[2]>>

EncodeMessage1(w, x) == MixHash(MixHash(x, E(w)), "payload1")

DecodeMessage1(x, m) ==
    IF m[1] = Junk THEN [x EXCEPT !.ok = FALSE]
    ELSE SetRe(MixHash(MixHash(x, m[1]), m[2]), m[1])

IdentityPayload(w) == [identity |-> w, signed |-> S(w)]

EncodeMessage2(w, x) ==
    LET a == DhHkdf(w, MixHash(x, E(w)), E(w), x.st.re)
        b == DhHkdf(w, EncryptAndHash(a, S(w)), S(w), x.st.re)
    IN  EncryptAndHash(b, IdentityPayload(w))

DecodeMessage2(w, x, m) ==
    LET a == DhHkdf(w, SetRe(MixHash(x, m[1]), m[1]), E(w), m[1])
        b == HashAndDecrypt(w, a, m[2])
        c == DhHkdf(w, SetRs(b, m[2].p), E(w), m[2].p)
    IN  IF b.ok THEN HashAndDecrypt(w, c, m[3]) ELSE b

EncodeMessage3(w, x) ==
    EncryptAndHash(DhHkdf(w, EncryptAndHash(x, S(w)), S(w), x.st.re),
                   IdentityPayload(w))

DecodeMessage3(w, x, m) ==
    LET a == HashAndDecrypt(w, x, m[1])
        b == DhHkdf(w, SetRs(a, m[1].p), E(w), m[1].p)
    IN  IF a.ok THEN HashAndDecrypt(w, b, m[2]) ELSE a

\* Mutant: s and e are kept.
SetFinalStateKeepsKeys(w, x) ==
    LET ck == x.st.ck
    IN  [x EXCEPT !.st.status = "Ready",
                  !.v = (@ \ {<<w, "ck", ck>>, <<w, "k", ck>>})
                          \cup {<<w, "k1", ck>>, <<w, "k2", ck>>}]

\* set_final_state: k1 and k2 come from ck, then ck, k, s and e are deleted.
SetFinalState(w, x) ==
    LET ck == x.st.ck
    IN  [x EXCEPT !.st.status = "Ready",
                  !.v = (@ \ Intermediate(w, ck)) \cup {<<w, "k1", ck>>, <<w, "k2", ck>>}]

\* Mutant: the roles are not told apart.
EncryptionKeySameRole(w) == <<"k2", hs[w].ck>>

EncryptionKey(w) == <<IF w \in Initiators THEN "k2" ELSE "k1", hs[w].ck>>
DecryptionKey(w) == <<IF w \in Initiators THEN "k1" ELSE "k2", hs[w].ck>>

\* verify_identity, its signature part: the identity signed the static key.
SignatureVerified(st, p) == p.signed = st.rs

(***************************************************************************)
(* The workers.                                                            *)
(***************************************************************************)
Faults(kinds) ==
    /\ kinds \subseteq FaultKinds
    /\ faults + Cardinality(kinds) <= MaxFaults
    /\ faults' = faults + Cardinality(kinds)

Repeat(again) == IF again THEN {"repeat"} ELSE {}

\* A message is removed when handled, or (a fault) handled again later.
Take(m, again) == IF again THEN net ELSE net \ {m}

Now(w) == Computation(TRUE, hs[w], vault)

Alive(w) == hs[w].status # "Absent" /\ w \notin stopped

\* HandshakeWorker::create and initialize for an initiator: send message 1.
CreateInitiator(i) ==
    LET x == EncodeMessage1(i, Initialize(i))
    IN  /\ hs[i].status = "Absent"
        /\ hs' = [hs EXCEPT ![i] = [x.st EXCEPT !.status = "WaitingForMessage2"]]
        /\ vault' = x.v
        /\ create' = [create EXCEPT ![i] = "waiting"]
        /\ net' = net \cup {Message(Listener, i, Output2(x))}
        /\ UNCHANGED <<route, payload, done, stopped, registry, faults>>

\* The listener spawns a responder for every message and forwards it.
\* The forwarded message stays on this node: it is marked by its address.
ListenerHandleMessage(m, r, again) ==
    /\ m \in net /\ m.to = Listener
    /\ hs[r].status = "Absent"
    /\ Faults(Repeat(again))
    /\ hs' = [hs EXCEPT ![r] = [Initialize(r).st EXCEPT !.status = "WaitingForMessage1"]]
    /\ vault' = Initialize(r).v
    /\ net' = Take(m, again) \cup {Message(<<r>>, m.from, m.parts)}
    /\ UNCHANGED <<route, payload, done, stopped, registry, create>>

\* Mutant: the channel is not registered.
FinalizeUnregistered(w, peer) ==
    /\ done' = done \cup {w}
    /\ UNCHANGED registry
    /\ create' = IF w \in Initiators /\ create[w] = "waiting"
                 THEN [create EXCEPT ![w] = "ok"] ELSE create

\* finalize, then the callback: the receiver is gone after a timeout.
Finalize(w, peer) ==
    /\ done' = done \cup {w}
    /\ registry' = registry \cup {<<w, peer>>}
    /\ create' = IF w \in Initiators /\ create[w] = "waiting"
                 THEN [create EXCEPT ![w] = "ok"] ELSE create

NoFinalize == UNCHANGED <<done, registry, create>>

\* A handler that fails before it assigns the new state: only the vault moved.
Failed(x, m, again) ==
    /\ ~x.ok
    /\ vault' = x.v
    /\ net' = Take(m, again)
    /\ Faults(Repeat(again))
    /\ NoFinalize
    /\ UNCHANGED <<hs, route, payload, stopped>>

\* An identity which is refused, after the decoded state has been assigned.
Refused(w, x, m) ==
    /\ x.ok
    /\ Faults({"refuse"})
    /\ hs' = [hs EXCEPT ![w] = x.st]
    /\ vault' = x.v
    /\ net' = Take(m, FALSE)
    /\ NoFinalize
    /\ UNCHANGED <<route, payload, stopped>>

\* handle_message of a responder in state WaitingForMessage1.
HandleMessage1(r, m) ==
    LET x == DecodeMessage1(Now(r), m.parts)
        y == EncodeMessage2(r, x)
    IN  /\ Alive(r) /\ hs[r].status = "WaitingForMessage1"
        /\ m \in net /\ m.to = <<r>>
        /\ \/ Failed(x, m, FALSE)
           \/ /\ x.ok /\ payload[r]
              /\ hs' = [hs EXCEPT ![r] = [y.st EXCEPT !.status = "WaitingForMessage3"]]
              /\ vault' = y.v
              /\ payload' = [payload EXCEPT ![r] = FALSE]
              /\ route' = [route EXCEPT ![r] = m.from]
              /\ \/ /\ net' = Take(m, FALSE) \cup {Message(m.from, r, Output3(y))}
                    /\ Faults({})
                 \/ /\ net' = Take(m, FALSE)  \* the send fails
                    /\ Faults({"send"})
              /\ NoFinalize /\ UNCHANGED stopped

\* handle_message of an initiator in state WaitingForMessage2.  The final state
\* is reached before message 3 is sent, the channel finalized after it.
HandleMessage2(i, m, again) ==
    LET x == DecodeMessage2(i, Now(i), m.parts)
        ok == x.ok /\ SignatureVerified(x.st, m.parts[3].p)
        y == EncodeMessage3(i, x)
        z == SetFinalState(i, y)
    IN  /\ Alive(i) /\ hs[i].status = "WaitingForMessage2"
        /\ m \in net /\ m.to = i
        /\ \/ Failed(x, m, again)
           \/ ~again /\ Refused(i, x, m)
           \/ /\ ok /\ payload[i]
              /\ hs' = [hs EXCEPT ![i] = z.st]
              /\ vault' = z.v
              /\ payload' = [payload EXCEPT ![i] = FALSE]
              /\ route' = [route EXCEPT ![i] = m.from]
              /\ \/ /\ net' = Take(m, again) \cup {Message(m.from, i, Output2(y))}
                    /\ Faults(Repeat(again))
                    /\ Finalize(i, m.from)
                 \/ /\ net' = Take(m, again)  \* the send fails
                    /\ Faults(Repeat(again) \cup {"send"})
                    /\ NoFinalize
              /\ UNCHANGED stopped

\* handle_message of a responder in state WaitingForMessage3.
HandleMessage3(r, m, again) ==
    LET x == DecodeMessage3(r, Now(r), m.parts)
        ok == x.ok /\ SignatureVerified(x.st, m.parts[2].p)
        z == SetFinalState(r, x)
    IN  /\ Alive(r) /\ hs[r].status = "WaitingForMessage3"
        /\ m \in net /\ m.to = r
        /\ \/ Failed(x, m, again)
           \/ ~again /\ Refused(r, x, m)
           \/ /\ ok
              /\ hs' = [hs EXCEPT ![r] = z.st]
              /\ vault' = z.v
              /\ net' = Take(m, again)
              /\ Faults(Repeat(again))
              /\ Finalize(r, route[r])
              /\ UNCHANGED <<route, payload, stopped>>

\* The encryptor of an open channel sends a first message: it may overtake
\* message 3, and the responder then reads it as message 3.
Data == [k |-> <<>>, n |-> 0, h |-> <<>>, p |-> Junk]

SendData(i) ==
    /\ i \in done \ stopped
    /\ Message(route[i], i, <<Data, Data>>) \notin net
    /\ hs[route[i]].status = "WaitingForMessage3"  \* the case of interest
    /\ net' = net \cup {Message(route[i], i, <<Data, Data>>)}
    /\ UNCHANGED <<hs, route, payload, done, stopped, registry, create, vault, faults>>

\* Any other message: to a worker which is gone or in its final state, where
\* the decryptor or the state machine returns an error.
HandleOther(m) ==
    /\ m \in net
    /\ \/ \E w \in stopped : m.to \in {w, <<w>>}
       \/ \E w \in Workers : m.to = w /\ hs[w].status = "Ready"
    /\ net' = net \ {m}
    /\ UNCHANGED <<hs, route, payload, done, stopped, registry, create, vault, faults>>

\* receive_timeout: the caller of create_secure_channel gives up.  The worker
\* is left as it is.
CreateTimeout(i) ==
    /\ create[i] = "waiting"
    /\ create' = [create EXCEPT ![i] = "timeout"]
    /\ UNCHANGED <<hs, route, payload, done, stopped, registry, vault, net, faults>>

\* shutdown of the handshake worker and of its encryptor.
Shutdown(w) ==
    /\ Alive(w)
    /\ stopped' = stopped \cup {w}
    /\ registry' = {c \in registry : c[1] # w}
    /\ vault' = IF w \in done THEN {s \in vault : s[1] # w \/ s[2] \notin {"k1", "k2"}}
                ELSE vault
    /\ UNCHANGED <<hs, route, payload, done, create, net, faults>>

\* The network: messages on their way to another node only.
Remote(m) == m.to \in Workers \cup {Listener}

Lose(m) ==
    /\ m \in net /\ Remote(m) /\ Faults({"lose"})
    /\ net' = net \ {m}
    /\ UNCHANGED <<hs, route, payload, done, stopped, registry, create, vault>>

Damage(m, i) ==
    /\ m \in net /\ Remote(m) /\ Faults({"damage"})
    /\ m.parts[i] # Junk
    /\ net' = (net \ {m}) \cup {[m EXCEPT !.parts[i] = Junk]}
    /\ UNCHANGED <<hs, route, payload, done, stopped, registry, create, vault>>

Init ==
    /\ hs = [w \in Workers |-> HandshakeState("Absent", None, None, 0, <<>>, <<>>)]
    /\ route = [w \in Workers |-> IF w \in Initiators THEN Listener ELSE None]
    /\ payload = [w \in Workers |-> TRUE]
    /\ done = {} /\ stopped = {} /\ registry = {}
    /\ create = [i \in Initiators |-> "none"]
    /\ vault = {} /\ net = {} /\ faults = 0

Next ==
    \/ \E i \in Initiators : CreateInitiator(i) \/ CreateTimeout(i) \/ SendData(i)
    \/ \E m \in net, r \in Responders, again \in BOOLEAN :
            ListenerHandleMessage(m, r, again)
    \/ \E m \in net, r \in Responders : HandleMessage1(r, m)
    \/ \E m \in net, i \in Initiators, again \in BOOLEAN : HandleMessage2(i, m, again)
    \/ \E m \in net, r \in Responders, again \in BOOLEAN : HandleMessage3(r, m, again)
    \/ \E m \in net : HandleOther(m) \/ Lose(m) \/ (\E i \in DOMAIN m.parts : Damage(m, i))
    \/ \E w \in Workers : Shutdown(w)

Spec == Init /\ [][Next]_vars

\* Every worker handles the messages in its mailbox.  There are finitely many
\* handshake messages, so this amounts to weak fairness of their handlers.
Pending ==
    \E m \in net :
        /\ m.parts # <<Data, Data>>
        /\ m.to = Listener => \E r \in Responders : hs[r].status = "Absent"

(***************************************************************************)
(* Properties.                                                             *)
(***************************************************************************)
Statuses == {"Absent", "WaitingForMessage1", "WaitingForMessage2",
             "WaitingForMessage3", "Ready"}

\* Every variable keeps its shape: statuses, routes and the outcome of create.
TypeOK ==
    /\ hs = [w \in Workers |-> HandshakeState(hs[w].status, hs[w].re, hs[w].rs, hs[w].n, hs[w].h, hs[w].ck)]
    /\ \A w \in Workers : hs[w].status \in Statuses /\ hs[w].n \in 0..1
    /\ route \in [Workers -> Workers \cup {Listener, None}]
    /\ payload \in [Workers -> BOOLEAN]
    /\ done \subseteq Workers /\ stopped \subseteq Workers
    /\ create \in [Initiators -> {"none", "waiting", "ok", "timeout"}]
    /\ faults \in 0..MaxFaults

Secrets(w) == {s \in vault : s[1] = w}

\* A finished handshake (set_final_state) leaves exactly the two channel keys
\* in the vault, none of the intermediate secrets; a channel which was opened
\* and shut down leaves nothing.
NoLeftovers ==
    \A w \in Workers : hs[w].status = "Ready" =>
        Secrets(w) = IF w \in done \cap stopped THEN {}
                     ELSE {<<w, "k1", hs[w].ck>>, <<w, "k2", hs[w].ck>>}

\* A channel that is open on the responder's side is open with one initiator,
\* which opened it too or could not send message 3: each encrypts with the key
\* the other decrypts with, and each knows the other's identity.
Agreement ==
    \A r \in Responders \cap done : \E i \in Initiators :
        /\ hs[i].status = "Ready" /\ hs[i].rs = S(r) /\ hs[r].rs = S(i)
        /\ EncryptionKey(i) = DecryptionKey(r) /\ DecryptionKey(i) = EncryptionKey(r)
        /\ \A q \in Responders \cap done : hs[q].rs = S(i) => q = r

\* What the registry says of an open channel is true: the peer is the worker
\* the keys are shared with, never the listener message 1 was sent to
\* (handle_message keeps the most recent return route).
RegistryNamesPeer ==
    \A c \in registry : c[2] \in Workers /\ hs[c[1]].re = E(c[2])

\* When create_secure_channel returns Ok the channel is registered and has its
\* keys, until it is stopped.
OkMeansOpen ==
    \A i \in Initiators : create[i] = "ok" /\ i \notin stopped =>
        /\ \E p \in Workers : <<i, p>> \in registry
        /\ {<<i, "k1", hs[i].ck>>, <<i, "k2", hs[i].ck>>} \subseteq vault

Broken(w) ==
    /\ hs[w].status \in {"WaitingForMessage2", "WaitingForMessage3"}
    /\ <<w, "ck", hs[w].ck>> \notin vault

\* A decode which failed after hkdf has deleted the chaining key its state still
\* names: no later message, not even a good one, completes that handshake.
BrokenStep == \A w \in Workers : Broken(w) => Broken(w)'
BrokenForGood == [][BrokenStep]_vars

\* With nothing worse than repeated and reordered messages, a handshake that was
\* started opens the channel on both sides, even when the caller has timed out
\* and data overtakes message 3, unless a worker is stopped meanwhile.
Creating(i) == create[i] = "waiting"
OpenOrStopped(i) ==
    \/ i \in done /\ \E r \in Responders \cap done : hs[i].re = E(r) /\ hs[r].re = E(i)
    \/ stopped # {}
ChannelOpens == \A i \in Initiators : Creating(i) ~> OpenOrStopped(i)

\* The key exchange implements the abstract agreement on a key: the initiator
\* draws a fresh one, at most one responder ends up with the same.
Held(w) == IF hs[w].status = "Ready" THEN {<<hs[w].ck, {S(w), hs[w].rs}>>} ELSE {}

Abstract == INSTANCE KeyAgreement WITH
    initiatorKey <- [i \in Initiators |-> Held(i)],
    responderKey <- [r \in Responders |-> Held(r)]

AgreesOnKey == Abstract!Spec

(***************************************************************************)
(* The inductive invariant.                                                *)
(***************************************************************************)
\* The chaining keys of the initiator i and the responder r after one, two and
\* three secrets.
Key1(i, r) == << <<>>, {E(i), E(r)} >>
Key2(i, r) == <<Key1(i, r), {E(i), S(r)}>>
Key3(i, r) == <<Key2(i, r), {S(i), E(r)}>>

\* How far the key exchange of each worker has come.  After a refused identity the
\* key is ahead of the status.
InitiatorState(i) ==
    /\ hs[i].status \in {"Absent", "WaitingForMessage2", "Ready"}
    /\ hs[i].status = "WaitingForMessage2" => hs[i].ck = <<>> \/ \E r \in Responders : hs[i].ck = Key2(i, r)
    /\ hs[i].status = "Ready" =>
          \E r \in Responders : hs[i].ck = Key3(i, r) /\ hs[i].re = E(r) /\ hs[i].rs = S(r)
ResponderState(r) ==
    /\ hs[r].status \in {"Absent", "WaitingForMessage1", "WaitingForMessage3", "Ready"}
    /\ hs[r].status = "WaitingForMessage1" => hs[r].ck = <<>>
    /\ hs[r].status = "WaitingForMessage3" =>
          \E i \in Initiators : hs[r].re = E(i) /\ route[r] = i /\ hs[r].ck \in {Key2(i, r), Key3(i, r)}
    /\ hs[r].status = "Ready" =>
          \E i \in Initiators : /\ hs[r].re = E(i) /\ hs[r].rs = S(i) /\ route[r] = i
                                /\ hs[r].ck = Key3(i, r)
                                /\ hs[i].status = "Ready" /\ hs[i].ck = Key3(i, r)
StateInv == (\A i \in Initiators : InitiatorState(i)) /\ (\A r \in Responders : ResponderState(r))

\* What is under way: every part that is not damaged or data was sealed by its sender
\* with the key of that moment.
FirstMessage(m) ==
    /\ m.to = Listener \/ \E r \in Responders : m.to = <<r>>
    /\ m.from \in Initiators
    /\ m = Message(m.to, m.from, <<m.parts[1], m.parts[2]>>)
    /\ m.parts[1] \in {E(m.from), Junk}
SecondMessage(m) ==
    /\ m.to \in Initiators /\ m.from \in Responders
    /\ m = Message(m.to, m.from, <<m.parts[1], m.parts[2], m.parts[3]>>)
    /\ m.parts[1] \in {E(m.from), Junk}
    /\ \E i \in Initiators :
        /\ m.parts[2] # Junk => m.parts[2].k = Key1(i, m.from) /\ m.parts[2].p = S(m.from)
        /\ m.parts[3] # Junk => m.parts[3].k = Key2(i, m.from) /\ m.parts[3].p = IdentityPayload(m.from)
ThirdMessage(m) ==
    /\ m.to \in Responders /\ m.from \in Initiators
    /\ m = Message(m.to, m.from, <<m.parts[1], m.parts[2]>>)
    /\ hs[m.from].status = "Ready"
    /\ \E r \in Responders :
        /\ hs[m.from].ck = Key3(m.from, r)
        /\ m.parts[1] \notin {Junk, Data} => m.parts[1].k = Key2(m.from, r) /\ m.parts[1].p = S(m.from)
        /\ m.parts[2] \notin {Junk, Data} => m.parts[2].k = Key3(m.from, r) /\ m.parts[2].p = IdentityPayload(m.from)
MessageInv == \A m \in net : FirstMessage(m) \/ SecondMessage(m) \/ ThirdMessage(m)

\* The secrets of a worker that has not started, of a handshake that can still
\* complete, and of one that has.
WorkerSecrets(w) ==
    /\ hs[w].status = "Absent" => Secrets(w) = {}
    /\ hs[w].status \notin {"Absent", "Ready"} /\ <<w, "ck", hs[w].ck>> \in vault =>
          Secrets(w) = Intermediate(w, hs[w].ck)
    /\ hs[w].status = "WaitingForMessage1" => <<w, "ck", hs[w].ck>> \in vault
    /\ hs[w].status = "Ready" =>
          Secrets(w) = IF w \in done \cap stopped THEN {}
                       ELSE {<<w, "k1", hs[w].ck>>, <<w, "k2", hs[w].ck>>}
VaultInv == \A w \in Workers : WorkerSecrets(w)

\* Channels in use have completed their handshake and are registered until stopped.
ChannelInv ==
    /\ \A w \in done : hs[w].status = "Ready" /\ route[w] \in Workers
    /\ \A w \in done \ stopped : \E p \in Workers : <<w, p>> \in registry
    /\ \A c \in registry : c \in done \X Workers /\ hs[c[1]].re = E(c[2])
    /\ \A i \in Initiators : create[i] = "ok" => i \in done

HandshakeInv == TypeOK /\ StateInv /\ MessageInv /\ VaultInv /\ ChannelInv

=============================================================================
