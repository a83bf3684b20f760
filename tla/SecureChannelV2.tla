--------------------------- MODULE SecureChannelV2 ---------------------------
(***************************************************************************)
(* Creating and stopping the v2 secure channels of ockam_identity.         *)
(*                                                                         *)
(* The static key of a channel is a purpose key: one secret, attested by   *)
(* the identity and shared by all the channels of a node, while each       *)
(* handshake has an ephemeral key of its own.  Each side sends its change  *)
(* history and the attestation; the other compares the history with the    *)
(* one it has stored, stores a newer one, and verifies the attestation     *)
(* against what is stored then.  Owners rotate their identity keys, and    *)
(* attest new purpose keys, while handshakes are under way.                *)
(*                                                                         *)
(* A call c is one create_secure_channel of the node Caller[c] to Server;  *)
(* its two workers are <<c, "i">> and <<c, "r">>.  Keys are symbolic: a    *)
(* chaining key is the sequence of the Diffie-Hellman results mixed into   *)
(* it, and a message carries the chaining key its payload was sealed with. *)
(* A history is its length.                                                *)
(***************************************************************************)
EXTENDS Integers, Sequences, FiniteSets

CONSTANTS
  Calls, Caller,  \* the calls, and the node that makes each
  Server,         \* the node of the listener
  Trusted,        \* per node: the identities its trust policy accepts
  Overlap,        \* two workers of a node may be inside verify_identity at a time
  MaxHistory,     \* bound on the changes of an identity
  MaxLost,        \* bound on messages lost
  MaxSent         \* bound on the encryptors that send a message

Nodes == {Caller[c] : c \in Calls} \cup {Server}
Workers == Calls \X {"i", "r"}
NodeOf(w) == IF w[2] = "i" THEN Caller[w[1]] ELSE Server
Peer(w) == <<w[1], IF w[2] = "i" THEN "r" ELSE "i">>

VARIABLES
  history,   \* per node: the length of its own history
  known,     \* per node and node: the history stored there, 0 for none
  purpose,   \* per node: [key, signed], its stored purpose key
  vault,     \* per node: the ids of the secrets it holds
  hs,        \* per worker: its handshake state
  registry,  \* per worker: the identity registered for its channel, or None
  encryptor, \* the workers whose encryptor runs
  create,    \* per call: "none", "waiting", "ok" or "error"
  net,       \* messages under way
  lost,
  sent,      \* the workers whose encryptor has sent its message
  delivered  \* the messages a worker behind a channel has handled

vars == <<history, known, purpose, vault, hs, registry, encryptor, create, net, lost, sent, delivered>>

None == "none"
NoKey == <<>>
NoPayload == [from |-> None, history |-> 0, key |-> 0, signed |-> 0]

E(w) == <<"e", w>>
S(n, k) == <<"s", n, k>>

-----------------------------------------------------------------------------
(* Noise XX.  A step is [st, v]: the handshake state and the vault after   *)
(* it; ck and k have the same name.                                        *)

Ck(w, st) == <<"ck", w, st.ck>>

\* Handshake::new and initialize.
NewHandshake(w, v, p) ==
  [st |-> [status |-> "initial", static |-> p.key, re |-> NoKey, rs |-> NoKey,
           ck |-> <<>>, payload |-> p, pending |-> NoPayload, update |-> FALSE,
           their |-> None],
   v |-> v \cup {E(w), <<"ck", w, <<>>>>}]

\* dh, then hkdf: the new chaining key replaces the old one in the vault.
DhHkdf(w, x, own, public) ==
  LET new == [x.st EXCEPT !.ck = Append(@, {own, public})]
  IN [st |-> new, v |-> (x.v \ {Ck(w, x.st)}) \cup {Ck(w, new)}]

Static(w, st) == S(NodeOf(w), st.static)

Message(to, kind, w, x) ==
  [to |-> to, kind |-> kind, e |-> E(w), s |-> Static(w, x.st), ck |-> x.st.ck,
   payload |-> x.st.payload]

EncodeMessage1(w, x) == Message(Peer(w), 1, w, x)

DecodeMessage1(x, m) == [x EXCEPT !.st.re = m.e]

\* encode_message2: e, ee, s, es, payload.
EncodeMessage2(w, x) ==
  LET ee == DhHkdf(w, x, E(w), x.st.re)
  IN DhHkdf(w, ee, Static(w, x.st), x.st.re)

\* decode_message2: it opens only if both sides have mixed the same keys.
DecodeMessage2(w, x, m) ==
  LET ee == DhHkdf(w, [x EXCEPT !.st.re = m.e], E(w), m.e)
  IN DhHkdf(w, [ee EXCEPT !.st.rs = m.s], E(w), m.s)

\* encode_message3: s, se, payload.
EncodeMessage3(w, x) == DhHkdf(w, x, Static(w, x.st), x.st.re)

DecodeMessage3(w, x, m) == DhHkdf(w, [x EXCEPT !.st.rs = m.s], E(w), m.s)


\* compute_final_keys: k1 and k2 take the place of ck and k.
FinalKeys(w, x) ==
  [x EXCEPT !.v = (@ \ {Ck(w, x.st)}) \cup {<<"k1", w, x.st.ck>>, <<"k2", w, x.st.ck>>}]

\* delete_ephemeral_keys: the static key stays, for the node's other channels.
DeleteEphemeralKeys(w, x) == [x EXCEPT !.v = @ \ {E(w)}]

SetFinalState(w, x) ==
  LET y == FinalKeys(w, x)
  IN DeleteEphemeralKeys(w, [y EXCEPT !.st.status = "ready"])

EncryptionKey(w) == <<IF w[2] = "i" THEN "k2" ELSE "k1", w, hs[w].ck>>
DecryptionKey(w) == <<IF w[2] = "i" THEN "k1" ELSE "k2", w, hs[w].ck>>

-----------------------------------------------------------------------------
(* Identities and purpose keys.                                            *)

\* import_purpose_key of one's own: the attestation must be of the last key.
Imports(n) ==
  /\ purpose[n].key # 0 /\ purpose[n].signed = history[n]
  /\ S(n, purpose[n].key) \in vault[n]

\* make_identity_payload: what the repository and the purpose key are now.
IdentityPayload(n) ==
  [from |-> n, history |-> history[n], key |-> purpose[n].key,
   signed |-> purpose[n].signed]

Compare(p, n) ==
  IF known[n][p.from] = 0 \/ p.history > known[n][p.from] THEN "newer"
  ELSE IF p.history < known[n][p.from] THEN "older" ELSE "equal"


\* The attestation was made by the last key of the history stored by now, and
\* it is of the static key used in the handshake.
AttestationHolds(p, stored, rs) == p.signed = stored /\ rs = S(p.from, p.key)

\* The trust policy; and then each credential presented may be refused.
TrustCheck(n, p) == p.from \in Trusted[n]

Rotate(n) ==
  /\ history[n] < MaxHistory
  /\ history' = [history EXCEPT ![n] = @ + 1]
  /\ UNCHANGED <<known, purpose, vault, hs, registry, encryptor, create, net, lost, sent, delivered>>

CreatePurposeKey(n) ==
  /\ purpose[n].signed # history[n]
  /\ purpose' = [purpose EXCEPT ![n] = [key |-> @.key + 1, signed |-> history[n]]]
  /\ vault' = [vault EXCEPT ![n] = @ \cup {S(n, purpose[n].key + 1)}]
  /\ UNCHANGED <<history, known, hs, registry, encryptor, create, net, lost, sent, delivered>>

-----------------------------------------------------------------------------
(* Handshake workers.                                                      *)

Step(w, x) ==
  /\ hs' = [hs EXCEPT ![w] = x.st]
  /\ vault' = [vault EXCEPT ![NodeOf(w)] = x.v]

\* InitiatorStateMachine::new and Initialize.
NewInitiator(w) ==
  LET x == NewHandshake(w, vault[NodeOf(w)], IdentityPayload(NodeOf(w)))
  IN [x EXCEPT !.st.status = "wait2"]

\* ResponderStateMachine::new and Initialize.
NewResponder(w) == NewHandshake(w, vault[Server], IdentityPayload(Server))

\* The responder's state machine on message 1.
OnMessage1(w, m) ==
  LET y == EncodeMessage2(w, DecodeMessage1(NewResponder(w), m))
  IN [y EXCEPT !.st.status = "wait3"]

\* The initiator's state machine, once the identity in message 2 is verified.
OnMessage2Verified(w, x) ==
  LET y == EncodeMessage3(w, x)
  IN [x |-> SetFinalState(w, y), sent |-> {Message(Peer(w), 3, w, y)}]

\* The responder's, once the identity in message 3 is verified.
OnMessage3Verified(w, x) == [x |-> SetFinalState(w, x), sent |-> {}]

\* HandshakeWorker::create and initialize, for the initiator: message 1 is sent,
\* the caller waits.
StartInitiator(c) ==
  LET w == <<c, "i">>
      x == NewInitiator(w)
  IN /\ create' = [create EXCEPT ![c] = "waiting"]
     /\ Step(w, x)
     /\ net' = net \cup {EncodeMessage1(w, x)}

\* create_secure_channel: without a valid purpose key it fails at once.
CreateChannel(c) ==
  /\ create[c] = None
  /\ \/ Imports(Caller[c]) /\ StartInitiator(c)
     \/ /\ ~Imports(Caller[c])
        /\ create' = [create EXCEPT ![c] = "error"]
        /\ UNCHANGED <<hs, vault, net>>
  /\ UNCHANGED <<history, known, purpose, registry, encryptor, lost, sent, delivered>>

\* The listener starts a responder for message 1 and forwards it, which answers.
HandleMessage1(m) ==
  LET w == m.to
      y == OnMessage1(w, m)
  IN /\ m \in net /\ m.kind = 1
     /\ IF Imports(Server)
        THEN Step(w, y) /\ net' = (net \ {m}) \cup {Message(Peer(w), 2, w, y)}
        ELSE net' = net \ {m} /\ UNCHANGED <<hs, vault>>
     /\ UNCHANGED <<history, known, purpose, registry, encryptor, create, lost, sent,
                    delivered>>

Awaits(w, m) == hs[w].status = IF m.kind = 2 THEN "wait2" ELSE "wait3"

Verifying(n) == {w \in Workers : NodeOf(w) = n /\ hs[w].pending # NoPayload}

\* Messages 2 and 3: decode, then verify_identity up to the comparison with the
\* history that is stored.  An older one ends the handshake: the worker stays.
HandleMessage(m) ==
  LET w == m.to
      n == NodeOf(w)
      x == [st |-> hs[w], v |-> vault[n]]
      y == IF m.kind = 2 THEN DecodeMessage2(w, x, m) ELSE DecodeMessage3(w, x, m)
      ok == y.st.ck = m.ck /\ Compare(m.payload, n) # "older"
  IN /\ m \in net /\ m.kind \in {2, 3} /\ Awaits(w, m)
     /\ Overlap \/ Verifying(n) = {}
     /\ Step(w, IF ok THEN [y EXCEPT !.st.pending = m.payload,
                                      !.st.update = Compare(m.payload, n) = "newer"]
                ELSE [y EXCEPT !.st.status = "failed"])
     /\ net' = net \ {m}
     /\ UNCHANGED <<history, known, purpose, registry, encryptor, create, lost, sent, delivered>>

\* update_identity sets what is stored, if the comparison said so.
Stored(w) ==
  LET p == hs[w].pending
  IN [known EXCEPT ![NodeOf(w)][p.from] = IF hs[w].update THEN p.history ELSE @]

\* finalize: the encryptor starts, the channel is registered; the call returns.
Finalize(w) ==
  /\ registry' = [registry EXCEPT ![w] = hs[w].pending.from]
  /\ encryptor' = encryptor \cup {w}
  /\ create' = IF w[2] = "i" /\ create[w[1]] = "waiting"
               THEN [create EXCEPT ![w[1]] = "ok"] ELSE create

\* The rest of verify_identity: the history is stored whatever comes after;
\* then the attestation, the trust policy, and the channel.
Verify(w, credentials) ==
  LET p == hs[w].pending
      n == NodeOf(w)
      x == [st |-> [hs[w] EXCEPT !.pending = NoPayload, !.their = p.from], v |-> vault[n]]
      accepted == /\ AttestationHolds(p, Stored(w)[n][p.from], hs[w].rs)
                  /\ TrustCheck(n, p) /\ credentials
      y == IF w[2] = "i" THEN OnMessage2Verified(w, x) ELSE OnMessage3Verified(w, x)
  IN /\ p # NoPayload
     /\ known' = Stored(w)
     /\ IF accepted
        THEN /\ Step(w, y.x)
             /\ net' = net \cup y.sent
             /\ Finalize(w)
        ELSE /\ Step(w, [x EXCEPT !.st.status = "failed"])
             /\ UNCHANGED <<net, registry, encryptor, create, sent, delivered>>
     /\ UNCHANGED <<history, purpose, lost, sent, delivered>>

\* The waiting call gives up.
Timeout(c) ==
  /\ create[c] = "waiting"
  /\ create' = [create EXCEPT ![c] = "error"]
  /\ UNCHANGED <<history, known, purpose, vault, hs, registry, encryptor, net, lost, sent, delivered>>

Lose(m) ==
  /\ m \in net /\ lost < MaxLost
  /\ net' = net \ {m} /\ lost' = lost + 1
  /\ UNCHANGED <<history, known, purpose, vault, hs, registry, encryptor, create, sent, delivered>>

-----------------------------------------------------------------------------
(* Messages through a channel, one per encryptor.                          *)

Encrypt(w) ==
  /\ w \in encryptor \ sent /\ Cardinality(sent) < MaxSent
  /\ EncryptionKey(w) \in vault[NodeOf(w)]
  /\ net' = net \cup {[to |-> Peer(w), kind |-> 4, k |-> EncryptionKey(w)[1],
                       ck |-> hs[w].ck, by |-> NodeOf(w)]}
  /\ sent' = sent \cup {w}
  /\ UNCHANGED <<history, known, purpose, vault, hs, registry, encryptor, create, lost,
                 delivered>>

\* Decryptor::decrypt: the same key, and it is still in the vault.
Opens(w, m) ==
  /\ hs[w].status \in {"ready", "stopping"} /\ DecryptionKey(w) \in vault[NodeOf(w)]
  /\ m.k = DecryptionKey(w)[1] /\ m.ck = hs[w].ck

\* IdentityIdAccessControl of the worker behind the channel.
IsAuthorized(n, their) == their \in Trusted[n]

\* handle_decrypt: the message is marked with the identity of the channel and
\* forwarded.  One that does not open, as before message 3 has come, changes
\* nothing.
Decrypt(m) ==
  LET w == m.to
      their == hs[w].their
  IN /\ m \in net /\ m.kind = 4
     /\ net' = net \ {m}
     /\ delivered' = IF Opens(w, m) /\ IsAuthorized(NodeOf(w), their)
                     THEN delivered \cup {[at |-> w, their |-> their, by |-> m.by]}
                     ELSE delivered
     /\ UNCHANGED <<history, known, purpose, vault, hs, registry, encryptor, create, lost,
                    sent>>

-----------------------------------------------------------------------------
(* Stopping: each of the two workers of a channel stops the other.         *)

\* stop_secure_channel, and EncryptorWorker::shutdown.
StopEncryptor(w) ==
  /\ w \in encryptor
  /\ encryptor' = encryptor \ {w}
  /\ vault' = [vault EXCEPT ![NodeOf(w)] = @ \ {EncryptionKey(w)}]
  /\ hs' = [hs EXCEPT ![w].status = IF @ = "ready" THEN "stopping" ELSE @]
  /\ UNCHANGED <<history, known, purpose, registry, create, net, lost, sent, delivered>>

\* HandshakeWorker::shutdown.
StopDecryptor(w) ==
  /\ hs[w].status = "stopping"
  /\ hs' = [hs EXCEPT ![w].status = "stopped"]
  /\ registry' = [registry EXCEPT ![w] = None]
  /\ vault' = [vault EXCEPT ![NodeOf(w)] = @ \ {DecryptionKey(w)}]
  /\ UNCHANGED <<history, known, purpose, encryptor, create, net, lost, sent, delivered>>

Init ==
  /\ history = [n \in Nodes |-> 1]
  /\ \E met \in {0, 1} : known = [n \in Nodes |-> [o \in Nodes |-> met]]
  /\ purpose = [n \in Nodes |-> [key |-> 1, signed |-> 1]]
  /\ vault = [n \in Nodes |-> {S(n, 1)}]
  /\ hs = [w \in Workers |-> [NewHandshake(w, {}, NoPayload).st EXCEPT !.status = "absent"]]
  /\ registry = [w \in Workers |-> None]
  /\ encryptor = {} /\ create = [c \in Calls |-> None]
  /\ net = {} /\ lost = 0 /\ sent = {} /\ delivered = {}

Next ==
  \/ \E n \in {Caller[c] : c \in Calls} : Rotate(n) \/ CreatePurposeKey(n)
  \/ \E c \in Calls : CreateChannel(c) \/ Timeout(c)
  \/ \E m \in net : HandleMessage1(m) \/ HandleMessage(m) \/ Decrypt(m) \/ Lose(m)
  \/ \E w \in Workers : (\E b \in BOOLEAN : Verify(w, b)) \/ Encrypt(w) \/ StopEncryptor(w) \/ StopDecryptor(w)

Spec == Init /\ [][Next]_vars
             /\ \A w \in Workers : WF_vars(StopDecryptor(w))

-----------------------------------------------------------------------------
(* Properties *)

\* Statuses are those of the state machines; nothing is known of the future.
TypeOK ==
  /\ \A w \in Workers : hs[w].status \in
        {"absent", "wait2", "wait3", "ready", "failed", "stopping", "stopped"}
  /\ \A n, o \in Nodes : known[n][o] \in 0..history[o]
  /\ \A c \in Calls : create[c] \in {None, "waiting", "ok", "error"}

\* A registered channel names the identity of the node at its other end, and
\* one its trust policy accepts.
TheirIdentity ==
  \A w \in Workers : registry[w] # None =>
     registry[w] = NodeOf(Peer(w)) /\ registry[w] \in Trusted[NodeOf(w)]

\* A message a worker handles is marked with the identity of the node that sent
\* it, whichever channels were stopped or were being created by then.
Attributed == \A d \in delivered : d.their = d.by /\ d.by \in Trusted[NodeOf(d.at)]

\* When both ends of a channel run, what one encrypts with the other decrypts
\* with, and both secrets are in the vaults.
KeysAgree ==
  \A c \in Calls :
     LET i == <<c, "i">>
         r == <<c, "r">>
     IN hs[i].status = "ready" /\ hs[r].status = "ready" =>
          /\ hs[i].ck = hs[r].ck
          /\ EncryptionKey(i)[1] = DecryptionKey(r)[1]
          /\ EncryptionKey(r)[1] = DecryptionKey(i)[1]
          /\ \A w \in {i, r} : {EncryptionKey(w), DecryptionKey(w)} \subseteq vault[NodeOf(w)]

\* The static secret of a node outlives each of its handshakes: a node with an
\* attestation can use it for the next channel.
StaticKeyStays == \A n \in Nodes : S(n, purpose[n].key) \in vault[n]

\* What a node has stored of another's history only grows.
KnownExtendsStep ==
  \A n, o \in Nodes : known'[n][o] >= known[n][o]
KnownExtends == [][KnownExtendsStep]_vars

\* A channel is only accepted with an attestation by the last key of the history
\* its side has stored by then, even if another handshake with the same peer
\* has replaced that history since the comparison.
AcceptedWithCurrentKeyStep ==
  \A w \in Workers : registry'[w] # None /\ registry[w] = None
    => hs[w].pending.signed = known'[NodeOf(w)][registry'[w]]
AcceptedWithCurrentKey == [][AcceptedWithCurrentKeyStep]_vars

\* A channel that is stopped by its encryptor is cleaned up by its decryptor:
\* no registry entry and no key of it is left.
Stopping(w) == hs[w].status = "stopping"
Cleaned(w) == registry[w] = None /\ {EncryptionKey(w), DecryptionKey(w)} \cap vault[NodeOf(w)] = {}
StopCleans == \A w \in Workers : Stopping(w) ~> Cleaned(w)
=============================================================================
