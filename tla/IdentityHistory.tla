--------------------------- MODULE IdentityHistory ---------------------------
(***************************************************************************)
(* The identities of ockam_identity: an identity is the history of its key *)
(* changes.  Its owner creates, adds and rotates keys; a change is hashed  *)
(* together with the hash of the one before it and signed by the new key,  *)
(* by the root key and, in a rotation, by the key it replaces.  A node     *)
(* that receives a history verifies it and keeps it if it extends the one  *)
(* it knows.                                                               *)
(*                                                                         *)
(* One identity is modelled, on several devices of its owner and at a peer *)
(* that stores it.  A key is a number, a signature is the number of the    *)
(* key that made it and a hash is the tuple of what it covers.  The owner  *)
(* may copy the identity to a second device with its root secret.  The     *)
(* storage is asynchronous: update_identity reads, compares, and writes    *)
(* later.                                                                  *)
(***************************************************************************)
EXTENDS Integers, FiniteSets, SequencesExt

CONSTANTS
  Devices,      \* the machines of the owner
  Maker,        \* the one that created the identity
  Labels,       \* labels of keys other than the root's
  Tasks,        \* tasks that may be inside update_identity at a time
  Overlap,      \* two of them may work on the same repository
  PersistFirst, \* the owner stores a new history before showing it to anyone
  MaxKeys,      \* bound on the secrets ever made
  MaxRestarts   \* bound on restarts of devices

VARIABLES
  keys,       \* the number of secrets made
  vault,      \* per device: the persistent secrets it holds
  ephemeral,  \* per device: the secrets it holds until it restarts
  identity,   \* per device: the history it has in memory, <<>> for none
  repository, \* per node: the history it has stored, <<>> for none
  shown,      \* the histories the devices have exported
  task,       \* per task: what update_identity is about to write
  restarts

vars == <<keys, vault, ephemeral, identity, repository, shown, task, restarts>>

Nodes == Devices \cup {"peer"}
AllLabels == Labels \cup {"root"}
NoTask == [node |-> "none", history |-> <<>>]

-----------------------------------------------------------------------------
(* Changes.  INITIAL_CHANGE stands before the first one. *)

InitialChange == <<"initial">>

ChangeId(prev, kind, label, key) == <<prev, kind, label, key>>

Change(prev, kind, label, key, signatures) ==
  [id |-> ChangeId(prev, kind, label, key), prev |-> prev, kind |-> kind,
   label |-> label, key |-> key, signatures |-> signatures]

LastChangeId(h) == IF h = <<>> THEN InitialChange ELSE Last(h).id

\* find_last_key_change: 0 when no change has this label.
FindLastKeyChange(h, label) ==
  LET at == {i \in 1..Len(h) : h[i].label = label}
  IN IF at = {} THEN 0 ELSE CHOOSE i \in at : \A j \in at : j <= i

HasLabel(h, label) == FindLastKeyChange(h, label) # 0

GetPublicKey(h, label) == h[FindLastKeyChange(h, label)].key

\* The identifier is the hash of the first key, which must have been created.
Identifier(h) == IF h # <<>> /\ h[1].kind = "create" THEN h[1].key ELSE 0

CheckConsistency(h) == \A i \in 2..Len(h) : h[i].prev = h[i - 1].id

-----------------------------------------------------------------------------
(* verify_change: each kind of change asks for its own signatures. *)

NeededSignatures(existing, c) ==
  IF c.kind = "create" THEN {"self"} \cup (IF existing = <<>> THEN {} ELSE {"root"})
  ELSE {"self", "root", "prev"}

SignerKnown(existing, c, type) ==
  \/ type = "self"
  \/ type = "root" /\ existing # <<>> /\ HasLabel(existing, "root")
  \/ type = "prev" /\ HasLabel(existing, c.label)

Signer(existing, c, type) ==
  CASE type = "self" -> c.key
    [] type = "root" -> GetPublicKey(existing, "root")
    [] type = "prev" -> GetPublicKey(existing, c.label)

VerifyChange(existing, c) ==
  /\ c.id = ChangeId(c.prev, c.kind, c.label, c.key)
  /\ {s[1] : s \in ToSet(c.signatures)} = NeededSignatures(existing, c)
  /\ Len(c.signatures) = Cardinality(NeededSignatures(existing, c))
  /\ \A s \in ToSet(c.signatures) :
        SignerKnown(existing, c, s[1]) /\ s[2] = Signer(existing, c, s[1])

VerifyAll(h) == \A i \in 1..Len(h) : VerifyChange(SubSeq(h, 1, i - 1), h[i])

\* decode_identity, of a history of which only the bytes are known.
Decodes(h) == CheckConsistency(h) /\ VerifyAll(h) /\ Identifier(h) # 0

Compare(h, known) ==
  LET n == IF Len(h) < Len(known) THEN Len(h) ELSE Len(known)
  IN IF \E i \in 1..n : h[i].id # known[i].id THEN "conflict"
     ELSE IF Len(h) < Len(known) THEN "older"
     ELSE IF Len(h) = Len(known) THEN "equal" ELSE "newer"

-----------------------------------------------------------------------------
(* The owner's keys.                                                       *)

Secrets(d) == vault[d] \cup ephemeral[d]

\* get_secret_key: the vault looks for the secret of the label's last key.
CanSign(d, label) ==
  HasLabel(identity[d], label) /\ GetPublicKey(identity[d], label) \in Secrets(d)

NewKey == keys + 1

CreateChange(h, label, key) ==
  Change(LastChangeId(h), "create", label, key,
         <<<<"self", key>>>>
         \o (IF h = <<>> THEN <<>> ELSE <<<<"root", GetPublicKey(h, "root")>>>>))

RotateChangeByNewRoot(h, label, key) ==
  Change(LastChangeId(h), "rotate", label, key,
         <<<<"self", key>>,
           <<"root", IF label = "root" THEN key ELSE GetPublicKey(h, "root")>>,
           <<"prev", GetPublicKey(h, label)>>>>)

RotateChange(h, label, key) ==
  Change(LastChangeId(h), "rotate", label, key,
         <<<<"self", key>>, <<"root", GetPublicKey(h, "root")>>,
           <<"prev", GetPublicKey(h, label)>>>>)

AddChange(d, c) ==
  identity' = IF CheckConsistency(Append(identity[d], c))
              THEN [identity EXCEPT ![d] = Append(@, c)] ELSE identity

\* create_key and add_key: one needs a new label and the root secret; the
\* second takes a secret that the vault holds already.
CreateKey(d, label) ==
  /\ identity[d] # <<>> /\ ~HasLabel(identity[d], label)
  /\ CanSign(d, "root")
  /\ \/ /\ keys < MaxKeys
        /\ keys' = NewKey
        /\ vault' = [vault EXCEPT ![d] = @ \cup {NewKey}]
        /\ AddChange(d, CreateChange(identity[d], label, NewKey))
     \/ \E k \in Secrets(d) :
           /\ AddChange(d, CreateChange(identity[d], label, k))
           /\ UNCHANGED <<keys, vault>>
  /\ UNCHANGED <<ephemeral, repository, shown, task, restarts>>

\* rotate_key and rotate_root_key: the new secret is made before the root
\* secret is looked for, and stays when that fails.
RotateKey(d, label) ==
  /\ CanSign(d, label) /\ keys < MaxKeys
  /\ keys' = NewKey
  /\ vault' = [vault EXCEPT ![d] = @ \cup {NewKey}]
  /\ IF CanSign(d, "root") THEN AddChange(d, RotateChange(identity[d], label, NewKey))
     ELSE UNCHANGED identity
  /\ UNCHANGED <<ephemeral, repository, shown, task, restarts>>

-----------------------------------------------------------------------------
(* update_identity of a node's repository, in two steps.                   *)

Free(t, n) ==
  /\ task[t] = NoTask
  /\ Overlap \/ \A u \in Tasks : task[u].node # n

\* retrieve_identity and the comparison: what remains to be written, if any.
Begin(t, n, h) ==
  LET known == repository[n]
      set == known = <<>> \/ Compare(h, known) = "newer"
  IN task' = [task EXCEPT ![t] = IF set THEN [node |-> n, history |-> h] ELSE NoTask]

Put(t) ==
  /\ task[t] # NoTask
  /\ repository' = [repository EXCEPT ![task[t].node] = task[t].history]
  /\ task' = [task EXCEPT ![t] = NoTask]
  /\ UNCHANGED <<keys, vault, ephemeral, identity, shown, restarts>>

\* The owner stores its identity after changing it.
Persist(t, d) ==
  /\ Free(t, d) /\ identity[d] # <<>> /\ identity[d] # repository[d]
  /\ Begin(t, d, identity[d])
  /\ UNCHANGED <<keys, vault, ephemeral, identity, repository, shown, restarts>>

Export(d) ==
  /\ identity[d] # <<>> /\ identity[d] \notin shown
  /\ PersistFirst => repository[d] = identity[d]
  /\ shown' = shown \cup {identity[d]}
  /\ UNCHANGED <<keys, vault, ephemeral, identity, repository, task, restarts>>

\* A handshake decodes the history a device has shown, at any later time.
Receive(t) ==
  /\ Free(t, "peer")
  /\ \E h \in shown : h # repository["peer"] /\ Decodes(h) /\ Begin(t, "peer", h)
  /\ UNCHANGED <<keys, vault, ephemeral, identity, repository, shown, restarts>>

\* import_private_identity, on a device that does not have the identity: the
\* root secret becomes ephemeral there, and update_identity is called.
ImportPrivate(t, d) ==
  /\ identity[d] = <<>> /\ Free(t, d)
  /\ \E h \in shown :
        /\ Decodes(h)
        /\ ephemeral' = [ephemeral EXCEPT ![d] = {GetPublicKey(h, "root")}]
        /\ identity' = [identity EXCEPT ![d] = h]
        /\ Begin(t, d, h)
  /\ UNCHANGED <<keys, vault, repository, shown, restarts>>

\* The process of a device ends; it finds its stored identity when it starts.
Restart(d) ==
  /\ restarts < MaxRestarts
  /\ restarts' = restarts + 1
  /\ ephemeral' = [ephemeral EXCEPT ![d] = {}]
  /\ identity' = [identity EXCEPT ![d] = repository[d]]
  /\ task' = [t \in Tasks |-> IF task[t].node = d THEN NoTask ELSE task[t]]
  /\ UNCHANGED <<keys, vault, repository, shown>>

\* make_and_persist_identity has stored a history of one root key.
Init ==
  LET first == <<CreateChange(<<>>, "root", 1)>>
  IN /\ keys = 1
     /\ vault = [d \in Devices |-> IF d = Maker THEN {1} ELSE {}]
     /\ ephemeral = [d \in Devices |-> {}]
     /\ identity = [d \in Devices |-> IF d = Maker THEN first ELSE <<>>]
     /\ repository = [n \in Nodes |-> IF n = Maker THEN first ELSE <<>>]
     /\ shown = {} /\ task = [t \in Tasks |-> NoTask]
     /\ restarts = 0

Next ==
  \/ \E d \in Devices, l \in Labels : CreateKey(d, l)
  \/ \E d \in Devices, l \in AllLabels : RotateKey(d, l)
  \/ \E d \in Devices : Export(d) \/ Restart(d)
  \/ \E t \in Tasks : Put(t) \/ Receive(t)
  \/ \E t \in Tasks, d \in Devices : Persist(t, d) \/ ImportPrivate(t, d)

Spec == Init /\ [][Next]_vars

-----------------------------------------------------------------------------
(* Properties *)

\* Everything stays in range: a stored or held history uses made keys only.
TypeOK ==
  /\ keys \in 1..MaxKeys
  /\ \A d \in Devices : Secrets(d) \subseteq 1..keys
  /\ \A h \in {repository[n] : n \in Nodes} \cup {identity[d] : d \in Devices} \cup shown :
        \A i \in 1..Len(h) : h[i].key \in 1..keys /\ h[i].label \in AllLabels
  /\ restarts \in 0..MaxRestarts

\* What the owner's devices make verifies everywhere, after any sequence of
\* creations and rotations on any of them: the signatures make_create_key_change
\* and make_rotate_key_change collect are the ones verify_change asks for.
MadeHistoriesDecode ==
  \A d \in Devices : identity[d] # <<>> => Decodes(identity[d])

\* Every history of the identity, wherever it is, has the identifier of the
\* first key: rotating the root key does not make another identity.
SameIdentifier ==
  \A h \in {repository[n] : n \in Nodes} \cup {identity[d] : d \in Devices} :
     h # <<>> => Identifier(h) = 1

\* A repository only ever replaces a history by one that extends it: it never
\* goes back to an earlier one, nor over to another branch.
StoredExtendsStep ==
  \A n \in Nodes : IsPrefix(repository[n], repository'[n])
StoredExtends == [][StoredExtendsStep]_vars

\* The device that made the identity holds the current secret of every label
\* of its history, after restarts too.
MakerCanSign ==
  \A l \in AllLabels : HasLabel(identity[Maker], l) => CanSign(Maker, l)

\* A device that stores before it shows never finds, after a restart, that a
\* peer knows more of its own changes than it does itself.
PeerNotAhead ==
  \A h \in shown : \E d \in Devices : IsPrefix(h, repository[d])

=============================================================================
