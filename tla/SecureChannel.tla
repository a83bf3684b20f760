---------------------------- MODULE SecureChannel ----------------------------
(***************************************************************************)
(* One direction of an established secure channel: the Encryptor and its   *)
(* worker on one node, a network that loses, duplicates, reorders and      *)
(* garbles, and the Decryptor and its handler on the other node            *)
(* (encryptor.rs, encryptor_worker.rs, decryptor.rs).                      *)
(*                                                                         *)
(* A secret is known by its place in the chain of rekeyings: secret 0 is   *)
(* what the handshake agreed on and Rekey(s) = s + 1.  A vault maps the    *)
(* identifiers of the live secrets to the secrets; importing a secret      *)
(* always makes a new identifier, as compute_key_id does for AES keys.     *)
(* A sealed text can be opened with the secret and nonce it was made with. *)
(***************************************************************************)
EXTENDS KeyTracker, FiniteSets

CONSTANT MaxGarbled  \* bound: messages the network garbles in transit

ASSUME MaxGarbledAssumption == MaxGarbled \in Nat

VARIABLES
  encryptor,      \* Encryptor: key, nonce; open until its worker is shut down
  enc_vault,      \* the sender's live ephemeral secrets
  nonce_tracker,  \* Decryptor.nonce_tracker
  key_tracker,    \* Decryptor.key_tracker
  dec_open,       \* FALSE once the decryptor's worker is shut down
  dec_vault,      \* the receiver's live ephemeral secrets
  dec_ids,        \* number of identifiers the receiver's vault has given out
  network,        \* every message ever sent: any may arrive, in any order, again
  garbled,        \* number of garbled messages that have arrived
  forwarded,      \* per nonce, how often its payload was forwarded to a worker
  replied         \* per nonce, how often its payload was returned by the API

enc_vars == <<encryptor, enc_vault>>
dec_vars == <<nonce_tracker, key_tracker, dec_open, dec_vault, dec_ids>>
out_vars == <<forwarded, replied>>
vars == <<enc_vars, dec_vars, out_vars, network, garbled>>

Nonces == 0 .. MaxNonce
Kinds == {"transport", "raw"}  \* an encoded TransportMessage, or API bytes
Garbage == [secret |-> -1, nonce |-> 0, kind |-> "raw"]  \* no secret opens it

Sealed == [secret : Nat, nonce : Nonces, kind : Kinds]
Messages == [nonce : Nonces, sealed : Sealed]

-----------------------------------------------------------------------------
(* The part of the vault the channel uses.                                 *)

ImportSecret(vault, id, secret) ==
  [k \in DOMAIN vault \union {id} |-> IF k = id THEN secret ELSE vault[k]]

DeleteSecrets(vault, ids) == [k \in DOMAIN vault \ ids |-> vault[k]]

Rekey(secret) == secret + 1

-----------------------------------------------------------------------------
Init ==
  /\ encryptor = [key |-> 0, nonce |-> 0, open |-> TRUE]
  /\ enc_vault = [k \in {0} |-> 0]
  /\ nonce_tracker = NonceTrackerNew
  /\ key_tracker = KeyTrackerNew(0)
  /\ dec_open = TRUE
  /\ dec_vault = [k \in {0} |-> 0]
  /\ dec_ids = 1
  /\ network = {}
  /\ garbled = 0
  /\ forwarded = [n \in Nonces |-> 0]
  /\ replied = [n \in Nonces |-> 0]

-----------------------------------------------------------------------------
(* Encryptor.                                                              *)

RenewsKey(nonce) == nonce > 0 /\ nonce % KEY_RENEWAL_INTERVAL = 0

EncryptNoOverflowCheck(kind) ==
  LET nonce  == encryptor.nonce
      secret == enc_vault[encryptor.key]
  IN  /\ encryptor.open
      /\ encryptor.key \in DOMAIN enc_vault
      /\ encryptor' = [encryptor EXCEPT !.nonce = (@ + 1) % (MaxNonce + 1)]
      /\ UNCHANGED enc_vault
      /\ network' = network \union
           {[nonce  |-> nonce,
             sealed |-> [secret |-> secret, nonce |-> nonce, kind |-> kind]]}

\* encrypt.  The nonce u64::MAX, which rekey uses, is refused.  The first
\* nonce of an interval renews the key: the new secret is imported and
\* replaces the old one, which is deleted.  The vault fails only on a key it
\* does not hold, which KeysAreLive excludes while the channel is open.
Encrypt(kind) ==
  LET nonce  == encryptor.nonce
      renew  == RenewsKey(nonce)
      secret == IF renew THEN Rekey(enc_vault[encryptor.key])
                         ELSE enc_vault[encryptor.key]
      key    == IF renew THEN encryptor.key + 1 ELSE encryptor.key
  IN  /\ encryptor.open
      /\ encryptor.key \in DOMAIN enc_vault
      /\ nonce # MaxNonce
      /\ encryptor' = [encryptor EXCEPT !.nonce = @ + 1, !.key = key]
      /\ enc_vault' = IF renew
                      THEN DeleteSecrets(ImportSecret(enc_vault, key, secret),
                                         {encryptor.key})
                      ELSE enc_vault
      /\ network' = network \union
           {[nonce  |-> nonce,
             sealed |-> [secret |-> secret, nonce |-> nonce, kind |-> kind]]}

\* EncryptorWorker::handle_encrypt: seal an encoded TransportMessage and send
\* it to the decryptor on the other side.
HandleEncrypt ==
  /\ Encrypt("transport")
  /\ UNCHANGED <<dec_vars, out_vars, garbled>>

\* EncryptorWorker::handle_encrypt_api: return the sealed bytes to the caller,
\* who brings them to the other side by its own means.
HandleEncryptApi ==
  /\ Encrypt("raw")
  /\ UNCHANGED <<dec_vars, out_vars, garbled>>

\* Encryptor::shutdown.
ShutdownEncryptor ==
  /\ encryptor.open
  /\ encryptor' = [encryptor EXCEPT !.open = FALSE]
  /\ enc_vault' = DeleteSecrets(enc_vault, {encryptor.key})
  /\ UNCHANGED <<dec_vars, out_vars, network, garbled>>

-----------------------------------------------------------------------------
(* Decryptor.                                                              *)

\* The key decrypt opens a message with: one of the tracked keys, or a new
\* one under the next free identifier.
DecryptionKey(nonce) ==
  IF InCurrentInterval(key_tracker, nonce) THEN key_tracker.current_key
  ELSE IF InPreviousInterval(key_tracker, nonce) THEN key_tracker.previous_key
  ELSE dec_ids

\* decrypt gets past mark and get_key.
NonceAdmitted(nonce) ==
  MarkOk(nonce_tracker, nonce) /\ GetKeyOk(key_tracker, nonce)

\* decrypt rekeys before it knows whether the message is genuine.
RekeysFor(nonce) ==
  NonceAdmitted(nonce) /\ InNextInterval(key_tracker, nonce)

\* The vault once the decryption key is in it.
VaultWithKey(nonce) ==
  IF RekeysFor(nonce)
  THEN ImportSecret(dec_vault, dec_ids, Rekey(dec_vault[key_tracker.current_key]))
  ELSE dec_vault

\* decrypt returns Ok.
Opens(m) ==
  /\ NonceAdmitted(m.nonce)
  /\ m.sealed.nonce = m.nonce
  /\ m.sealed.secret = VaultWithKey(m.nonce)[DecryptionKey(m.nonce)]

\* decrypt keeps the new trackers and deletes the key out of use.
DecryptCommit(m) ==
  LET key == DecryptionKey(m.nonce)
  IN  /\ nonce_tracker' = Mark(nonce_tracker, m.nonce)
      /\ key_tracker' = UpdateKey(key_tracker, key)
      /\ dec_vault' = DeleteSecrets(VaultWithKey(m.nonce),
                                    KeyToDelete(key_tracker, key))
      /\ dec_ids' = IF RekeysFor(m.nonce) THEN dec_ids + 1 ELSE dec_ids
      /\ UNCHANGED dec_open

DecryptRejectMarks(m) ==
  /\ nonce_tracker' = IF MarkOk(nonce_tracker, m.nonce)
                      THEN Mark(nonce_tracker, m.nonce) ELSE nonce_tracker
  /\ dec_vault' = VaultWithKey(m.nonce)
  /\ dec_ids' = IF RekeysFor(m.nonce) THEN dec_ids + 1 ELSE dec_ids
  /\ UNCHANGED <<key_tracker, dec_open>>

\* decrypt returns Err: the trackers stay as they are, a secret imported for
\* the attempt stays in the vault.
DecryptReject(m) ==
  /\ dec_vault' = VaultWithKey(m.nonce)
  /\ dec_ids' = IF RekeysFor(m.nonce) THEN dec_ids + 1 ELSE dec_ids
  /\ UNCHANGED <<nonce_tracker, key_tracker, dec_open>>

\* What may reach a handler: any message sent so far, and, up to the bound, a
\* message garbled in transit with any nonce in front.
Arrivals ==
  network \union
    {m \in [nonce : Nonces, sealed : {Garbage}] : garbled < MaxGarbled}

CountGarbled(m) ==
  garbled' = IF m.sealed = Garbage THEN garbled + 1 ELSE garbled

\* DecryptorHandler::handle_decrypt.  A payload that is not a TransportMessage
\* is dropped after its nonce was consumed.
HandleDecrypt(m) ==
  /\ dec_open
  /\ Opens(m)
  /\ DecryptCommit(m)
  /\ CountGarbled(m)
  /\ forwarded' = IF m.sealed.kind = "transport"
                  THEN [forwarded EXCEPT ![m.nonce] = @ + 1] ELSE forwarded
  /\ UNCHANGED <<enc_vars, replied, network>>

\* DecryptorHandler::handle_decrypt_api.
HandleDecryptApi(m) ==
  /\ dec_open
  /\ Opens(m)
  /\ DecryptCommit(m)
  /\ CountGarbled(m)
  /\ replied' = [replied EXCEPT ![m.nonce] = @ + 1]
  /\ UNCHANGED <<enc_vars, forwarded, network>>

\* Either handler when decrypt returns Err.
HandleDecryptErr(m) ==
  /\ dec_open
  /\ ~Opens(m)
  /\ DecryptReject(m)
  /\ CountGarbled(m)
  /\ UNCHANGED <<enc_vars, out_vars, network>>

\* Decryptor::shutdown.
ShutdownDecryptor ==
  /\ dec_open
  /\ dec_open' = FALSE
  /\ dec_vault' = DeleteSecrets(dec_vault, {key_tracker.current_key,
                                            key_tracker.previous_key})
  /\ UNCHANGED <<enc_vars, nonce_tracker, key_tracker, dec_ids, out_vars,
                 network, garbled>>

-----------------------------------------------------------------------------
Next ==
  \/ HandleEncrypt
  \/ HandleEncryptApi
  \/ ShutdownEncryptor
  \/ \E m \in Arrivals : \/ HandleDecrypt(m)
                         \/ HandleDecryptApi(m)
                         \/ HandleDecryptErr(m)
  \/ ShutdownDecryptor

Spec == Init /\ [][Next]_vars

-----------------------------------------------------------------------------
(* Properties.                                                             *)

\* Type invariant of the encryptor, the trackers, the vaults and the outputs.
TypeOK ==
  /\ encryptor \in [key : KeyIds, nonce : Nonces, open : BOOLEAN]
  /\ DOMAIN enc_vault \subseteq KeyIds
  /\ \A k \in DOMAIN enc_vault : enc_vault[k] \in Nat
  /\ nonce_tracker \in NonceTrackers
  /\ nonce_tracker.current_nonce \in Nonces
  /\ key_tracker \in KeyTrackers
  /\ dec_open \in BOOLEAN
  /\ DOMAIN dec_vault \subseteq KeyIds
  /\ \A k \in DOMAIN dec_vault : dec_vault[k] \in Nat
  /\ dec_ids \in Nat
  /\ network \subseteq Messages
  /\ garbled \in Nat
  /\ forwarded \in [Nonces -> Nat]
  /\ replied \in [Nonces -> Nat]

\* No payload comes out twice: whatever the network repeats, and whichever of
\* handle_decrypt and handle_decrypt_api it repeats it to, the bitmap of mark
\* and the window around it let a nonce through once.
AtMostOnce == \A n \in Nonces : forwarded[n] + replied[n] <= 1

\* Nothing comes out that did not go in: a nonce whose payload was forwarded
\* or returned was sealed by the encryptor before.
OnlyWhatWasSent ==
  \A n \in Nonces : forwarded[n] + replied[n] > 0 => n < encryptor.nonce

\* A message that was really sent and whose nonce mark admits is always
\* opened: get_key does not fail on it and picks the very secret encrypt used,
\* whatever was lost, reordered, repeated or garbled before.  The window and
\* the renewal interval being the same constant, two keys are enough
\* (encryptor.rs, KEY_RENEWAL_INTERVAL).
InWindowOpens ==
  dec_open => \A m \in network :
                MarkOk(nonce_tracker, m.nonce) => Opens(m)

\* The vaults hold every key still needed: the sender's its key, the receiver's
\* the key of the interval of the highest nonce and, from the second interval
\* on, the key of the interval before it.  The error paths of encrypt, rekey
\* and decrypt for a missing key are not taken while the channel is open.
KeysAreLive ==
  /\ encryptor.open => encryptor.key \in DOMAIN enc_vault
  /\ dec_open =>
       /\ key_tracker.current_key \in DOMAIN dec_vault
       /\ dec_vault[key_tracker.current_key] = key_tracker.number_of_rekeys
       /\ IF key_tracker.number_of_rekeys = 0
          THEN key_tracker.previous_key = None
          ELSE /\ key_tracker.previous_key \in DOMAIN dec_vault
               /\ dec_vault[key_tracker.previous_key] + 1
                    = key_tracker.number_of_rekeys

\* The receiver rekeys exactly when the highest nonce it accepted enters a new
\* interval, and so never runs into max_rekeys_reached: the nonces end first.
RekeysInStep ==
  /\ key_tracker.number_of_rekeys
       = nonce_tracker.current_nonce \div KEY_RENEWAL_INTERVAL
  /\ ~key_tracker.max_rekeys_reached

\* Secrets do not pile up: the sender holds one, the receiver the two it
\* tracks and at most one for each garbled message it has seen.
FewSecrets ==
  /\ Cardinality(DOMAIN enc_vault) <= 1
  /\ Cardinality(DOMAIN dec_vault) <= 2 + garbled

\* "validate the message with a decryption before committing to the new state"
\* (decryptor.rs): a garbled message moves neither tracker.
GarbledCommitsNothing ==
  [][garbled' # garbled => UNCHANGED <<nonce_tracker, key_tracker>>]_vars

\* The promise of the channel, and the numbering that shows it is kept: the
\* n-th message is the one sealed under nonce n, and it comes out through
\* handle_decrypt or handle_decrypt_api.
Promise == INSTANCE AtMostOnceChannel WITH
  sent <- encryptor.nonce,
  received <- [n \in Nonces |-> forwarded[n] + replied[n]]

\* Encryptor, network and Decryptor together implement the promise.
KeepsPromise == Promise!Spec

-----------------------------------------------------------------------------
(* An inductive invariant.                                                 *)

\* x is one of the nonces sealed with secret s.
InInterval(s, x) ==
  /\ s * KEY_RENEWAL_INTERVAL <= x
  /\ x < s * KEY_RENEWAL_INTERVAL + KEY_RENEWAL_INTERVAL

\* The encryptor holds one secret, that of the interval of the last nonce.
EncryptorInv ==
  encryptor.open =>
    /\ DOMAIN enc_vault = {encryptor.key}
    /\ IF encryptor.nonce = 0
       THEN enc_vault[encryptor.key] = 0
       ELSE InInterval(enc_vault[encryptor.key], encryptor.nonce - 1)

\* Every message sent is sealed with the secret of the interval of its nonce.
NetworkInv ==
  \A m \in network :
    /\ m.sealed.nonce = m.nonce
    /\ m.nonce < encryptor.nonce
    /\ InInterval(m.sealed.secret, m.nonce)

\* The two trackers move together.
TrackersInv ==
  /\ ~key_tracker.max_rekeys_reached
  /\ InInterval(key_tracker.number_of_rekeys, nonce_tracker.current_nonce)

\* The identifiers the receiver's vault gives out are new.
KeyIdsInv ==
  /\ \A k \in DOMAIN dec_vault : k < dec_ids
  /\ key_tracker.current_key < dec_ids
  /\ key_tracker.previous_key # key_tracker.current_key
  /\ key_tracker.previous_key # None => key_tracker.previous_key < dec_ids

\* A nonce that came out is marked as long as the bitmap reaches it.
WindowInv ==
  \A n \in Nonces :
    forwarded[n] + replied[n] > 0 =>
      /\ n <= nonce_tracker.current_nonce
      /\ nonce_tracker.current_nonce - n < BitmapBits =>
           nonce_tracker.current_nonce - n \in nonce_tracker.nonce_bitmap

\* The three nonce and key invariants of the two sides, with the properties
\* they strengthen: inductive, and the basis of every proof about the channel.
ChannelInv ==
  /\ TypeOK
  /\ EncryptorInv
  /\ NetworkInv
  /\ TrackersInv
  /\ KeyIdsInv
  /\ KeysAreLive
  /\ WindowInv
  /\ AtMostOnce
  /\ OnlyWhatWasSent

\* Secrets of the receiver that neither tracker slot names: each was derived for a
\* garbled message.  The sender keeps no secret but the one it encrypts with.
Untracked == DOMAIN dec_vault \ {key_tracker.current_key, key_tracker.previous_key}
SecretsInv ==
  /\ DOMAIN enc_vault \subseteq {encryptor.key}
  /\ IsFiniteSet(DOMAIN dec_vault)
  /\ Cardinality(Untracked) <= garbled

=============================================================================
