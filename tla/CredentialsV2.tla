---------------------------- MODULE CredentialsV2 ----------------------------
(***************************************************************************)
(* Purpose keys and credentials of the v2 identities of ockam_identity.    *)
(*                                                                         *)
(* An authority signs, with its identity key, an attestation of a purpose  *)
(* key, and with the purpose key the credentials of its members.  Whoever  *)
(* verifies a credential verifies the attestation first, against the       *)
(* history of the authority that it has stored itself.  The authority may  *)
(* rotate its identity key at any time; a node learns of it in its next    *)
(* handshake with the authority.  A history is its length, for only the    *)
(* authority rotates.  Members present their credentials to a server.      *)
(***************************************************************************)
EXTENDS Integers, FiniteSets, TLC

CONSTANTS
  Members,       \* members, whom the authority has attributes for
  ServerHasOne,  \* the server was given a credential of its own
  PresentBack,   \* ... and presents it when asked to
  PurposeTtl,    \* life of a purpose key ("five_years")
  Ttl,           \* life of a credential
  Leeway,        \* the authority service does not return a credential that ends sooner
  MaxTime, MaxRotations, MaxPurposeKeys

VARIABLES
  now,
  history,   \* the length of the authority's own history
  known,     \* per node: the length of the history it has stored, 0 for none
  madeKeys,  \* purpose keys made so far
  secrets,   \* those whose secret is in the authority's vault
  purpose,   \* the purpose key attestation the authority has stored
  issued,    \* the last credential issued to each subject
  cache,     \* per member: the credential its authority service has cached
  call,      \* per member: what its present call is at
  attributes,\* per subject: the attributes entry at the server
  trusted,   \* per member: the entry it stored for the server
  answer     \* per member: what the issuer worker answered last

vars == <<now, history, known, madeKeys, secrets, purpose, issued, cache, call,
          attributes, trusted, answer>>

Nodes == Members \cup {"authority", "server"}
Subjects == Members \cup {"server"}
None == "none"
NoAttestation == [key |-> 0, signed |-> 0, created |-> 0, expires |-> 0]
NoCredential == [subject |-> None, by |-> NoAttestation, created |-> 0, expires |-> 0]
NoEntry == [by |-> None, expires |-> 0]

-----------------------------------------------------------------------------
(* Purpose keys.                                                           *)

\* create_purpose_key: a new ephemeral secret, attested by the last key of the
\* history the authority has stored, replaces the stored attestation.
CreatePurposeKey ==
  /\ madeKeys < MaxPurposeKeys
  /\ madeKeys' = madeKeys + 1
  /\ secrets' = secrets \cup {madeKeys + 1}
  /\ purpose' = [key |-> madeKeys + 1, signed |-> known["authority"],
                 created |-> now, expires |-> now + PurposeTtl]
  /\ UNCHANGED <<now, history, known, issued, cache, call, attributes, trusted, answer>>

\* verify_purpose_key_attestation, at node n.
AttestationValid(n, att) ==
  /\ att # NoAttestation
  /\ known[n] # 0 /\ att.signed = known[n]
  /\ att.created <= now /\ now <= att.expires

\* import_purpose_key, at the authority: the secret must be in its vault.
Imports(att) == AttestationValid("authority", att) /\ att.key \in secrets

-----------------------------------------------------------------------------
(* Credentials.                                                            *)

\* The purpose keys stored at the authority's node: nobody's but its own.
StoredPurposeKey(identity) == IF identity = "authority" THEN purpose ELSE NoAttestation

\* Credentials::issue_credential(issuer, subject), at the authority's node.
CanIssue(issuer) == Imports(StoredPurposeKey(issuer))

NewCredential(issuer, subject) ==
  [subject |-> subject, by |-> StoredPurposeKey(issuer),
   created |-> now, expires |-> now + Ttl]

VerifiesBeyondKey(n, subject, c) ==
  /\ AttestationValid(n, c.by)
  /\ c.subject = subject
  /\ c.created <= now /\ now <= c.expires

\* verify_credential, at node n, of a credential presented for subject.
Verifies(n, subject, c) ==
  /\ AttestationValid(n, c.by)
  /\ c.subject = subject
  /\ c.created >= c.by.created /\ c.expires <= c.by.expires
  /\ c.created <= now /\ now <= c.expires

\* The authority's own code issues a credential and hands it to the subject.
Issue(subject) ==
  /\ CanIssue("authority")
  /\ issued' = [issued EXCEPT ![subject] = NewCredential("authority", subject)]
  /\ UNCHANGED <<now, history, known, madeKeys, secrets, purpose, cache, call,
                 attributes, trusted, answer>>

\* CredentialsIssuer: the worker that answers members over a secure channel.
\* It passes the member where issue_credential expects the issuer.
IssueOnRequest(m) ==
  IF CanIssue(m) THEN NewCredential(m, "authority") ELSE NoCredential

RequestCredential(m) ==
  /\ answer[m] = None
  /\ answer' = [answer EXCEPT ![m] =
                  IF IssueOnRequest(m).subject = m THEN "credential" ELSE "error"]
  /\ UNCHANGED <<now, history, known, madeKeys, secrets, purpose, issued, cache,
                 call, attributes, trusted>>

\* AuthorityService::credential, with the credential it was given in memory.
CacheFresh(m) == cache[m] # NoCredential /\ cache[m].expires > now + Leeway

Credential(m) ==
  IF CacheFresh(m) THEN cache[m]
  ELSE IF Verifies(m, m, issued[m]) THEN issued[m] ELSE NoCredential

-----------------------------------------------------------------------------
(* Presenting.                                                             *)

\* present_credential and present_credential_mutual, up to the request.
Present(m, mutual) ==
  /\ call[m].at = None
  /\ Credential(m) # NoCredential
  /\ cache' = [cache EXCEPT ![m] = Credential(m)]
  /\ call' = [call EXCEPT ![m] = [at |-> "sent", mutual |-> mutual,
                                  credential |-> Credential(m), back |-> NoCredential]]
  /\ UNCHANGED <<now, history, known, madeKeys, secrets, purpose, issued,
                 attributes, trusted, answer>>

\* receive_presented_credential: what is stored expires with the credential.
Entry(c) == [by |-> "authority", expires |-> c.expires]

Back == IF PresentBack /\ Verifies("server", "server", issued["server"])
        THEN issued["server"] ELSE NoCredential

\* CredentialsServerWorker: a refused credential is a bad request; a mutual
\* presentation is answered with the server's own credential or with an empty body.
Handle(m) ==
  /\ call[m].at = "sent"
  /\ IF Verifies("server", m, call[m].credential)
     THEN /\ attributes' = [attributes EXCEPT ![m] = Entry(call[m].credential)]
          /\ call' = [call EXCEPT ![m].at = "ok",
                                  ![m].back = IF call[m].mutual THEN Back ELSE NoCredential]
     ELSE /\ call' = [call EXCEPT ![m].at = "refused"]
          /\ UNCHANGED attributes
  /\ UNCHANGED <<now, history, known, madeKeys, secrets, purpose, issued, cache,
                 trusted, answer>>

\* The call returns; a mutual one fails unless it finds a valid credential.
Return(m) ==
  /\ call[m].at \in {"ok", "refused"}
  /\ call' = [call EXCEPT ![m] = [at |-> None, mutual |-> FALSE,
                                  credential |-> NoCredential, back |-> NoCredential]]
  /\ trusted' = [trusted EXCEPT ![m] =
                   IF /\ call[m].at = "ok" /\ call[m].mutual
                      /\ Verifies(m, "server", call[m].back)
                   THEN Entry(call[m].back) ELSE @]
  /\ UNCHANGED <<now, history, known, madeKeys, secrets, purpose, issued, cache,
                 attributes, answer>>

\* get_attributes: an entry that has expired is deleted when it is read.
ReadAttributes(m) ==
  /\ attributes[m] # NoEntry /\ attributes[m].expires <= now
  /\ attributes' = [attributes EXCEPT ![m] = NoEntry]
  /\ UNCHANGED <<now, history, known, madeKeys, secrets, purpose, issued, cache,
                 call, trusted, answer>>

-----------------------------------------------------------------------------
(* The authority's identity.                                               *)

\* rotate_key, then update_identity at the authority.
Rotate ==
  /\ history < MaxRotations
  /\ history' = history + 1
  /\ known' = [known EXCEPT !["authority"] = history + 1]
  /\ UNCHANGED <<now, madeKeys, secrets, purpose, issued, cache, call, attributes,
                 trusted, answer>>

\* A handshake with the authority: verify_identity stores a newer history.
Learn(n) ==
  /\ n # "authority" /\ known[n] < known["authority"]
  /\ known' = [known EXCEPT ![n] = known["authority"]]
  /\ UNCHANGED <<now, history, madeKeys, secrets, purpose, issued, cache, call,
                 attributes, trusted, answer>>

Tick ==
  /\ now < MaxTime
  /\ now' = now + 1
  /\ UNCHANGED <<history, known, madeKeys, secrets, purpose, issued, cache, call,
                 attributes, trusted, answer>>

\* The authority restarts: its purpose keys are in memory, its identity is not.
Restart ==
  /\ secrets # {}
  /\ secrets' = {} /\ purpose' = NoAttestation
  /\ UNCHANGED <<now, history, known, madeKeys, issued, cache, call, attributes,
                 trusted, answer>>

Init ==
  /\ now = 0 /\ history = 1
  /\ known = [n \in Nodes |-> IF n = "authority" THEN 1 ELSE 0]
  /\ madeKeys = 0 /\ secrets = {} /\ purpose = NoAttestation
  /\ issued = [s \in Subjects |-> NoCredential]
  /\ cache = [m \in Members |-> NoCredential]
  /\ call = [m \in Members |-> [at |-> None, mutual |-> FALSE,
                                credential |-> NoCredential, back |-> NoCredential]]
  /\ attributes = [m \in Members |-> NoEntry]
  /\ trusted = [m \in Members |-> NoEntry]
  /\ answer = [m \in Members |-> None]

Next ==
  \/ CreatePurposeKey \/ Rotate \/ Tick \/ Restart
  \/ \E s \in Members \cup (IF ServerHasOne THEN {"server"} ELSE {}) : Issue(s)
  \/ \E n \in Nodes : Learn(n)
  \/ \E m \in Members :
       \/ RequestCredential(m) \/ Handle(m) \/ Return(m) \/ ReadAttributes(m)
       \/ \E mutual \in BOOLEAN : Present(m, mutual)

Spec == Init /\ [][Next]_vars
             /\ \A m \in Members : WF_vars(Handle(m)) /\ WF_vars(Return(m))

-----------------------------------------------------------------------------
(* Properties *)

\* Times and keys stay in range, and a stored attestation has its secret.
TypeOK ==
  /\ now \in 0..MaxTime /\ history \in 1..MaxRotations
  /\ \A n \in Nodes : known[n] \in 0..history
  /\ purpose # NoAttestation => purpose.key \in secrets
  /\ \A m \in Members : call[m].at \in {None, "sent", "ok", "refused"}

\* An entry at the server, whoever presented what and when, is covered by a
\* purpose key all its life: it ends no later than some credential issued to
\* that member, and that one no later than its attestation.
AttributesVouched ==
  \A m \in Members : attributes[m] # NoEntry =>
     issued[m].subject = m /\ attributes[m].expires <= issued[m].by.expires

\* The credential a member caches and presents is its own, and was valid when
\* cached: the cache is never newer than what was issued.
CacheIsOwn ==
  \A m \in Members : cache[m] # NoCredential =>
     cache[m].subject = m /\ cache[m].created <= issued[m].created

\* While the authority's identity key and purpose key last, a credential that
\* it issues verifies at once at every node that has its current history.
IssuedVerifiesStep ==
  \A s \in Subjects :
    issued'[s] # issued[s] /\ issued'[s].expires <= issued'[s].by.expires
      => \A n \in Nodes : known[n] = history => Verifies(n, s, issued'[s])
IssuedVerifies == [][IssuedVerifiesStep]_vars

\* A node that has learnt of a rotation accepts nothing attested before it.
NothingFromOldKeyStep ==
  \A m \in Members :
    attributes'[m] # attributes[m] /\ attributes'[m] # NoEntry
      => call[m].credential.by.signed = known["server"]
NothingFromOldKey == [][NothingFromOldKeyStep]_vars

\* A call that was sent returns, whatever the server makes of it.
Presenting(m) == call[m].at = "sent"
Presented(m) == call[m].at = None
PresentReturns == \A m \in Members : Presenting(m) ~> Presented(m)

=============================================================================
