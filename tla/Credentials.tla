----------------------------- MODULE Credentials -----------------------------
(***************************************************************************)
(* Credentials between nodes (ockam_identity/src/credentials): a node asks *)
(* the authority for its credential and caches it (AuthorityService), opens *)
(* a secure channel to another node, presents the credential, one way or   *)
(* mutually (CredentialsServer), and the attributes that the other node    *)
(* stored decide what its access controls let through.                     *)
(*                                                                         *)
(* Each identity has a node.  The credentials worker of a node handles one *)
(* message at a time; access controls run in the router, and the storage   *)
(* is shared.                                                              *)
(***************************************************************************)
EXTENDS Naturals, FiniteSets, TLAPS

CONSTANTS Ids,        \* identities, each with its node
          Authority, Foreign, \* the authority of the trust context, and one of another
          None, Life, MaxTime, MaxCreds

ASSUME CredentialsAssumption == None \notin Ids /\ Life \in Nat /\ MaxTime \in Nat

VARIABLES attrs,    \* attributes of each identity at the authority
          issued,   \* credentials that exist
          cache,    \* node -> credential cached by its AuthorityService
          channels, \* pairs of identities with a secure channel between them
          worker,   \* node -> what its credentials worker does
          client,   \* identity -> what it waits for in present_credential_mutual
          store,    \* node -> identity -> attributes stored, or None
          reader,   \* node -> identity whose expired entry is being deleted
          granted,  \* messages let through: node, identity, attributes, time
          now

vars == <<attrs, issued, cache, channels, worker, client, store, reader, granted, now>>

Levels == {1, 2}
Cred == [subject : Ids, issuer : {Authority, Foreign}, level : Levels, expires : 0 .. MaxTime + Life]
Entry(c) == [level |-> c.level, expires |-> c.expires, by |-> c.issuer]
Idle == [at |-> "idle"]

Init == /\ attrs = [i \in Ids |-> 1]
        /\ issued = {} /\ cache = [i \in Ids |-> None]
        /\ channels = {}
        /\ worker = [i \in Ids |-> Idle] /\ client = [i \in Ids |-> None]
        /\ store = [n \in Ids |-> [i \in Ids |-> None]] /\ reader = [n \in Ids |-> None]
        /\ granted = {} /\ now = 0

-----------------------------------------------------------------------------
(* The authorities.                                                        *)

\* The attributes of a member change at the authority
Reattest(i) == /\ attrs[i] = 1 /\ attrs' = [attrs EXCEPT ![i] = 2]
               /\ UNCHANGED <<issued, cache, channels, worker, client, store, reader, granted, now>>

New(i, a) == [subject |-> i, issuer |-> a, level |-> IF a = Authority THEN attrs[i] ELSE 2, expires |-> now + Life]
ForeignIssue(i) == /\ Cardinality(issued) < MaxCreds
                   /\ issued' = issued \cup {New(i, Foreign)}
                   /\ UNCHANGED <<attrs, cache, channels, worker, client, store, reader, granted, now>>

\* Mutant: the subject is not compared with the sender.
ValidForAnyone(c, subject) == c.issuer = Authority /\ c.expires > now

\* CredentialData::verify and the signature of the issuer
Valid(c, subject) == c.issuer = Authority /\ c.subject = subject /\ c.expires > now

\* AuthorityService::credential on node n, for identity i
CacheFresh(n) == cache[n] # None /\ cache[n].expires > now
Credential(n, i) ==
  /\ IF CacheFresh(n) THEN UNCHANGED <<issued, cache>>
     ELSE /\ Cardinality(issued) < MaxCreds
          /\ issued' = issued \cup {New(i, Authority)}
          /\ cache' = [cache EXCEPT ![n] = New(i, Authority)]
  /\ UNCHANGED <<attrs, channels, worker, client, store, reader, granted, now>>

-----------------------------------------------------------------------------
(* Secure channels and presentations.                                      *)

\* The trust policy of a listener accepts everyone; presentation comes after
Connect(i, n) == /\ i # n /\ {i, n} \notin channels
                 /\ channels' = channels \cup {{i, n}}
                 /\ UNCHANGED <<attrs, issued, cache, worker, client, store, reader, granted, now>>

Present(i, n, c, mutual) ==
  /\ {i, n} \in channels /\ worker[n] = Idle
  /\ mutual => client[i] = None
  /\ worker' = [worker EXCEPT ![n] = [at |-> "verify", from |-> i, cred |-> c, mutual |-> mutual]]
  /\ client' = IF mutual THEN [client EXCEPT ![i] = n] ELSE client
  /\ UNCHANGED <<attrs, issued, cache, channels, store, reader, granted, now>>

\* receive_presented_credential: verify, then store
Refused(i, mutual) == client' = IF mutual THEN [client EXCEPT ![i] = None] ELSE client
\* Mutant: a credential that is refused is not answered.
VerifySilent(n) ==
  LET w == worker[n]
  IN /\ w.at = "verify"
     /\ worker' = [worker EXCEPT ![n] = IF Valid(w.cred, w.from) THEN [w EXCEPT !.at = "store"] ELSE Idle]
     /\ UNCHANGED <<client, attrs, issued, cache, channels, store, reader, granted, now>>

Verify(n) ==
  LET w == worker[n]
  IN /\ w.at = "verify"
     /\ IF Valid(w.cred, w.from) THEN worker' = [worker EXCEPT ![n].at = "store"] /\ UNCHANGED client
        ELSE worker' = [worker EXCEPT ![n] = Idle] /\ Refused(w.from, w.mutual)
     /\ UNCHANGED <<attrs, issued, cache, channels, store, reader, granted, now>>

Store(n) ==
  LET w == worker[n]
  IN /\ w.at = "store"
     /\ store' = [store EXCEPT ![n][w.from] = Entry(w.cred)]
     /\ worker' = [worker EXCEPT ![n] = IF w.mutual THEN [at |-> "back", from |-> w.from] ELSE Idle]
     /\ UNCHANGED <<attrs, issued, cache, channels, client, reader, granted, now>>

\* The response carries the credential of the node, if it presents back and can
\* get one; the client verifies and stores it
PresentBack(n) ==
  LET i == worker[n].from
  IN /\ worker[n].at = "back"
     /\ \/ /\ CacheFresh(n) /\ Valid(cache[n], n)
           /\ store' = [store EXCEPT ![i][n] = Entry(cache[n])]
        \/ UNCHANGED store
     /\ worker' = [worker EXCEPT ![n] = Idle] /\ client' = [client EXCEPT ![i] = None]
     /\ UNCHANGED <<attrs, issued, cache, channels, reader, granted, now>>

-----------------------------------------------------------------------------
(* Access controls read the attributes; an entry that has expired is then  *)
(* deleted.  The policy asks for the higher level.                         *)

Expired(e) == e.expires <= now
Access(n, i) ==
  /\ {i, n} \in channels /\ store[n][i] # None /\ reader[n] = None
  /\ IF Expired(store[n][i]) THEN reader' = [reader EXCEPT ![n] = i] /\ UNCHANGED granted
     ELSE /\ store[n][i].level = 2
          /\ granted' = granted \cup {[node |-> n, id |-> i, level |-> 2, at |-> now]}
          /\ UNCHANGED reader
  /\ UNCHANGED <<attrs, issued, cache, channels, worker, client, store, now>>
DeleteExpired(n) == /\ reader[n] # None
                    /\ store' = [store EXCEPT ![n][reader[n]] = None]
                    /\ reader' = [reader EXCEPT ![n] = None]
                    /\ UNCHANGED <<attrs, issued, cache, channels, worker, client, granted, now>>

Tick == /\ now < MaxTime /\ now' = now + 1
        /\ UNCHANGED <<attrs, issued, cache, channels, worker, client, store, reader, granted>>

Next == \/ \E i \in Ids : Reattest(i) \/ ForeignIssue(i) \/ Verify(i) \/ Store(i) \/ PresentBack(i) \/ DeleteExpired(i)
        \/ \E n, i \in Ids : Credential(n, i) \/ Connect(n, i) \/ Access(n, i)
        \/ \E n, i \in Ids, c \in issued, b \in BOOLEAN : Present(i, n, c, b)
        \/ Tick
Spec == Init /\ [][Next]_vars

-----------------------------------------------------------------------------
\* What the credentials worker of a node holds: a credential that is verified,
\* then one that will be stored, then the turn to present back.
Handling == [at : {"verify", "store"}, from : Ids, cred : issued, mutual : BOOLEAN] \cup [at : {"back"}, from : Ids]

\* Types of the stores and the workers.
TypeOK == /\ attrs \in [Ids -> Levels] /\ now \in 0 .. MaxTime
          /\ issued \subseteq Cred /\ cache \in [Ids -> issued \cup {None}]
          /\ worker \in [Ids -> Handling \cup {Idle}]
          /\ client \in [Ids -> Ids \cup {None}]
          /\ store \in [Ids -> [Ids -> {Entry(c) : c \in issued} \cup {None}]]
          /\ reader \in [Ids -> Ids \cup {None}]

\* Access follows credentials: whatever an access control lets through is vouched
\* for by a credential that the authority of the trust context issued to that very
\* identity and that had not expired, also when time passes between the
\* verification, the storage and the access.
AccessVouched == \A g \in granted : \E c \in issued :
                   c.subject = g.id /\ c.issuer = Authority /\ c.level = g.level /\ g.at < c.expires

\* A mutual presentation ends: the client waits only for a worker that is handling
\* its request.
ClientServed == \A i \in Ids : client[i] # None =>
                  worker[client[i]].at \in {"verify", "store", "back"} /\ worker[client[i]].from = i

\* Why access is vouched for: the worker stores a credential after it has compared
\* its subject with the peer of the channel and its issuer with the authority.
Vouches(c, i) == c.subject = i /\ c.issuer = Authority
VouchedInv ==
  /\ AccessVouched
  /\ \A n, i \in Ids : store[n][i] # None => \E c \in issued : Vouches(c, i) /\ store[n][i] = Entry(c)
  /\ \A n \in Ids : worker[n].at = "store" => Vouches(worker[n].cred, worker[n].from)

\* Why a client is served: the worker of the node that it waits for handles its
\* request as a mutual one.
ServedInv ==
  \A i \in Ids : client[i] # None =>
    /\ worker[client[i]] # Idle /\ worker[client[i]].from = i
    /\ worker[client[i]].at = "back" \/ worker[client[i]].mutual

\* The invariant of the presentation of credentials.
CredentialsInv == TypeOK /\ VouchedInv /\ ServedInv


-----------------------------------------------------------------------------
(* Proofs, for any identities, lifetime of credentials and number of them.  *)

\* A new credential is one, whoever issues it.
LEMMA NewCred ==
  ASSUME TypeOK, NEW i \in Ids, NEW a \in {Authority, Foreign}
  PROVE  New(i, a) \in Cred
<1>1. now + Life \in 0 .. MaxTime + Life /\ attrs[i] \in Levels /\ 2 \in Levels
  BY CredentialsAssumption DEF TypeOK, Levels
<1> QED BY <1>1 DEF New, Cred

\* Credentials are only added, so nothing that rests on one is disturbed.
LEMMA IssueKeeps ==
  ASSUME CredentialsInv, issued \subseteq issued', issued' \subseteq Cred,
         cache' \in [Ids -> issued' \cup {None}], attrs' \in [Ids -> Levels], now' \in 0 .. MaxTime,
         UNCHANGED <<worker, client, store, reader, granted>>
  PROVE  CredentialsInv'
<1>1. TypeOK'
  <2>1. Handling \subseteq Handling'
    BY DEF Handling
  <2>2. {Entry(c) : c \in issued} \subseteq {Entry(c) : c \in issued'}
    OBVIOUS
  <2>3. \A n \in Ids : store[n] \in [Ids -> {Entry(c) : c \in issued'} \cup {None}]
    BY <2>2 DEF CredentialsInv, TypeOK
  <2>4. store \in [Ids -> [Ids -> {Entry(c) : c \in issued'} \cup {None}]]
    BY <2>3 DEF CredentialsInv, TypeOK
  <2>5. worker \in [Ids -> Handling' \cup {Idle}]
    BY <2>1 DEF CredentialsInv, TypeOK
  <2>6. Idle' = Idle /\ {Entry(c) : c \in issued'} = {Entry(c) : c \in issued}'
    BY DEF Idle, Entry
  <2> QED BY <2>4, <2>5, <2>6 DEF CredentialsInv, TypeOK
<1>2. VouchedInv'
  BY ZenonT(60) DEF CredentialsInv, VouchedInv, AccessVouched, Vouches, Entry
<1>3. ServedInv'
  BY DEF CredentialsInv, ServedInv, Idle
<1> QED BY <1>1, <1>2, <1>3 DEF CredentialsInv

\* Types of the workers, one by one.
LEMMA WorkerType ==
  ASSUME CredentialsInv, NEW n \in Ids
  PROVE  /\ worker[n].at \in {"idle", "verify", "store", "back"}
         /\ worker[n] # Idle => worker[n].from \in Ids
         /\ worker[n].at \in {"verify", "store"} =>
              worker[n] \in [at : {"verify", "store"}, from : Ids, cred : issued, mutual : BOOLEAN]
         /\ worker[n].at = "idle" <=> worker[n] = Idle
BY DEF CredentialsInv, TypeOK, Handling, Idle

LEMMA PresentKeeps ==
  ASSUME CredentialsInv, NEW i \in Ids, NEW n \in Ids, NEW c \in issued, NEW b \in BOOLEAN, Present(i, n, c, b)
  PROVE  CredentialsInv'
<1> DEFINE w == [at |-> "verify", from |-> i, cred |-> c, mutual |-> b]
<1>1. w \in Handling /\ w.at = "verify" /\ w.from = i /\ w.mutual = b /\ w # Idle
  BY DEF Handling, Idle
<1>2. worker[n] = Idle /\ worker' = [worker EXCEPT ![n] = w] /\ (b => client[i] = None)
      /\ client' = (IF b THEN [client EXCEPT ![i] = n] ELSE client)
      /\ UNCHANGED <<attrs, issued, cache, store, reader, granted, now>>
  BY DEF Present
<1> HIDE DEF w
<1>3. TypeOK'
  <2>1. Handling' = Handling /\ Idle' = Idle /\ {Entry(x) : x \in issued}' = {Entry(x) : x \in issued}
    BY <1>2 DEF Handling, Idle, Entry
  <2> QED BY <1>1, <1>2, <2>1 DEF CredentialsInv, TypeOK
<1>4. VouchedInv'
  BY ZenonT(60), <1>1, <1>2 DEF CredentialsInv, TypeOK, VouchedInv, AccessVouched, Vouches, Entry
<1>5. ServedInv'
  BY <1>1, <1>2 DEF CredentialsInv, TypeOK, ServedInv, Idle
<1> QED BY <1>3, <1>4, <1>5 DEF CredentialsInv

\* Only a credential of the authority that names the peer gets past verification;
\* a client that is refused waits no more.
LEMMA VerifyKeeps ==
  ASSUME CredentialsInv, NEW n \in Ids, Verify(n)
  PROVE  CredentialsInv'
<1> DEFINE w == worker[n]
<1>1. /\ w \in [at : {"verify", "store"}, from : Ids, cred : issued, mutual : BOOLEAN] /\ w.at = "verify"
      /\ UNCHANGED <<attrs, issued, cache, store, reader, granted, now>>
  BY WorkerType DEF Verify
<1>2. Handling' = Handling /\ Idle' = Idle /\ {Entry(x) : x \in issued}' = {Entry(x) : x \in issued}
  BY <1>1 DEF Handling, Idle, Entry
<1>3. CASE Valid(w.cred, w.from)
  <2> DEFINE v == [w EXCEPT !.at = "store"]
  <2>1. v \in Handling /\ v # Idle /\ v.at = "store" /\ v.from = w.from /\ v.cred = w.cred /\ v.mutual = w.mutual
    BY <1>1 DEF Handling, Idle
  <2>2. worker' = [worker EXCEPT ![n] = v] /\ UNCHANGED client
    BY <1>3 DEF Verify
  <2>3. Vouches(v.cred, v.from)
    BY <1>3, <2>1 DEF Valid, Vouches
  <2> HIDE DEF v
  <2>4. TypeOK'
    BY <1>1, <1>2, <2>1, <2>2 DEF CredentialsInv, TypeOK
  <2>5. VouchedInv'
    <3>1. \A m \in Ids : worker'[m].at = "store" => worker'[m] = worker[m] \/ worker'[m] = v
      BY <2>2 DEF CredentialsInv, TypeOK
    <3> QED BY <1>1, <2>3, <3>1 DEF CredentialsInv, VouchedInv, AccessVouched, Vouches, Entry
  <2>6. ServedInv'
    BY ZenonT(60), <1>1, <1>2, <2>1, <2>2 DEF CredentialsInv, TypeOK, ServedInv
  <2> QED BY <2>4, <2>5, <2>6 DEF CredentialsInv
<1>4. CASE ~Valid(w.cred, w.from)
  <2>1. /\ worker' = [worker EXCEPT ![n] = Idle]
        /\ client' = IF w.mutual THEN [client EXCEPT ![w.from] = None] ELSE client
    BY <1>4 DEF Verify, Refused
  <2>2. TypeOK'
    BY <1>1, <1>2, <2>1 DEF CredentialsInv, TypeOK
  <2>3. VouchedInv'
    <3>1. \A m \in Ids : worker'[m].at = "store" => worker'[m] = worker[m]
      BY <2>1 DEF CredentialsInv, TypeOK, Idle
    <3> QED BY ZenonT(60), <1>1, <3>1 DEF CredentialsInv, VouchedInv, AccessVouched, Vouches, Entry
  <2>4. ServedInv'
    <3>1. \A i \in Ids : client'[i] # None => client[i] = client'[i] /\ client[i] # n
      BY <1>1, <2>1 DEF CredentialsInv, TypeOK, ServedInv
    <3> QED BY <1>2, <2>1, <3>1 DEF CredentialsInv, TypeOK, ServedInv
  <2> QED BY <2>2, <2>3, <2>4 DEF CredentialsInv
<1> QED BY <1>3, <1>4

\* What is stored for the peer is the credential that was verified.
LEMMA StoreKeeps ==
  ASSUME CredentialsInv, NEW n \in Ids, Store(n)
  PROVE  CredentialsInv'
<1> DEFINE w == worker[n]
           e == Entry(w.cred)
           v == IF w.mutual THEN [at |-> "back", from |-> w.from] ELSE Idle
<1>1. /\ w \in [at : {"verify", "store"}, from : Ids, cred : issued, mutual : BOOLEAN] /\ w.at = "store"
      /\ UNCHANGED <<attrs, issued, cache, client, reader, granted, now>>
      /\ Vouches(w.cred, w.from)
  BY WorkerType DEF Store, CredentialsInv, VouchedInv
<1>2. Handling' = Handling /\ Idle' = Idle /\ {Entry(x) : x \in issued}' = {Entry(x) : x \in issued}
  BY <1>1 DEF Handling, Idle, Entry
<1>3. /\ worker' = [worker EXCEPT ![n] = v] /\ store' = [store EXCEPT ![n][w.from] = e]
      /\ w.cred \in issued /\ w.from \in Ids
  BY <1>1 DEF Store
<1>4. /\ v \in Handling \cup {Idle} /\ v.at # "store"
      /\ w.mutual => v # Idle /\ v.from = w.from /\ v.at = "back"
  BY <1>1 DEF Handling, Idle
<1>5. e \in {Entry(x) : x \in issued}
  BY <1>3
<1>6. ServedInv'
  <2> HIDE DEF v
  <2> QED BY <1>1, <1>2, <1>3, <1>4 DEF CredentialsInv, TypeOK, ServedInv
<1> HIDE DEF v, e
<1>7. TypeOK'
  BY <1>1, <1>2, <1>3, <1>4, <1>5 DEF CredentialsInv, TypeOK
<1>8. VouchedInv'
  <2>1. \A m, i \in Ids : store'[m][i] = store[m][i] \/ (i = w.from /\ store'[m][i] = e)
    BY <1>1, <1>3 DEF CredentialsInv, TypeOK
  <2>2. \A m \in Ids : worker'[m].at = "store" => worker'[m] = worker[m]
    BY <1>3, <1>4 DEF CredentialsInv, TypeOK
  <2>3. \A m, i \in Ids : store'[m][i] # None => \E c \in issued : Vouches(c, i) /\ store'[m][i] = Entry(c)
    BY <1>1, <1>3, <2>1 DEF CredentialsInv, VouchedInv, e
  <2> QED BY <1>1, <2>2, <2>3 DEF CredentialsInv, VouchedInv, AccessVouched, Vouches, Entry
<1> QED BY <1>6, <1>7, <1>8 DEF CredentialsInv

\* The client stores the credential that the node presents back, or none.
LEMMA BackKeeps ==
  ASSUME CredentialsInv, NEW n \in Ids, PresentBack(n)
  PROVE  CredentialsInv'
<1> DEFINE i == worker[n].from
           e == Entry(cache[n])
<1>1. /\ i \in Ids /\ UNCHANGED <<attrs, issued, cache, reader, granted, now>>
      /\ worker' = [worker EXCEPT ![n] = Idle] /\ client' = [client EXCEPT ![i] = None]
  BY WorkerType DEF PresentBack, Idle
<1>2. Handling' = Handling /\ Idle' = Idle /\ {Entry(x) : x \in issued}' = {Entry(x) : x \in issued}
  BY <1>1 DEF Handling, Idle, Entry
<1>3. \/ cache[n] \in issued /\ Vouches(cache[n], n) /\ store' = [store EXCEPT ![i][n] = e]
      \/ UNCHANGED store
  BY DEF PresentBack, CacheFresh, Valid, Vouches, CredentialsInv, TypeOK
<1>4. \A m \in Ids : worker'[m].at = "store" => worker'[m] = worker[m]
  BY <1>1 DEF CredentialsInv, TypeOK, Idle
<1>5. ServedInv'
  <2>1. \A j \in Ids : client'[j] # None => client[j] = client'[j] /\ client[j] # n
    BY <1>1 DEF CredentialsInv, TypeOK, ServedInv
  <2> QED BY <1>1, <1>2, <2>1 DEF CredentialsInv, TypeOK, ServedInv
<1>6. store' \in [Ids -> [Ids -> {Entry(x) : x \in issued} \cup {None}]]
  <2>1. cache[n] \in issued => e \in {Entry(x) : x \in issued}
    OBVIOUS
  <2> HIDE DEF e, i
  <2>2. CASE cache[n] \in issued /\ store' = [store EXCEPT ![i][n] = e]
    BY Zenon, <1>1, <2>1, <2>2 DEF CredentialsInv, TypeOK
  <2> QED BY <1>3, <2>2 DEF CredentialsInv, TypeOK
<1>7. \A m, j \in Ids : store'[m][j] # None => \E c \in issued : Vouches(c, j) /\ store'[m][j] = Entry(c)
  <2>1. \A m, j \in Ids : store'[m][j] = store[m][j]
                          \/ (j = n /\ cache[n] \in issued /\ Vouches(cache[n], n) /\ store'[m][j] = e)
    <3> HIDE DEF e
    <3> QED BY <1>1, <1>3 DEF CredentialsInv, TypeOK
  <2> QED BY <2>1 DEF CredentialsInv, VouchedInv
<1> HIDE DEF i, e
<1>8. TypeOK'
  BY Zenon, <1>1, <1>2, <1>6 DEF CredentialsInv, TypeOK
<1>9. VouchedInv'
  BY <1>1, <1>4, <1>7 DEF CredentialsInv, VouchedInv, AccessVouched, Vouches, Entry
<1> QED BY <1>5, <1>8, <1>9 DEF CredentialsInv

\* An access control grants what an entry says that has not expired, and deletes one
\* that has.
LEMMA AccessKeeps ==
  ASSUME CredentialsInv, NEW n \in Ids, (\E i \in Ids : Access(n, i)) \/ DeleteExpired(n)
  PROVE  CredentialsInv'
<1>1. /\ UNCHANGED <<attrs, issued, cache, worker, client, now>>
      /\ reader' \in [Ids -> Ids \cup {None}]
      /\ store' = store \/ (reader[n] \in Ids /\ store' = [store EXCEPT ![n][reader[n]] = None])
  BY ZenonT(60) DEF Access, DeleteExpired, CredentialsInv, TypeOK
<1>6. /\ store' \in [Ids -> [Ids -> {Entry(x) : x \in issued} \cup {None}]]
      /\ \A m, j \in Ids : store'[m][j] \in {store[m][j], None}
  <2>1. CASE store' = [store EXCEPT ![n][reader[n]] = None] /\ reader[n] \in Ids
    BY <2>1 DEF CredentialsInv, TypeOK
  <2> QED BY <1>1, <2>1 DEF CredentialsInv, TypeOK
<1>2. Handling' = Handling /\ Idle' = Idle /\ {Entry(x) : x \in issued}' = {Entry(x) : x \in issued}
  BY <1>1 DEF Handling, Idle, Entry
<1>3. AccessVouched'
  <2>1. ASSUME NEW i \in Ids, Access(n, i) PROVE AccessVouched'
    <3> DEFINE g == [node |-> n, id |-> i, level |-> 2, at |-> now]
    <3>1. \/ granted' = granted
          \/ granted' = granted \cup {g} /\ store[n][i] # None /\ ~Expired(store[n][i]) /\ store[n][i].level = 2
      BY <2>1 DEF Access
    <3>2. CASE granted' = granted
      BY <1>1, <3>2 DEF CredentialsInv, VouchedInv, AccessVouched
    <3>3. CASE granted' = granted \cup {g} /\ store[n][i] # None /\ ~Expired(store[n][i]) /\ store[n][i].level = 2
      <4>1. PICK c \in issued : Vouches(c, i) /\ store[n][i] = Entry(c)
        BY <3>3 DEF CredentialsInv, VouchedInv
      <4>2. c.level = 2 /\ ~ (c.expires <= now)
        BY <3>3, <4>1 DEF Entry, Expired
      <4>3. c.expires \in Nat /\ now \in Nat
        BY CredentialsAssumption DEF CredentialsInv, TypeOK, Cred
      <4>4. now < c.expires
        BY <4>2, <4>3
      <4>5. g.id = i /\ g.level = 2 /\ g.at = now
        OBVIOUS
      <4> HIDE DEF g
      <4> QED BY <1>1, <3>3, <4>1, <4>2, <4>4, <4>5 DEF CredentialsInv, VouchedInv, AccessVouched, Vouches
    <3> QED BY <3>1, <3>2, <3>3
  <2>2. CASE DeleteExpired(n)
    BY <2>2 DEF DeleteExpired, CredentialsInv, VouchedInv, AccessVouched
  <2> QED BY <2>1, <2>2
<1>4. TypeOK'
  BY <1>1, <1>2, <1>6 DEF CredentialsInv, TypeOK
<1>5. VouchedInv'
  BY <1>1, <1>3, <1>6 DEF CredentialsInv, VouchedInv, Vouches, Entry
<1>7. ServedInv'
  BY <1>1, <1>2 DEF CredentialsInv, ServedInv
<1> QED BY <1>4, <1>5, <1>7 DEF CredentialsInv

\* The invariant holds whatever nodes present to each other, and however long
\* verification, storage and access take.
THEOREM CredentialsInvariance == Spec => []CredentialsInv
<1>1. Init => CredentialsInv
  <2> SUFFICES ASSUME Init PROVE CredentialsInv
    OBVIOUS
  <2>1. TypeOK
    BY CredentialsAssumption DEF Init, TypeOK, Levels
  <2>2. VouchedInv /\ ServedInv
    BY DEF Init, VouchedInv, AccessVouched, ServedInv, Idle
  <2> QED BY <2>1, <2>2 DEF CredentialsInv
<1>2. CredentialsInv /\ [Next]_vars => CredentialsInv'
  <2> SUFFICES ASSUME CredentialsInv, [Next]_vars PROVE CredentialsInv'
    OBVIOUS
  <2> USE DEF CredentialsInv, TypeOK
  <2>1. ASSUME NEW i \in Ids, Reattest(i) \/ ForeignIssue(i) PROVE CredentialsInv'
    BY <2>1, NewCred, IssueKeeps DEF Reattest, ForeignIssue, Levels
  <2>2. ASSUME NEW n \in Ids, NEW i \in Ids, Credential(n, i) PROVE CredentialsInv'
    <3>1. New(i, Authority) \in Cred
      BY Zenon, NewCred
    <3> QED BY <2>2, <3>1, IssueKeeps DEF Credential
  <2>3. ASSUME NEW n \in Ids, NEW i \in Ids, Connect(n, i) PROVE CredentialsInv'
    BY <2>3, IssueKeeps DEF Connect
  <2>4. CASE Tick
    <3>1. now' \in 0 .. MaxTime
      BY <2>4, CredentialsAssumption DEF Tick
    <3> QED BY <2>4, <3>1, IssueKeeps DEF Tick
  <2>5. CASE UNCHANGED vars
    BY <2>5, IssueKeeps DEF vars
  <2> QED BY Zenon, <2>1, <2>2, <2>3, <2>4, <2>5, PresentKeeps, VerifyKeeps, StoreKeeps, BackKeeps, AccessKeeps DEF Next
<1> QED BY <1>1, <1>2, PTL DEF Spec

\* Whatever an access control lets through is vouched for by a credential of the
\* authority for that identity which had not expired (receive_presented_credential).
THEOREM AccessAlwaysVouched == Spec => []AccessVouched
<1>1. CredentialsInv => AccessVouched
  BY DEF CredentialsInv, VouchedInv
<1> QED BY <1>1, CredentialsInvariance, PTL

\* A client of present_credential_mutual waits only while a worker handles its request.
THEOREM ClientsServed == Spec => []ClientServed
<1>1. CredentialsInv => ClientServed
  <2> SUFFICES ASSUME CredentialsInv, NEW i \in Ids, client[i] # None
               PROVE  worker[client[i]].at \in {"verify", "store", "back"} /\ worker[client[i]].from = i
    BY DEF ClientServed
  <2>1. client[i] \in Ids
    BY DEF CredentialsInv, TypeOK
  <2> QED BY <2>1, WorkerType DEF CredentialsInv, ServedInv
<1> QED BY <1>1, CredentialsInvariance, PTL

=============================================================================
