--------------------------- MODULE AuthorityProofs ---------------------------
(***************************************************************************)
(* Proofs about the authority node, for any identities, any size of the    *)
(* token cache, any duration of tokens and any number of requests.         *)
(***************************************************************************)
EXTENDS Authority, FiniteSetTheorems, WellFoundedInduction, TLAPS

\* A set of tokens that is not empty has an oldest one, which the cache evicts.
LEMMA OldestToken ==
  ASSUME NEW S, S \subseteq Token, S # {}
  PROVE  \E t \in S : \A u \in S : t.code <= u.code
<1> DEFINE C == {t.code : t \in S}
<1>1. C \subseteq Nat /\ C # {}
  BY DEF Token
<1>2. PICK c \in C : \A d \in C : ~ (<<d, c>> \in OpToRel(<, Nat))
  <2> HIDE DEF C
  <2> QED BY Zenon, <1>1, NatLessThanWellFounded, WFMin
<1>3. ASSUME NEW d \in C PROVE c <= d
  <2>1. c \in Nat /\ d \in Nat
    BY <1>1
  <2> HIDE DEF C
  <2>2. <<d, c>> \notin OpToRel(<, Nat)
    BY Zenon, <1>2
  <2>3. d < c => <<d, c>> \in OpToRel(<, Nat)
    BY <2>1 DEF OpToRel
  <2>4. ~ (d < c)
    BY <2>2, <2>3, Zenon
  <2> QED BY <2>1, <2>4
<1>4. PICK t \in S : t.code = c
  BY DEF C
<1> QED BY <1>3, <1>4 DEF C

\* Cached keeps the cache finite and within its size, and adds nothing.
LEMMA CachedFits ==
  ASSUME NEW S, S \subseteq Token, IsFiniteSet(S), Cardinality(S) <= Cap, NEW t \in Token
  PROVE  /\ Cached(S \cup {t}) \subseteq S \cup {t}
         /\ IsFiniteSet(Cached(S \cup {t})) /\ Cardinality(Cached(S \cup {t})) <= Cap
<1> DEFINE T == S \cup {t}
<1>1. IsFiniteSet(T) /\ Cardinality(T) \in Nat /\ Cardinality(S) \in Nat
  BY FS_AddElement, FS_CardinalityType
<1>4. Cardinality(T) <= Cap + 1
  BY <1>1, FS_AddElement, AuthorityAssumption
<1>2. CASE Cardinality(T) > Cap
  <2> DEFINE o == CHOOSE x \in T : \A u \in T : x.code <= u.code
  <2>1. o \in T
    BY OldestToken
  <2>2. Cached(T) = T \ {o}
    BY <1>2 DEF Cached
  <2> HIDE DEF o, T
  <2>3. IsFiniteSet(T \ {o}) /\ Cardinality(T \ {o}) = Cardinality(T) - 1
    BY <1>1, <2>1, FS_RemoveElement
  <2>4. Cardinality(T) - 1 <= Cap
    BY <1>1, <1>4, AuthorityAssumption
  <2>5. Cached(T) \subseteq T /\ IsFiniteSet(Cached(T)) /\ Cardinality(Cached(T)) <= Cap
    BY <2>2, <2>3, <2>4
  <2> QED BY <2>5 DEF T
<1>3. CASE ~ (Cardinality(T) > Cap)
  BY <1>1, <1>3, AuthorityAssumption DEF Cached
<1> QED BY <1>2, <1>3

-----------------------------------------------------------------------------
(* A request that the access policy lets in.                               *)

\* Only enrollers get past the policy of the direct authenticator and of the
\* token issuer.
LEMMA EnrollersOnly ==
  ASSUME AuthorityInv, NEW s \in {"direct", "issuer"}, NEW i \in Ids, Authorized(s, i)
  PROVE  i \in ever
BY DEF AuthorityInv, RootedInv, Authorized, GetAttributes, Bootstrapped

\* The router puts a request that may pass into the idle worker of its service.
LEMMA AskKeeps ==
  ASSUME AuthorityInv, NEW s \in Services, NEW req \in Message, req.from \in Ids, Ask(s, req),
         legacy' \in Message, legacy' # Idle => legacy'.from \in Ids, s = "acceptor" => req.op # "enroll"
  PROVE  AuthorityInv'
<1> USE DEF AuthorityInv, Ask
<1>1. TypeOK'
  BY DEF TypeOK
<1>2. RootedInv'
  <2>1. s \in {"direct", "issuer"} => req.from \in ever
    BY EnrollersOnly
  <2> QED BY <2>1 DEF RootedInv, RootedInEnrollers, TypeOK, Services
<1>3. OneTimeInv' /\ OwnTrustContext'
  BY DEF OneTimeInv, OneTime, OwnTrustContext
<1> QED BY <1>1, <1>2, <1>3

LEMMA IdleMessage == Idle \in Message
BY DEF Idle, Message, Roles

\* Requests of every kind, also those of the converter for old clients.
LEMMA RequestKeeps ==
  ASSUME AuthorityInv, Request \/ LegacyPresent \/ LegacyAsk
  PROVE  AuthorityInv'
<1> USE IdleMessage
<1>1. ASSUME NEW i \in Ids, UNCHANGED legacy,
             NEW j \in Ids, NEW r \in Roles, NEW t \in {"own", "other"},
             Ask("direct", [Idle EXCEPT !.op = "add", !.from = i, !.arg = j, !.role = r, !.tc = t])
      PROVE  AuthorityInv'
  <2> DEFINE req == [Idle EXCEPT !.op = "add", !.from = i, !.arg = j, !.role = r, !.tc = t]
  <2>1. req \in Message /\ req.from \in Ids
    BY Zenon DEF Idle, Message, Roles
  <2>2. legacy' \in Message /\ (legacy' # Idle => legacy'.from \in Ids)
    BY <1>1 DEF AuthorityInv, TypeOK
  <2> HIDE DEF req
  <2> QED BY Zenon, <1>1, <2>1, <2>2, AskKeeps DEF Services, req
<1>2. ASSUME NEW i \in Ids, UNCHANGED legacy, NEW j \in Ids,
             Ask("direct", [Idle EXCEPT !.op = "delete", !.from = i, !.arg = j])
      PROVE  AuthorityInv'
  <2> DEFINE req == [Idle EXCEPT !.op = "delete", !.from = i, !.arg = j]
  <2>1. req \in Message /\ req.from \in Ids
    BY Zenon DEF Idle, Message, Roles
  <2>2. legacy' \in Message /\ (legacy' # Idle => legacy'.from \in Ids)
    BY <1>2 DEF AuthorityInv, TypeOK
  <2> HIDE DEF req
  <2> QED BY Zenon, <1>2, <2>1, <2>2, AskKeeps DEF Services, req
<1>3. ASSUME NEW i \in Ids, UNCHANGED legacy, NEW r \in Roles,
             Ask("issuer", [Idle EXCEPT !.op = "issue", !.from = i, !.role = r])
      PROVE  AuthorityInv'
  <2> DEFINE req == [Idle EXCEPT !.op = "issue", !.from = i, !.role = r]
  <2>1. req \in Message /\ req.from \in Ids
    BY Zenon DEF Idle, Message, Roles
  <2>2. legacy' \in Message /\ (legacy' # Idle => legacy'.from \in Ids)
    BY <1>3 DEF AuthorityInv, TypeOK
  <2> HIDE DEF req
  <2> QED BY Zenon, <1>3, <2>1, <2>2, AskKeeps DEF Services, req
<1>4. ASSUME NEW i \in Ids, NEW c \in 1 .. codes,
             Ask("acceptor", [Idle EXCEPT !.op = "present", !.from = i, !.code = c]),
             legacy' \in Message, legacy' # Idle => legacy'.from \in Ids
      PROVE  AuthorityInv'
  <2> DEFINE req == [Idle EXCEPT !.op = "present", !.from = i, !.code = c]
  <2>1. c \in Nat
    BY DEF AuthorityInv, TypeOK
  <2>2. req \in Message /\ req.from \in Ids /\ req.op # "enroll"
    BY Zenon, <2>1 DEF Idle, Message, Roles
  <2> HIDE DEF req
  <2> QED BY Zenon, <1>4, <2>2, AskKeeps DEF Services, req
<1>5. ASSUME NEW i \in Ids, UNCHANGED legacy, NEW r \in Roles,
             Ask("okta", [Idle EXCEPT !.op = "enroll", !.from = i, !.role = r])
      PROVE  AuthorityInv'
  <2> DEFINE req == [Idle EXCEPT !.op = "enroll", !.from = i, !.role = r]
  <2>1. req \in Message /\ req.from \in Ids
    BY Zenon DEF Idle, Message, Roles
  <2>2. legacy' \in Message /\ (legacy' # Idle => legacy'.from \in Ids)
    BY <1>5 DEF AuthorityInv, TypeOK
  <2> HIDE DEF req
  <2> QED BY Zenon, <1>5, <2>1, <2>2, AskKeeps DEF Services, req
<1>6. ASSUME NEW i \in Ids, Ask("credential", [Idle EXCEPT !.op = "credential", !.from = i]),
             legacy' \in Message, legacy' # Idle => legacy'.from \in Ids
      PROVE  AuthorityInv'
  <2> DEFINE req == [Idle EXCEPT !.op = "credential", !.from = i]
  <2>1. req \in Message /\ req.from \in Ids
    BY Zenon DEF Idle, Message, Roles
  <2> HIDE DEF req
  <2> QED BY Zenon, <1>6, <2>1, AskKeeps DEF Services, req
<1>7. CASE Request
  BY Zenon, <1>1, <1>2, <1>3, <1>4, <1>5, <1>6, <1>7 DEF Request, AuthorityInv, TypeOK
<1>8. CASE LegacyPresent
  <2>1. ASSUME NEW i \in Ids, legacy' = [Idle EXCEPT !.op = "wait", !.from = i]
        PROVE  legacy' \in Message /\ legacy'.from \in Ids
    BY Zenon, <2>1 DEF Idle, Message, Roles
  <2> QED BY Zenon, <1>4, <1>8, <2>1 DEF LegacyPresent
<1>9. CASE LegacyAsk
  BY Zenon, <1>6, <1>9 DEF LegacyAsk, AuthorityInv, TypeOK
<1> QED BY <1>7, <1>8, <1>9

-----------------------------------------------------------------------------
(* The handlers.                                                           *)

\* A worker that answers waits for its next message.
LEMMA ReplyKeeps ==
  ASSUME AuthorityInv, NEW s \in Services, Reply(s)
  PROVE  /\ work' \in [Services -> Message]
         /\ \A z \in Services : work'[z] = IF z = s THEN Idle ELSE work[z]
         /\ work'[s].op = "none"
BY IdleMessage DEF AuthorityInv, TypeOK, Reply, Idle

\* What the direct authenticator, the acceptor and Okta write keeps the storage
\* typed and rooted when an enroller, or Okta, attests it.
LEMMA PutKeeps ==
  ASSUME AuthorityInv, NEW i \in Ids \cup {None}, NEW r \in Roles, NEW b \in ever \cup {None},
         PutAttributes(i, Attested(r, b)) \/ UNCHANGED repo, Remember
  PROVE  /\ repo' \in [Ids -> Entry \cup {None}]
         /\ ever \subseteq ever' /\ ever' \subseteq Ids
         /\ \A j \in Ids : repo'[j] # None =>
              /\ repo'[j].by \in ever' \cup {None} /\ repo'[j].tc = "own"
              /\ repo'[j].role = "enroller" => j \in ever'
<1> DEFINE e == Attested(r, b)
<1>1. e \in Entry /\ e.by = b /\ e.tc = "own" /\ e.role = r
  BY DEF Attested, Entry, AuthorityInv, TypeOK
<1>2. ever \subseteq ever' /\ ever' \subseteq Ids /\ \A j \in Ids : repo'[j] # None /\ repo'[j].role = "enroller" => j \in ever'
  BY DEF Remember, AuthorityInv, TypeOK
<1>3. repo' \in [Ids -> Entry \cup {None}] /\ \A j \in Ids : repo'[j] = repo[j] \/ repo'[j] = e
  <2> HIDE DEF e
  <2> QED BY <1>1 DEF PutAttributes, AuthorityInv, TypeOK, e
<1> HIDE DEF e
<1> QED BY Zenon, <1>1, <1>2, <1>3 DEF AuthorityInv, RootedInv, RootedInEnrollers, OwnTrustContext

\* AddMember and Enroll take the attestation of an enroller, OktaEnroll that of Okta.
LEMMA StoreKeeps ==
  ASSUME AuthorityInv, AddMember \/ Enroll \/ OktaEnroll
  PROVE  AuthorityInv'
<1>1. ASSUME NEW s \in Services, NEW i \in Ids \cup {None}, NEW r \in Roles, NEW b \in ever \cup {None},
             PutAttributes(i, Attested(r, b)) \/ UNCHANGED repo, Remember, Reply(s),
             UNCHANGED <<tokens, codes, creds, redeemed>>, Quiet
      PROVE  AuthorityInv'
  <2>1. /\ repo' \in [Ids -> Entry \cup {None}]
        /\ ever \subseteq ever' /\ ever' \subseteq Ids
        /\ \A j \in Ids : repo'[j] # None =>
             /\ repo'[j].by \in ever' \cup {None} /\ repo'[j].tc = "own"
             /\ repo'[j].role = "enroller" => j \in ever'
    BY <1>1, PutKeeps
  <2>2. /\ work' \in [Services -> Message]
        /\ \A z \in Services : work'[z] = IF z = s THEN Idle ELSE work[z]
        /\ work'[s].op = "none"
    BY <1>1, ReplyKeeps
  <2>3. TypeOK'
    BY Zenon, <1>1, <2>1, <2>2 DEF AuthorityInv, TypeOK, Quiet
  <2>4. RootedInv'
    BY Zenon, <1>1, <2>1, <2>2 DEF AuthorityInv, RootedInv, RootedInEnrollers, Services
  <2>5. OneTimeInv' /\ OwnTrustContext'
    BY <1>1, <2>1 DEF AuthorityInv, OneTimeInv, OneTime, OwnTrustContext
  <2> QED BY <2>3, <2>4, <2>5 DEF AuthorityInv
<1>2. ASSUME NEW s \in Services
      PROVE  work[s].from \in Ids \cup {None} /\ work[s].arg \in Ids \cup {None} /\ work[s].role \in Roles
             /\ work[s].tkn \in Token \cup {None}
  BY DEF AuthorityInv, TypeOK, Message
<1>3. CASE AddMember
  <2>1. work["direct"].from \in ever
    BY <1>3 DEF AddMember, Does, AuthorityInv, RootedInv
  <2> QED BY Zenon, <1>1, <1>2, <1>3, <2>1 DEF AddMember, Services
<1>4. CASE Enroll
  <2>1. work["acceptor"].tkn \in Token /\ work["acceptor"].tkn.by \in ever
    BY <1>2, <1>4 DEF Enroll, Does, AuthorityInv, RootedInv, Services
  <2>2. work["acceptor"].tkn.role \in Roles
    BY Zenon, <2>1 DEF Token
  <2> QED BY Zenon, <1>1, <1>2, <1>4, <2>1, <2>2 DEF Enroll, Services
<1>5. CASE OktaEnroll
  BY Zenon, <1>1, <1>2, <1>5 DEF OktaEnroll, Services
<1> QED BY <1>3, <1>4, <1>5

\* A deletion reads the entry, then removes it; neither adds an attestation.
LEMMA DeleteKeeps ==
  ASSUME AuthorityInv, DeleteCheck \/ DeleteMember
  PROVE  AuthorityInv'
<1>1. work["direct"] \in Message
  BY DEF AuthorityInv, TypeOK, Services
<1>2. /\ work' \in [Services -> Message]
      /\ \A z \in Services \ {"direct"} : work'[z] = work[z]
      /\ work'["direct"].op # "none" => work'["direct"].from = work["direct"].from /\ work["direct"].op # "none"
  <2>1. CASE Reply("direct")
    BY <2>1, ReplyKeeps DEF Services
  <2>2. CASE DeleteCheck /\ work' = [work EXCEPT !["direct"].op = "remove"]
    BY ZenonT(60), <1>1, <2>2 DEF AuthorityInv, TypeOK, Message, DeleteCheck, Does
  <2> QED BY <2>1, <2>2 DEF DeleteCheck, DeleteMember
<1>3. /\ repo' \in [Ids -> Entry \cup {None}] /\ \A j \in Ids : repo'[j] \in {repo[j], None}
      /\ UNCHANGED <<tokens, codes, creds, redeemed, ever>> /\ Quiet
  BY DEF DeleteCheck, DeleteMember, AuthorityInv, TypeOK
<1>4. TypeOK'
  BY <1>2, <1>3 DEF AuthorityInv, TypeOK, Quiet
<1>5. RootedInv'
  BY <1>2, <1>3 DEF AuthorityInv, RootedInv, RootedInEnrollers, Services
<1>6. OneTimeInv' /\ OwnTrustContext'
  BY <1>3 DEF AuthorityInv, OneTimeInv, OneTime, OwnTrustContext
<1> QED BY <1>4, <1>5, <1>6 DEF AuthorityInv

\* The issuer puts a token with a fresh code into the cache; the oldest may leave it.
LEMMA IssueKeeps ==
  ASSUME AuthorityInv, IssueToken
  PROVE  AuthorityInv'
<1> DEFINE t == [code |-> codes + 1, by |-> work["issuer"].from, role |-> work["issuer"].role, born |-> now]
<1>1. work["issuer"].from \in ever /\ work["issuer"] \in Message /\ codes \in Nat /\ now \in Nat
  BY Zenon DEF IssueToken, Does, AuthorityInv, RootedInv, TypeOK, Services
<1>2. t \in Token /\ t.by \in ever /\ t.code = codes + 1
  BY <1>1 DEF Token, Message, AuthorityInv, TypeOK
<1>3. tokens' = Cached(tokens \cup {t}) /\ codes' = codes + 1
  BY DEF IssueToken
<1> HIDE DEF t
<1>4. tokens' \subseteq tokens \cup {t} /\ IsFiniteSet(tokens') /\ Cardinality(tokens') <= Cap
  BY <1>2, <1>3, CachedFits DEF AuthorityInv, TypeOK
<1>5. /\ \A u \in tokens' : u.code \in 1 .. codes'
      /\ \A x \in redeemed : x.code \in 1 .. codes' /\ \A u \in tokens' : u.code # x.code
  <2>1. \A n : n \in 1 .. codes => n \in 1 .. codes + 1 /\ n # codes + 1
    BY <1>1
  <2>2. codes + 1 \in 1 .. codes + 1
    BY <1>1
  <2>3. \A u \in tokens : u.code \in 1 .. codes
    BY DEF AuthorityInv, TypeOK
  <2>4. \A x \in redeemed : x.code \in 1 .. codes /\ \A u \in tokens : u.code # x.code
    BY DEF AuthorityInv, OneTimeInv
  <2> QED BY <1>2, <1>3, <1>4, <2>1, <2>2, <2>3, <2>4, Zenon
<1>6. /\ work' \in [Services -> Message]
      /\ \A z \in Services : work'[z] = IF z = "issuer" THEN Idle ELSE work[z]
      /\ work'["issuer"].op = "none"
  BY ReplyKeeps DEF IssueToken, Services
<1>7. UNCHANGED <<repo, creds, redeemed, ever, legacy, now, requests>>
  BY DEF IssueToken, Quiet
<1>8. TypeOK'
  <2>1. codes' \in Nat
    BY <1>1, <1>3
  <2>3. tokens' \subseteq Token
    BY <1>2, <1>4 DEF AuthorityInv, TypeOK
  <2>2. \A u \in tokens' : u.code \in 1 .. codes'
    BY Zenon, <1>5
  <2> QED BY Zenon, <1>4, <1>6, <1>7, <2>1, <2>2, <2>3 DEF AuthorityInv, TypeOK
<1>9. RootedInv'
  BY <1>2, <1>4, <1>6, <1>7 DEF AuthorityInv, RootedInv, RootedInEnrollers, Services
<1>10. OneTimeInv'
  BY <1>5, <1>7 DEF AuthorityInv, OneTimeInv, OneTime
<1>11. OwnTrustContext'
  BY <1>7 DEF AuthorityInv, OwnTrustContext
<1> QED BY Zenon, <1>8, <1>9, <1>10, <1>11 DEF AuthorityInv

\* The acceptor takes the token out of the cache, and enrolls only when it finds a
\* token that has not expired.
LEMMA AcceptKeeps ==
  ASSUME AuthorityInv, AcceptToken
  PROVE  AuthorityInv'
<1> DEFINE c == work["acceptor"].code
<1>1. tokens' = {t \in tokens : t.code # c} /\ UNCHANGED <<repo, codes, creds, ever, legacy, now, requests>>
  BY DEF AcceptToken, Left, Quiet
<1>2. tokens' \subseteq tokens /\ IsFiniteSet(tokens') /\ Cardinality(tokens') <= Cap
  <2>1. IsFiniteSet(tokens') /\ Cardinality(tokens') <= Cardinality(tokens)
    BY <1>1, FS_Subset DEF AuthorityInv, TypeOK
  <2>2. Cardinality(tokens') \in Nat /\ Cardinality(tokens) \in Nat /\ Cardinality(tokens) <= Cap
    BY <2>1, FS_CardinalityType DEF AuthorityInv, TypeOK
  <2> QED BY <1>1, <2>1, <2>2, AuthorityAssumption
<1>3. OwnTrustContext'
  BY <1>1 DEF AuthorityInv, OwnTrustContext
<1>4. CASE Reply("acceptor") /\ UNCHANGED redeemed
  <2>1. /\ work' \in [Services -> Message]
        /\ \A z \in Services : work'[z] = IF z = "acceptor" THEN Idle ELSE work[z]
        /\ work'["acceptor"].op = "none"
    BY <1>4, ReplyKeeps DEF Services
  <2>2. TypeOK'
    BY Zenon, <1>1, <1>2, <2>1 DEF AuthorityInv, TypeOK
  <2>3. RootedInv'
    BY <1>1, <1>2, <2>1 DEF AuthorityInv, RootedInv, RootedInEnrollers, Services
  <2>4. OneTimeInv'
    BY <1>1, <1>4 DEF AuthorityInv, OneTimeInv, OneTime
  <2> QED BY Zenon, <1>3, <2>2, <2>3, <2>4 DEF AuthorityInv
<1>5. ASSUME NEW t \in tokens, t.code = c, ~Expired(t),
             work' = [work EXCEPT !["acceptor"].op = "enroll", !["acceptor"].tkn = t],
             redeemed' = redeemed \cup {[code |-> c, id |-> work["acceptor"].from, age |-> now - t.born]}
      PROVE  AuthorityInv'
  <2> DEFINE new == [code |-> c, id |-> work["acceptor"].from, age |-> now - t.born]
  <2>1. t \in Token /\ t.by \in ever /\ t.code \in 1 .. codes /\ t # None /\ work["acceptor"] \in Message
    BY AuthorityAssumption DEF AuthorityInv, TypeOK, RootedInv, RootedInEnrollers, Services
  <2>2. /\ work' \in [Services -> Message]
        /\ \A z \in Services \ {"acceptor"} : work'[z] = work[z]
        /\ work'["acceptor"].tkn = t
    BY ZenonT(60), <1>5, <2>1 DEF AuthorityInv, TypeOK, Message, Services
  <2>3. TypeOK'
    BY <1>1, <1>2, <2>2 DEF AuthorityInv, TypeOK
  <2>4. RootedInv'
    BY <1>1, <1>2, <2>1, <2>2 DEF AuthorityInv, RootedInv, RootedInEnrollers, Services
  <2>5. now - t.born <= Ttl
    <3>1. t.born \in Nat /\ now \in Nat
      BY <2>1 DEF Token, AuthorityInv, TypeOK
    <3> QED BY <1>5, <3>1, AuthorityAssumption DEF Expired
  <2>6. new.code = t.code /\ new.age <= Ttl
    BY <1>5, <2>5
  <2>7. redeemed' = redeemed \cup {new}
    BY <1>5
  <2> HIDE DEF new
  <2>8. OneTimeInv'
    BY <1>1, <1>5, <2>1, <2>6, <2>7 DEF AuthorityInv, OneTimeInv, OneTime
  <2> QED BY Zenon, <1>3, <2>3, <2>4, <2>8 DEF AuthorityInv
<1> QED BY <1>4, <1>5 DEF AcceptToken

\* A credential, the clock and a restart attest nothing and accept no token.
LEMMA OthersKeep ==
  ASSUME AuthorityInv, IssueCredential \/ Tick \/ Restart \/ UNCHANGED vars
  PROVE  AuthorityInv'
<1>1. CASE IssueCredential
  <2>1. /\ work' \in [Services -> Message]
        /\ \A z \in Services : work'[z] = IF z = "credential" THEN Idle ELSE work[z]
    BY <1>1, ReplyKeeps DEF IssueCredential, Services
  <2>2. UNCHANGED <<repo, tokens, codes, redeemed, ever, legacy, now, requests>>
    BY <1>1 DEF IssueCredential, Quiet
  <2>3. OwnTrustContext'
    <3>1. \A x \in creds' : x \in creds \/ x.tc = "own"
      BY <1>1 DEF IssueCredential
    <3> QED BY Zenon, <2>2, <3>1 DEF AuthorityInv, OwnTrustContext
  <2>4. TypeOK'
    BY Zenon, <2>1, <2>2 DEF AuthorityInv, TypeOK
  <2>5. RootedInv' /\ OneTimeInv'
    BY Zenon, <2>1, <2>2 DEF AuthorityInv, RootedInv, RootedInEnrollers, OneTimeInv, OneTime, Services
  <2> QED BY Zenon, <2>3, <2>4, <2>5 DEF AuthorityInv
<1>2. CASE Tick
  BY <1>2 DEF Tick, AuthorityInv, TypeOK, RootedInv, RootedInEnrollers, OneTimeInv, OneTime, OwnTrustContext
<1>3. CASE Restart
  <2>1. IsFiniteSet(tokens') /\ Cardinality(tokens') <= Cap
    BY <1>3, FS_EmptySet, AuthorityAssumption DEF Restart
  <2>2. TypeOK'
    BY Zenon, <1>3, <2>1, IdleMessage DEF Restart, AuthorityInv, TypeOK
  <2>3. RootedInv'
    BY <1>3 DEF Restart, Idle, AuthorityInv, RootedInv, RootedInEnrollers, Services
  <2>4. OneTimeInv' /\ OwnTrustContext'
    BY Zenon, <1>3 DEF Restart, AuthorityInv, OneTimeInv, OneTime, OwnTrustContext
  <2> QED BY Zenon, <2>2, <2>3, <2>4 DEF AuthorityInv
<1>4. CASE UNCHANGED vars
  BY <1>4 DEF vars, AuthorityInv, TypeOK, RootedInv, RootedInEnrollers, OneTimeInv, OneTime, OwnTrustContext
<1> QED BY <1>1, <1>2, <1>3, <1>4

-----------------------------------------------------------------------------
(* The theorems.                                                           *)

\* The invariant of the authority holds whatever its services are asked, in
\* whatever order their handlers reach the storage, and across restarts.
THEOREM AuthorityInvariance == Spec => []AuthorityInv
<1>1. Init => AuthorityInv
  <2> SUFFICES ASSUME Init PROVE AuthorityInv
    OBVIOUS
  <2>1. IsFiniteSet(tokens) /\ Cardinality(tokens) <= Cap
    BY FS_EmptySet, AuthorityAssumption DEF Init
  <2>2. TypeOK
    BY Zenon, <2>1, IdleMessage, AuthorityAssumption DEF Init, TypeOK
  <2>3. RootedInv
    BY DEF Init, Idle, RootedInv, RootedInEnrollers, Services
  <2>4. OneTimeInv /\ OwnTrustContext
    BY DEF Init, OneTimeInv, OneTime, OwnTrustContext
  <2> QED BY <2>2, <2>3, <2>4 DEF AuthorityInv
<1>2. AuthorityInv /\ [Next]_vars => AuthorityInv'
  BY RequestKeeps, StoreKeeps, DeleteKeeps, IssueKeeps, AcceptKeeps, OthersKeep DEF Next
<1> QED BY <1>1, <1>2, PTL DEF Spec

\* The types of the storage, the workers and the token cache, and the limit of
\* the LRU cache of the token issuer (Cap, 128 in direct.rs), always hold.
THEOREM AuthorityTypes == Spec => []TypeOK
<1>1. AuthorityInv => TypeOK
  BY DEF AuthorityInv
<1> QED BY <1>1, AuthorityInvariance, PTL

\* Membership is rooted in the configuration: the policies of the direct
\* authenticator and of the token issuer let only enrollers attest.
THEOREM MembershipRooted == Spec => []RootedInEnrollers
<1>1. AuthorityInv => RootedInEnrollers
  BY DEF AuthorityInv, RootedInv
<1> QED BY <1>1, AuthorityInvariance, PTL

\* The acceptor enrolls at most one identity with a token, and none with an
\* expired one, also through the converter for old clients.
THEOREM TokensOneTime == Spec => []OneTime
<1>1. AuthorityInv => OneTime
  BY DEF AuthorityInv, OneTimeInv
<1> QED BY <1>1, AuthorityInvariance, PTL

\* Attributes and credentials carry the authority's own trust context.
THEOREM TrustContextOwn == Spec => []OwnTrustContext
<1>1. AuthorityInv => OwnTrustContext
  BY DEF AuthorityInv
<1> QED BY <1>1, AuthorityInvariance, PTL

=============================================================================
