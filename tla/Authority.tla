------------------------------ MODULE Authority ------------------------------
(***************************************************************************)
(* The authority node of a project (ockam_api/src/nodes/authority_node):   *)
(* the direct authenticator, where enrollers add and delete members, the   *)
(* issuer and the acceptor of one-time enrollment tokens, the Okta         *)
(* enrollment, the credential issuer and the converter for old clients.    *)
(*                                                                         *)
(* Each service is a worker: the router checks the access policy of its    *)
(* address, the message waits, and the handler runs one message at a time, *)
(* giving way to the other workers at every access to the storage.  The    *)
(* attributes of a member are its trust context, its ockam-role and who    *)
(* attested them.  Bootstrapped identities come from the configuration.    *)
(***************************************************************************)
EXTENDS Integers, FiniteSets

CONSTANTS Ids,         \* identities that open secure channels to the authority
          Admin,       \* the bootstrapped enroller
          None,        \* no identity, no attributes
          Cap,         \* size of the LRU cache of tokens, 128 in the code
          Ttl,         \* duration of a token
          MaxTime, MaxRequests, MaxCodes

VARIABLES repo,     \* identity -> attributes stored, or None
          tokens,   \* the cache of tokens; none is used twice, so the least recently used one is the oldest
          codes,    \* codes generated so far
          work,     \* the message that each worker handles
          legacy,   \* the request that the converter is carrying out
          creds,    \* credentials issued
          redeemed, \* tokens accepted: code, by whom, age of the token
          ever,     \* every identity that has ever been an enroller
          now, requests

vars == <<repo, tokens, codes, work, legacy, creds, redeemed, ever, now, requests>>

Roles == {"member", "enroller"}
Services == {"direct", "issuer", "acceptor", "credential", "okta"}
Entry == [tc : {"own", "other"}, role : Roles, by : Ids \cup {None}]
Token == [code : Nat, by : Ids, role : Roles, born : Nat]
Idle == [op |-> "none", from |-> None, arg |-> None, role |-> "member", tc |-> "own", code |-> 0, tkn |-> None]

ASSUME AuthorityAssumption ==
  /\ Admin \in Ids /\ None \notin Ids \cup Entry \cup Token
  /\ Cap \in Nat /\ Ttl \in Nat

\* PreTrustedIdentities of the configuration
Bootstrapped(i) == i = Admin
BootEntry == [tc |-> "own", role |-> "enroller", by |-> None]

Init == /\ repo = [i \in Ids |-> None]
        /\ tokens = {} /\ codes = 0
        /\ work = [s \in Services |-> Idle]
        /\ legacy = Idle
        /\ creds = {} /\ redeemed = {}
        /\ ever = {Admin}
        /\ now = 0 /\ requests = 0

-----------------------------------------------------------------------------
(* BootstrapedIdentityStore in front of the repository.                    *)

GetAttributes(i) == IF Bootstrapped(i) THEN BootEntry ELSE repo[i]
PutAttributes(i, e) == repo' = IF Bootstrapped(i) THEN repo ELSE [repo EXCEPT ![i] = e]

\* Every identity that is an enroller after this step
Remember == ever' = ever \cup {i \in Ids : repo'[i] # None /\ repo'[i].role = "enroller"}

-----------------------------------------------------------------------------
(* Requests: the access policy of the service, then its worker.            *)

\* Mutant: members may enroll others.
AuthorizedMembers(s, i) == s \in {"acceptor", "okta"} \/ GetAttributes(i) # None

\* create_abac_policy: EnrollerOnly for the first two, AnyMember for the
\* credential issuer, none for the acceptor and Okta
Authorized(s, i) ==
  LET e == GetAttributes(i)
  IN s \in {"acceptor", "okta"} \/ (e # None /\ e.tc = "own" /\ (s = "credential" \/ e.role = "enroller"))

Ask(s, req) == /\ requests < MaxRequests
               /\ requests' = requests + 1
               /\ work[s] = Idle
               /\ Authorized(s, req.from)
               /\ work' = [work EXCEPT ![s] = req]
               /\ UNCHANGED <<repo, tokens, codes, creds, redeemed, ever, now>>

Request ==
  \E i \in Ids :
    /\ \/ \E j \in Ids, r \in Roles, t \in {"own", "other"} :
            Ask("direct", [Idle EXCEPT !.op = "add", !.from = i, !.arg = j, !.role = r, !.tc = t])
       \/ \E j \in Ids : Ask("direct", [Idle EXCEPT !.op = "delete", !.from = i, !.arg = j])
       \/ \E r \in Roles : Ask("issuer", [Idle EXCEPT !.op = "issue", !.from = i, !.role = r])
       \/ \E c \in 1 .. codes : Ask("acceptor", [Idle EXCEPT !.op = "present", !.from = i, !.code = c])
       \/ \E r \in Roles : Ask("okta", [Idle EXCEPT !.op = "enroll", !.from = i, !.role = r])
       \/ Ask("credential", [Idle EXCEPT !.op = "credential", !.from = i])
    /\ UNCHANGED legacy

-----------------------------------------------------------------------------
(* The handlers.                                                           *)

Does(s, op) == work[s].op = op
Reply(s) == work' = [work EXCEPT ![s] = Idle]
Quiet == UNCHANGED <<legacy, now, requests>>

\* The trust context of the authority replaces one given in the attributes
Attested(role, by) == [tc |-> "own", role |-> role, by |-> by]

AddMember == /\ Does("direct", "add")
             /\ PutAttributes(work["direct"].arg, Attested(work["direct"].role, work["direct"].from))
             /\ Reply("direct") /\ Remember
             /\ UNCHANGED <<tokens, codes, creds, redeemed>> /\ Quiet

\* The entry is read, and the handler waits for the storage
DeleteCheck ==
  LET e == GetAttributes(work["direct"].arg)
  IN /\ Does("direct", "delete")
     /\ IF e # None /\ e.by = work["direct"].from
          THEN work' = [work EXCEPT !["direct"].op = "remove"]
          ELSE Reply("direct")
     /\ UNCHANGED <<repo, tokens, codes, creds, redeemed, ever>> /\ Quiet
DeleteMember == /\ Does("direct", "remove")
                /\ repo' = [repo EXCEPT ![work["direct"].arg] = None]
                /\ Reply("direct")
                /\ UNCHANGED <<tokens, codes, creds, redeemed, ever>> /\ Quiet

\* A token replaces the least recently used one when the cache is full
Cached(ts) == IF Cardinality(ts) > Cap THEN ts \ {CHOOSE t \in ts : \A u \in ts : t.code <= u.code} ELSE ts
IssueToken == /\ Does("issuer", "issue") /\ codes < MaxCodes
              /\ codes' = codes + 1
              /\ tokens' = Cached(tokens \cup {[code |-> codes + 1, by |-> work["issuer"].from,
                                                role |-> work["issuer"].role, born |-> now]})
              /\ Reply("issuer")
              /\ UNCHANGED <<repo, creds, redeemed, ever>> /\ Quiet

\* Mutant: the token is looked up, not taken out.
LeftKeeps(c) == tokens

\* The token leaves the cache whether it has expired or not
Left(c) == {t \in tokens : t.code # c}
Expired(t) == now - t.born > Ttl
AcceptToken ==
  LET c == work["acceptor"].code
  IN /\ Does("acceptor", "present")
     /\ tokens' = Left(c)
     /\ \/ /\ \A t \in tokens : t.code = c => Expired(t)
           /\ Reply("acceptor") /\ UNCHANGED redeemed
        \/ \E t \in tokens :
             /\ t.code = c /\ ~Expired(t)
             /\ work' = [work EXCEPT !["acceptor"].op = "enroll", !["acceptor"].tkn = t]
             /\ redeemed' = redeemed \cup {[code |-> c, id |-> work["acceptor"].from, age |-> now - t.born]}
     /\ UNCHANGED <<repo, codes, creds, ever>> /\ Quiet
Enroll == /\ Does("acceptor", "enroll")
          /\ PutAttributes(work["acceptor"].from, Attested(work["acceptor"].tkn.role, work["acceptor"].tkn.by))
          /\ Reply("acceptor") /\ Remember
          /\ UNCHANGED <<tokens, codes, creds, redeemed>> /\ Quiet

\* Okta vouches for the bearer of the access token, or does not
OktaEnroll == /\ Does("okta", "enroll")
              /\ \/ PutAttributes(work["okta"].from, Attested(work["okta"].role, None))
                 \/ UNCHANGED repo
              /\ Reply("okta") /\ Remember
              /\ UNCHANGED <<tokens, codes, creds, redeemed>> /\ Quiet

\* The attributes may have changed since the access policy was checked
IssueCredential ==
  LET i == work["credential"].from
  IN /\ Does("credential", "credential")
     /\ creds' = IF GetAttributes(i) = None THEN creds
                 ELSE creds \cup {[subject |-> i, role |-> GetAttributes(i).role, tc |-> "own"]}
     /\ Reply("credential")
     /\ UNCHANGED <<repo, tokens, codes, redeemed, ever>> /\ Quiet

-----------------------------------------------------------------------------
(* LegacyApiConverter: a token presented to /credential is forwarded to the *)
(* acceptor, and two seconds later a credential is requested.              *)

LegacyPresent == /\ legacy = Idle
                 /\ \E i \in Ids, c \in 1 .. codes :
                      /\ Ask("acceptor", [Idle EXCEPT !.op = "present", !.from = i, !.code = c])
                      /\ legacy' = [Idle EXCEPT !.op = "wait", !.from = i]
LegacyAsk == /\ legacy # Idle
             /\ Ask("credential", [Idle EXCEPT !.op = "credential", !.from = legacy.from])
             /\ legacy' = Idle

Tick == /\ now < MaxTime /\ now' = now + 1
        /\ UNCHANGED <<repo, tokens, codes, work, legacy, creds, redeemed, ever, requests>>

\* Tokens, and the requests that are being handled, do not survive a restart
Restart == /\ tokens # {} \/ \E s \in Services : work[s] # Idle
           /\ tokens' = {} /\ work' = [s \in Services |-> Idle] /\ legacy' = Idle
           /\ UNCHANGED <<repo, codes, creds, redeemed, ever, now, requests>>

Next == \/ Request \/ AddMember \/ DeleteCheck \/ DeleteMember \/ IssueToken \/ AcceptToken \/ Enroll
        \/ OktaEnroll \/ IssueCredential \/ LegacyPresent \/ LegacyAsk \/ Tick \/ Restart

Spec == Init /\ [][Next]_vars

-----------------------------------------------------------------------------
\* Types of the storage, the cache and the workers; the cache keeps to its size.
Message == [op : {"none", "add", "delete", "remove", "issue", "present", "enroll", "credential", "wait"},
            from : Ids \cup {None}, arg : Ids \cup {None}, role : Roles, tc : {"own", "other"},
            code : Nat, tkn : Token \cup {None}]
TypeOK == /\ repo \in [Ids -> Entry \cup {None}]
          /\ tokens \subseteq Token /\ IsFiniteSet(tokens) /\ Cardinality(tokens) <= Cap
          /\ codes \in Nat /\ now \in Nat /\ requests \in Nat
          /\ \A t \in tokens : t.code \in 1 .. codes
          /\ work \in [Services -> Message] /\ legacy \in Message /\ (legacy # Idle => legacy.from \in Ids)
          /\ ever \subseteq Ids

\* Membership is rooted in the configuration: whoever attested an entry, or
\* generated a token that is still valid, was an enroller at some time, and the
\* first enroller is bootstrapped.  The policies of the direct authenticator and
\* of the token issuer see to it, however requests, deletions and restarts overlap.
RootedInEnrollers == /\ \A i \in Ids : repo[i] # None => repo[i].by \in ever \cup {None}
                     /\ \A t \in tokens : t.by \in ever

\* A token enrolls at most one identity, and none once its duration is over:
\* the acceptor takes it out of the shared cache under the lock.
OneTime == \A x, y \in redeemed : (x.code = y.code => x = y) /\ x.age <= Ttl

\* Attributes and credentials carry the trust context of this authority, whatever
\* the enroller sent, so that they are of no use in another project.
OwnTrustContext == /\ \A i \in Ids : repo[i] # None => repo[i].tc = "own"
                   /\ \A c \in creds : c.tc = "own"

\* Why membership is rooted: who may attest is, or was, an enroller, from the
\* moment the access policy let the request in until its handler is done.
RootedInv ==
  /\ RootedInEnrollers /\ Admin \in ever
  /\ \A i \in Ids : repo[i] # None /\ repo[i].role = "enroller" => i \in ever
  /\ \A s \in {"direct", "issuer"} : work[s].op # "none" => work[s].from \in ever
  /\ work["acceptor"].op = "enroll" => work["acceptor"].tkn # None /\ work["acceptor"].tkn.by \in ever

\* Why a token enrolls once: a code that was accepted has left the cache for good.
OneTimeInv ==
  /\ OneTime
  /\ \A x \in redeemed : x.code \in 1 .. codes /\ \A t \in tokens : t.code # x.code

\* The invariant of the authority.
AuthorityInv == TypeOK /\ RootedInv /\ OneTimeInv /\ OwnTrustContext

=============================================================================
