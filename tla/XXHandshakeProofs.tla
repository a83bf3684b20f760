------------------------- MODULE XXHandshakeProofs -------------------------
(***************************************************************************)
(* Proofs about the key exchange, for any initiators and responders and    *)
(* any budget of faults of any kinds.                                      *)
(***************************************************************************)
EXTENDS XXHandshake, FiniteSetTheorems, TLAPS

(***************************************************************************)
(* What the handshake functions compute.                                   *)
(***************************************************************************)
\* x is a computation with the state st and the vault v.
Has(x, st, v) == x = Computation(x.ok, st, v)

\* The parts of a computation.
LEMMA Fields ==
  ASSUME NEW x, NEW st, NEW v, Has(x, st, v)
  PROVE  x.st = st /\ x.v = v
BY DEF Has, Computation

\* mix_hash replaces h and nothing else.
LEMMA MixHashIs ==
  ASSUME NEW x, NEW a, NEW re, NEW rs, NEW n, NEW h, NEW ck, NEW v, NEW d,
         Has(x, HandshakeState(a, re, rs, n, h, ck), v)
  PROVE  /\ Has(MixHash(x, d), HandshakeState(a, re, rs, n, <<h, d>>, ck), v)
         /\ MixHash(x, d).ok = x.ok
<1> DEFINE y == MixHash(x, d)
<1>1. y = [Computation(x.ok, HandshakeState(a, re, rs, n, h, ck), v) EXCEPT !.st.h = <<@, d>>]
  BY DEF MixHash, Has
<1>2. y = Computation(x.ok, HandshakeState(a, re, rs, n, <<h, d>>, ck), v)
  BY <1>1 DEF Computation, HandshakeState
<1>3. y.ok = x.ok
  BY <1>2 DEF Computation
<1> QED BY <1>2, <1>3 DEF Has

\* Setting re of the copy changes nothing else ...
LEMMA SetReIs ==
  ASSUME NEW x, NEW a, NEW re, NEW rs, NEW n, NEW h, NEW ck, NEW v, NEW d,
         Has(x, HandshakeState(a, re, rs, n, h, ck), v)
  PROVE  LET y == SetRe(x, d)
         IN  Has(y, HandshakeState(a, d, rs, n, h, ck), v) /\ y.ok = x.ok
<1> DEFINE y == SetRe(x, d)
<1>1. y = [Computation(x.ok, HandshakeState(a, re, rs, n, h, ck), v) EXCEPT !.st.re = d]
  BY DEF Has, SetRe
<1>2. y = Computation(x.ok, HandshakeState(a, d, rs, n, h, ck), v)
  BY <1>1 DEF Computation, HandshakeState
<1>3. y.ok = x.ok
  BY <1>2 DEF Computation
<1> QED BY <1>2, <1>3 DEF Has

\* ... nor does setting rs ...
LEMMA SetRsIs ==
  ASSUME NEW x, NEW a, NEW re, NEW rs, NEW n, NEW h, NEW ck, NEW v, NEW d,
         Has(x, HandshakeState(a, re, rs, n, h, ck), v)
  PROVE  LET y == SetRs(x, d)
         IN  Has(y, HandshakeState(a, re, d, n, h, ck), v) /\ y.ok = x.ok
<1> DEFINE y == SetRs(x, d)
<1>1. y = [Computation(x.ok, HandshakeState(a, re, rs, n, h, ck), v) EXCEPT !.st.rs = d]
  BY DEF Has, SetRs
<1>2. y = Computation(x.ok, HandshakeState(a, re, d, n, h, ck), v)
  BY <1>1 DEF Computation, HandshakeState
<1>3. y.ok = x.ok
  BY <1>2 DEF Computation
<1> QED BY <1>2, <1>3 DEF Has

\* ... nor counting n on.
LEMMA Count ==
  ASSUME NEW x, NEW a, NEW re, NEW rs, NEW n \in Nat, NEW h, NEW ck, NEW v,
         Has(x, HandshakeState(a, re, rs, n, h, ck), v)
  PROVE  LET y == [x EXCEPT !.st.n = @ + 1]
         IN  Has(y, HandshakeState(a, re, rs, n + 1, h, ck), v) /\ y.ok = x.ok
<1> DEFINE y == [x EXCEPT !.st.n = @ + 1]
<1>1. y = [Computation(x.ok, HandshakeState(a, re, rs, n, h, ck), v) EXCEPT !.st.n = @ + 1]
  BY DEF Has
<1>2. y = Computation(x.ok, HandshakeState(a, re, rs, n + 1, h, ck), v)
  BY <1>1 DEF Computation, HandshakeState
<1>3. y.ok = x.ok
  BY Zenon, <1>2 DEF Computation
<1> QED BY <1>2, <1>3 DEF Has

Replace(w, v, old, new) == (v \ {<<w, "ck", old>>, <<w, "k", old>>}) \cup {<<w, "ck", new>>, <<w, "k", new>>}

\* dh and hkdf: with the chaining key in the vault the new keys replace the old,
\* without it the call fails and leaves the secret of dh behind.
LEMMA DhHkdfIs ==
  ASSUME NEW w, NEW x, NEW a, NEW re, NEW rs, NEW n, NEW h, NEW ck, NEW v, NEW own, NEW public,
         Has(x, HandshakeState(a, re, rs, n, h, ck), v)
  PROVE  LET y == DhHkdf(w, x, own, public)
         IN  /\ ~x.ok => y = x
             /\ x.ok /\ <<w, "ck", ck>> \notin v =>
                  ~y.ok /\ Has(y, HandshakeState(a, re, rs, n, h, ck), v \cup {<<w, "dh", {own, public}>>})
             /\ x.ok /\ <<w, "ck", ck>> \in v =>
                  y.ok /\ Has(y, HandshakeState(a, re, rs, 0, h, <<ck, {own, public}>>), Replace(w, v, ck, <<ck, {own, public}>>))
<1> DEFINE y == DhHkdf(w, x, own, public)
           st == HandshakeState(a, re, rs, n, h, ck)
           new == <<ck, {own, public}>>
<1>1. x.st = st /\ x.v = v /\ st.ck = ck
  BY Fields DEF HandshakeState
<1>2. CASE ~x.ok
  BY <1>2 DEF DhHkdf
<1>3. CASE x.ok /\ <<w, "ck", ck>> \notin v
  <2>1. y = [x EXCEPT !.ok = FALSE, !.v = @ \cup {<<w, "dh", {own, public}>>}]
    BY <1>1, <1>3 DEF DhHkdf
  <2>2. y = [Computation(x.ok, st, v) EXCEPT !.ok = FALSE, !.v = @ \cup {<<w, "dh", {own, public}>>}]
    BY Zenon, <2>1 DEF Has
  <2>3. y.ok = FALSE /\ y = [ok |-> y.ok, st |-> st, v |-> v \cup {<<w, "dh", {own, public}>>}]
    BY Zenon, <2>2 DEF Computation
  <2> QED BY <1>3, <2>3 DEF Has, Computation
<1>4. CASE x.ok /\ <<w, "ck", ck>> \in v
  <2>1. y = [x EXCEPT !.st.ck = new, !.st.n = 0, !.v = Replace(w, @, ck, new)]
    BY <1>1, <1>4 DEF DhHkdf, Replace
  <2>2. y = [Computation(x.ok, st, v) EXCEPT !.st.ck = new, !.st.n = 0, !.v = Replace(w, @, ck, new)]
    BY Zenon, <2>1 DEF Has
  <2>3. y = Computation(x.ok, HandshakeState(a, re, rs, 0, h, new), Replace(w, v, ck, new))
    BY ZenonT(60), <2>2 DEF Computation, HandshakeState
  <2>4. y.ok = x.ok
    BY <2>3 DEF Computation
  <2> QED BY Zenon, <1>4, <2>3, <2>4 DEF Has
<1> QED BY <1>2, <1>3, <1>4

\* The successful case.
LEMMA DhHkdfSucceeds ==
  ASSUME NEW w, NEW x, NEW a, NEW re, NEW rs, NEW n, NEW h, NEW ck, NEW v, NEW own, NEW public,
         Has(x, HandshakeState(a, re, rs, n, h, ck), v), x.ok, <<w, "ck", ck>> \in v
  PROVE  LET y == DhHkdf(w, x, own, public)
             new == <<ck, {own, public}>>
         IN  y.ok /\ Has(y, HandshakeState(a, re, rs, 0, h, new), Replace(w, v, ck, new))
BY ZenonT(60), DhHkdfIs

\* encrypt_and_hash seals in the present state and hashes what it sealed.
LEMMA EncryptAndHashIs ==
  ASSUME NEW x, NEW a, NEW re, NEW rs, NEW n \in Nat, NEW h, NEW ck, NEW v, NEW p,
         Has(x, HandshakeState(a, re, rs, n, h, ck), v)
  PROVE  LET y == EncryptAndHash(x, p)
             c == [k |-> ck, n |-> n, h |-> h, p |-> p]
         IN  Has(y, HandshakeState(a, re, rs, n + 1, <<h, c>>, ck), v) /\ y.ok = x.ok
<1> DEFINE c == [k |-> ck, n |-> n, h |-> h, p |-> p]
<1>1. Seal(x.st, p) = c
  BY Fields DEF Seal, HandshakeState
<1> HIDE DEF c
<1>2. Has(MixHash(x, c), HandshakeState(a, re, rs, n, <<h, c>>, ck), v) /\ MixHash(x, c).ok = x.ok
  BY MixHashIs
<1>3. EncryptAndHash(x, p) = [MixHash(x, c) EXCEPT !.st.n = @ + 1]
  BY <1>1 DEF EncryptAndHash
<1>4. Has(EncryptAndHash(x, p), HandshakeState(a, re, rs, n + 1, <<h, c>>, ck), v) /\ EncryptAndHash(x, p).ok = x.ok
  BY <1>2, <1>3, Count
<1> QED BY <1>4 DEF c

\* hash_and_decrypt fails and changes nothing, or the part was sealed with the
\* present key.
LEMMA HashAndDecryptIs ==
  ASSUME NEW w, NEW x, NEW a, NEW re, NEW rs, NEW n \in Nat, NEW h, NEW ck, NEW v, NEW c,
         Has(x, HandshakeState(a, re, rs, n, h, ck), v)
  PROVE  LET y == HashAndDecrypt(w, x, c)
         IN  /\ ~y.ok => Has(y, HandshakeState(a, re, rs, n, h, ck), v)
             /\ y.ok => x.ok /\ c # Junk /\ c.k = ck /\ Has(y, HandshakeState(a, re, rs, n + 1, <<h, c>>, ck), v)
<1> DEFINE y == HashAndDecrypt(w, x, c)
           open == x.ok /\ c # Junk /\ <<w, "k", x.st.ck>> \in x.v /\ c = Seal(x.st, c.p)
<1>1. x.st.ck = ck
  BY Fields DEF HandshakeState
<1>2. Has(MixHash(x, c), HandshakeState(a, re, rs, n, <<h, c>>, ck), v) /\ MixHash(x, c).ok = x.ok
  BY MixHashIs
<1>3. CASE open
  <2>1. c = Seal(x.st, c.p) /\ x.ok /\ c # Junk
    BY <1>3
  <2>2. y = [MixHash(x, c) EXCEPT !.st.n = @ + 1]
    BY <1>3 DEF HashAndDecrypt
  <2> HIDE DEF open, y
  <2>3. Has(y, HandshakeState(a, re, rs, n + 1, <<h, c>>, ck), v) /\ y.ok = x.ok
    BY <1>2, <2>2, Count
  <2>4. Seal(x.st, c.p).k = ck
    BY <1>1 DEF Seal
  <2>5. c.k = ck
    BY <2>1, <2>4
  <2>6. y.ok
    BY <2>1, <2>3
  <2> QED BY Zenon, <2>1, <2>3, <2>5, <2>6 DEF y
<1>4. CASE ~open
  <2>1. y = [x EXCEPT !.ok = FALSE]
    BY <1>4 DEF HashAndDecrypt
  <2>2. y = [Computation(x.ok, HandshakeState(a, re, rs, n, h, ck), v) EXCEPT !.ok = FALSE]
    BY Zenon, <2>1 DEF Has
  <2>3. y.ok = FALSE /\ y = [ok |-> y.ok, st |-> HandshakeState(a, re, rs, n, h, ck), v |-> v]
    BY Zenon, <2>2 DEF Computation
  <2> QED BY <2>3 DEF Has, Computation
<1> QED BY <1>3, <1>4

(***************************************************************************)
(* The messages.                                                           *)
(***************************************************************************)
\* The secrets of w in a vault, and vaults that differ in nothing else.
Own(v, w) == {s \in v : s[1] = w}
Same(w, u, v) == \A s : s[1] # w => (s \in u <=> s \in v)

\* hkdf exchanges the chaining key and the key derived from it.
LEMMA ReplaceOwn ==
  ASSUME NEW w, NEW v, NEW ck, NEW new, Own(v, w) = Intermediate(w, ck)
  PROVE  /\ Own(Replace(w, v, ck, new), w) = Intermediate(w, new)
         /\ <<w, "ck", new>> \in Replace(w, v, ck, new)
         /\ Same(w, v, Replace(w, v, ck, new))
<1> DEFINE u == Replace(w, v, ck, new)
<1>1. \A s \in Own(u, w) : s \in Intermediate(w, new)
  <2> TAKE s \in Own(u, w)
  <2>1. s \in u /\ s[1] = w
    BY DEF Own
  <2>2. CASE s \in {<<w, "ck", new>>, <<w, "k", new>>}
    BY <2>2 DEF Intermediate
  <2>3. CASE s \in v /\ s \notin {<<w, "ck", ck>>, <<w, "k", ck>>}
    <3>1. s \in Intermediate(w, ck)
      BY <2>1, <2>3 DEF Own
    <3> QED BY <2>3, <3>1 DEF Intermediate
  <2> QED BY <2>1, <2>2, <2>3 DEF Replace
<1>2. \A s \in Intermediate(w, new) : s \in Own(u, w)
  <2>1. <<w, "s", None>> \in v /\ <<w, "e", None>> \in v
    BY DEF Own, Intermediate
  <2> QED BY <2>1 DEF Intermediate, Replace, Own
<1>3. Same(w, v, u)
  BY DEF Same, Replace
<1> QED BY Zenon, <1>1, <1>2, <1>3 DEF Replace

\* A vault that has the chaining key has the others too.
LEMMA HasKey ==
  ASSUME NEW w, NEW v, NEW ck, Own(v, w) = Intermediate(w, ck)
  PROVE  <<w, "ck", ck>> \in v
BY DEF Own, Intermediate

\* decode_message_1 reads the ephemeral key of the sender.
LEMMA DecodeMessage1Is ==
  ASSUME NEW x, NEW a, NEW re, NEW rs, NEW n, NEW h, NEW ck, NEW v, NEW m,
         Has(x, HandshakeState(a, re, rs, n, h, ck), v)
  PROVE  LET y == DecodeMessage1(x, m)
         IN  \/ ~y.ok /\ y.v = v
             \/ /\ m[1] # Junk /\ y.ok = x.ok
                /\ Has(y, HandshakeState(a, m[1], rs, n, << <<h, m[1]>>, m[2]>>, ck), v)
<1> DEFINE y == DecodeMessage1(x, m)
<1>1. CASE m[1] = Junk
  <2>1. y = [Computation(x.ok, HandshakeState(a, re, rs, n, h, ck), v) EXCEPT !.ok = FALSE]
    BY Zenon, <1>1 DEF DecodeMessage1, Has
  <2>2. y.ok = FALSE /\ y.v = v
    BY <2>1 DEF Computation
  <2> QED BY <2>2
<1>2. CASE m[1] # Junk
  <2> DEFINE b == MixHash(MixHash(x, m[1]), m[2])
  <2>1. Has(MixHash(x, m[1]), HandshakeState(a, re, rs, n, <<h, m[1]>>, ck), v) /\ MixHash(x, m[1]).ok = x.ok
    BY MixHashIs
  <2>2. Has(b, HandshakeState(a, re, rs, n, << <<h, m[1]>>, m[2]>>, ck), v) /\ b.ok = x.ok
    BY <2>1, MixHashIs
  <2>3. y = SetRe(b, m[1])
    BY <1>2 DEF DecodeMessage1
  <2> HIDE DEF b, y
  <2>4. Has(y, HandshakeState(a, m[1], rs, n, << <<h, m[1]>>, m[2]>>, ck), v) /\ y.ok = b.ok
    BY <2>2, <2>3, SetReIs
  <2> QED BY Zenon, <1>2, <2>2, <2>4 DEF y
<1> QED BY <1>1, <1>2

Encoded2(w, y, a, re, rs, ck, v) ==
    LET k1 == <<ck, {E(w), re}>>
        k2 == <<k1, {S(w), re}>>
    IN  /\ y.st = HandshakeState(a, re, rs, 1, y.st.h, k2)
        /\ Own(y.v, w) = Intermediate(w, k2) /\ Same(w, v, y.v)
        /\ \E c1, c2 : /\ Output3(y) = <<E(w), c1, c2>>
                       /\ c1.k = k1 /\ c1.p = S(w)
                       /\ c2.k = k2 /\ c2.p = IdentityPayload(w)

\* encode_message_2 sends the ephemeral key, the static key and the identity of w,
\* the last two sealed with the first two chaining keys.
LEMMA EncodeMessage2Is ==
  ASSUME NEW w, NEW x, NEW a, NEW re, NEW rs, NEW n \in Nat, NEW h, NEW ck, NEW v, x.ok,
         Has(x, HandshakeState(a, re, rs, n, h, ck), v), Own(v, w) = Intermediate(w, ck)
  PROVE  Encoded2(w, EncodeMessage2(w, x), a, re, rs, ck, v)
<1> DEFINE k1 == <<ck, {E(w), re}>>
           k2 == <<k1, {S(w), re}>>
           v1 == Replace(w, v, ck, k1)
           v2 == Replace(w, v1, k1, k2)
           b == MixHash(x, E(w))
           d == DhHkdf(w, b, E(w), re)
           e == EncryptAndHash(d, S(w))
           f == DhHkdf(w, e, S(w), re)
           y == EncryptAndHash(f, IdentityPayload(w))
           h1 == <<h, E(w)>>
           c1 == [k |-> k1, n |-> 0, h |-> h1, p |-> S(w)]
           h2 == <<h1, c1>>
           c2 == [k |-> k2, n |-> 0, h |-> h2, p |-> IdentityPayload(w)]
<1>0. x.st.re = re
  BY Fields DEF HandshakeState
<1>1. Has(b, HandshakeState(a, re, rs, n, h1, ck), v) /\ b.ok = x.ok
  BY Zenon, MixHashIs
<1>2. <<w, "ck", ck>> \in v
  BY HasKey
<1>3. Has(d, HandshakeState(a, re, rs, 0, h1, k1), v1) /\ d.ok
  <2> HIDE DEF b, h1
  <2>1. b.ok
    BY <1>1
  <2> QED BY Zenon, <1>1, <1>2, <2>1, DhHkdfSucceeds
<1>4. /\ Own(v1, w) = Intermediate(w, k1) /\ <<w, "ck", k1>> \in v1 /\ Same(w, v, v1)
      /\ Own(v2, w) = Intermediate(w, k2) /\ Same(w, v1, v2)
  <2> HIDE DEF k1, k2
  <2> QED BY Zenon, ReplaceOwn
<1>5. Has(e, HandshakeState(a, re, rs, 1, h2, k1), v1) /\ e.ok
  <2> HIDE DEF d, v1, h1, k1
  <2>1. Has(e, HandshakeState(a, re, rs, 0 + 1, h2, k1), v1) /\ e.ok = d.ok
    BY ZenonT(60), <1>3, EncryptAndHashIs
  <2> QED BY <1>3, <2>1
<1>6. Has(f, HandshakeState(a, re, rs, 0, h2, k2), v2) /\ f.ok
  <2> HIDE DEF e, h2, v1, k1
  <2> QED BY Zenon, <1>4, <1>5, DhHkdfSucceeds
<1>7. Has(y, HandshakeState(a, re, rs, 1, <<h2, c2>>, k2), v2) /\ y.ok
  <2> HIDE DEF f, h2, v2, k2
  <2>1. Has(y, HandshakeState(a, re, rs, 0 + 1, <<h2, c2>>, k2), v2) /\ y.ok = f.ok
    BY Zenon, <1>6, EncryptAndHashIs
  <2> QED BY <1>6, <2>1
<1>8. y = EncodeMessage2(w, x)
  BY <1>0 DEF EncodeMessage2
<1>9. y.st = HandshakeState(a, re, rs, 1, <<h2, c2>>, k2) /\ y.v = v2
  <2> HIDE DEF y, h2, c2, k2, v2
  <2> QED BY Zenon, <1>7, Fields
<1>10. y.st.h = << << <<h, E(w)>>, c1>>, c2>> /\ y.st = HandshakeState(a, re, rs, 1, y.st.h, k2)
  <2> HIDE DEF y, c1, c2, k2, v2
  <2> QED BY <1>9 DEF HandshakeState
<1>11. Output3(y) = <<E(w), c1, c2>>
  <2> HIDE DEF y, c1, c2
  <2> QED BY <1>10 DEF Output3
<1>12. c1.k = k1 /\ c1.p = S(w) /\ c2.k = k2 /\ c2.p = IdentityPayload(w)
  BY Zenon
<1>13. Own(y.v, w) = Intermediate(w, k2) /\ Same(w, v, y.v)
  <2> HIDE DEF y, v1, v2, k1, k2
  <2> QED BY Zenon, <1>4, <1>9 DEF Same
<1> HIDE DEF y, v1, v2, c1, c2, h1, h2
<1> QED BY Zenon, <1>8, <1>10, <1>11, <1>12, <1>13 DEF Encoded2

\* The call has failed, and the chaining key of w is not in the vault it leaves.
StaysBroken(w, y, ck, v) == ~y.ok /\ Same(w, v, y.v) /\ <<w, "ck", ck>> \notin y.v

\* decode_message_2 without the chaining key fails and leaves the vault without it.
LEMMA DecodeMessage2Broken ==
  ASSUME NEW w, NEW x, NEW a, NEW re, NEW rs, NEW n \in Nat, NEW h, NEW ck, NEW v, NEW m, x.ok,
         Has(x, HandshakeState(a, re, rs, n, h, ck), v), <<w, "ck", ck>> \notin v
  PROVE  StaysBroken(w, DecodeMessage2(w, x, m), ck, v)
<1> DEFINE p1 == m[1]
           p2 == m[2]
           b == MixHash(x, p1)
           c == SetRe(b, p1)
           d == DhHkdf(w, c, E(w), p1)
           e == HashAndDecrypt(w, d, p2)
           u == v \cup {<<w, "dh", {E(w), p1}>>}
<1> HIDE DEF p1, p2
<1>1. Has(b, HandshakeState(a, re, rs, n, <<h, p1>>, ck), v) /\ b.ok = x.ok
  BY Zenon, MixHashIs
<1>2. Has(c, HandshakeState(a, p1, rs, n, <<h, p1>>, ck), v) /\ c.ok = b.ok
  <2> HIDE DEF b
  <2> QED BY Zenon, <1>1, SetReIs
<1>3. ~d.ok /\ Has(d, HandshakeState(a, p1, rs, n, <<h, p1>>, ck), u)
  <2> HIDE DEF c
  <2>1. c.ok
    BY <1>1, <1>2
  <2> QED BY ZenonT(60), <1>2, <2>1, DhHkdfIs
<1>4. ~e.ok /\ Has(e, HandshakeState(a, p1, rs, n, <<h, p1>>, ck), u)
  <2> HIDE DEF d, u
  <2> QED BY ZenonT(60), <1>3, HashAndDecryptIs
<1>5. DecodeMessage2(w, x, m) = e
  BY <1>4 DEF DecodeMessage2, p1, p2
<1>6. e.v = u
  <2> HIDE DEF e, u
  <2> QED BY <1>4, Fields
<1>7. Same(w, v, u) /\ <<w, "ck", ck>> \notin u
  BY DEF Same
<1> HIDE DEF e, u
<1> QED BY <1>4, <1>5, <1>6, <1>7 DEF StaysBroken

Decoded2(w, y, a, ck, v, m) ==
    LET k1 == <<ck, {E(w), m[1]}>>
        k2 == <<k1, {E(w), m[2].p}>>
    IN  /\ Same(w, v, y.v)
        /\ \/ ~y.ok /\ \E k : Own(y.v, w) = Intermediate(w, k)
           \/ /\ y.ok /\ m[2] # Junk /\ m[2].k = k1 /\ m[3] # Junk /\ m[3].k = k2
              /\ Has(y, HandshakeState(a, m[1], m[2].p, 1, y.st.h, k2), y.v)
              /\ Own(y.v, w) = Intermediate(w, k2)

\* decode_message_2 fails, or the two parts were sealed with the chaining keys made of
\* the keys in the message.
LEMMA DecodeMessage2Is ==
  ASSUME NEW w, NEW x, NEW a, NEW re, NEW rs, NEW n \in Nat, NEW h, NEW ck, NEW v, NEW m, x.ok,
         Has(x, HandshakeState(a, re, rs, n, h, ck), v), Own(v, w) = Intermediate(w, ck)
  PROVE  Decoded2(w, DecodeMessage2(w, x, m), a, ck, v, m)
<1> DEFINE p1 == m[1]
           p2 == m[2]
           q2 == m[2].p
           p3 == m[3]
           k1 == <<ck, {E(w), p1}>>
           k2 == <<k1, {E(w), q2}>>
           v1 == Replace(w, v, ck, k1)
           v2 == Replace(w, v1, k1, k2)
           h1 == <<h, p1>>
           h2 == <<h1, p2>>
           b == MixHash(x, p1)
           c == SetRe(b, p1)
           d == DhHkdf(w, c, E(w), p1)
           e == HashAndDecrypt(w, d, p2)
           f == SetRs(e, q2)
           g == DhHkdf(w, f, E(w), q2)
           y == HashAndDecrypt(w, g, p3)
<1> HIDE DEF p1, p2, q2, p3
<1>1. Has(b, HandshakeState(a, re, rs, n, h1, ck), v) /\ b.ok = x.ok
  BY Zenon, MixHashIs
<1>2. Has(c, HandshakeState(a, p1, rs, n, h1, ck), v) /\ c.ok = b.ok
  <2> HIDE DEF b, h1
  <2> QED BY ZenonT(60), <1>1, SetReIs
<1>3. d.ok /\ Has(d, HandshakeState(a, p1, rs, 0, h1, k1), v1)
  <2> HIDE DEF c, h1
  <2>1. c.ok /\ <<w, "ck", ck>> \in v
    BY Zenon, <1>1, <1>2, HasKey
  <2> QED BY Zenon, <1>2, <2>1, DhHkdfSucceeds
<1>4. /\ Own(v1, w) = Intermediate(w, k1) /\ <<w, "ck", k1>> \in v1 /\ Same(w, v, v1)
      /\ Own(v2, w) = Intermediate(w, k2) /\ Same(w, v, v2)
  <2> HIDE DEF k1, k2
  <2>1. /\ Own(v1, w) = Intermediate(w, k1) /\ <<w, "ck", k1>> \in v1 /\ Same(w, v, v1)
        /\ Own(v2, w) = Intermediate(w, k2) /\ Same(w, v1, v2)
    BY Zenon, ReplaceOwn
  <2> HIDE DEF v1, v2
  <2> QED BY Zenon, <2>1 DEF Same
<1>5. \/ ~e.ok /\ e.v = v1
      \/ e.ok /\ p2 # Junk /\ p2.k = k1 /\ Has(e, HandshakeState(a, p1, rs, 1, h2, k1), v1)
  <2> HIDE DEF d, h1, k1, v1
  <2>1. ~e.ok => Has(e, HandshakeState(a, p1, rs, 0, h1, k1), v1)
    BY ZenonT(60), <1>3, HashAndDecryptIs
  <2>2. e.ok => p2 # Junk /\ p2.k = k1 /\ Has(e, HandshakeState(a, p1, rs, 0 + 1, <<h1, p2>>, k1), v1)
    BY <1>3, HashAndDecryptIs
  <2> HIDE DEF e
  <2> QED BY <2>1, <2>2, Fields
<1>6. CASE ~e.ok /\ e.v = v1
  <2>1. DecodeMessage2(w, x, m) = e
    BY <1>6 DEF DecodeMessage2, p1, p2
  <2> HIDE DEF e, v1, k1
  <2> QED BY ZenonT(60), <1>4, <1>6, <2>1 DEF Decoded2
<1>7. CASE e.ok /\ p2 # Junk /\ p2.k = k1 /\ Has(e, HandshakeState(a, p1, rs, 1, h2, k1), v1)
  <2>1. DecodeMessage2(w, x, m) = y
    BY Zenon, <1>7 DEF DecodeMessage2, p1, p2, q2, p3
  <2>2. f.ok /\ Has(f, HandshakeState(a, p1, q2, 1, h2, k1), v1)
    <3> HIDE DEF e, h2, k1, v1
    <3>1. f.ok = e.ok /\ Has(f, HandshakeState(a, p1, q2, 1, h2, k1), v1)
      BY ZenonT(60), <1>7, SetRsIs
    <3> QED BY <1>7, <3>1
  <2>3. g.ok /\ Has(g, HandshakeState(a, p1, q2, 0, h2, k2), v2)
    <3> HIDE DEF f, h2, k1, v1
    <3> QED BY Zenon, <1>4, <2>2, DhHkdfSucceeds
  <2>4. \/ ~y.ok /\ y.v = v2
        \/ y.ok /\ p3 # Junk /\ p3.k = k2 /\ Has(y, HandshakeState(a, p1, q2, 1, <<h2, p3>>, k2), v2)
    <3> HIDE DEF g, h2, k2, v2
    <3>1. ~y.ok => Has(y, HandshakeState(a, p1, q2, 0, h2, k2), v2)
      BY ZenonT(60), <2>3, HashAndDecryptIs
    <3>2. y.ok => p3 # Junk /\ p3.k = k2 /\ Has(y, HandshakeState(a, p1, q2, 0 + 1, <<h2, p3>>, k2), v2)
      BY <2>3, HashAndDecryptIs
    <3> HIDE DEF y
    <3> QED BY <3>1, <3>2, Fields
  <2>5. CASE ~y.ok /\ y.v = v2
    <3> HIDE DEF y, v2, k2
    <3> QED BY <1>4, <2>1, <2>5 DEF Decoded2
  <2>6. CASE y.ok /\ p3 # Junk /\ p3.k = k2 /\ Has(y, HandshakeState(a, p1, q2, 1, <<h2, p3>>, k2), v2)
    <3> HIDE DEF y, v2, k1, k2, h2
    <3>1. y.st = HandshakeState(a, p1, q2, 1, <<h2, p3>>, k2) /\ y.v = v2
      BY Zenon, <2>6, Fields
    <3>2. y.st.h = <<h2, p3>>
      BY <3>1 DEF HandshakeState
    <3> QED BY ZenonT(60), <1>4, <1>7, <2>1, <2>6, <3>1, <3>2 DEF Decoded2, k1, k2, p1, p2, q2, p3
  <2> QED BY Zenon, <2>4, <2>5, <2>6
<1> QED BY <1>5, <1>6, <1>7

Encoded3(w, y, a, re, rs, ck, v) ==
    LET k3 == <<ck, {S(w), re}>>
    IN  /\ Has(y, HandshakeState(a, re, rs, 1, y.st.h, k3), y.v)
        /\ Own(y.v, w) = Intermediate(w, k3) /\ Same(w, v, y.v)
        /\ \E c1, c2 : /\ Output2(y) = <<c1, c2>>
                       /\ c1.k = ck /\ c1.p = S(w)
                       /\ c2.k = k3 /\ c2.p = IdentityPayload(w)

\* encode_message_3 sends the static key and the identity of w, sealed with the second
\* and the third chaining key.
LEMMA EncodeMessage3Is ==
  ASSUME NEW w, NEW x, NEW a, NEW re, NEW rs, NEW n \in Nat, NEW h, NEW ck, NEW v, x.ok,
         Has(x, HandshakeState(a, re, rs, n, h, ck), v), Own(v, w) = Intermediate(w, ck)
  PROVE  Encoded3(w, EncodeMessage3(w, x), a, re, rs, ck, v)
<1> DEFINE k3 == <<ck, {S(w), re}>>
           v3 == Replace(w, v, ck, k3)
           b == EncryptAndHash(x, S(w))
           d == DhHkdf(w, b, S(w), re)
           y == EncryptAndHash(d, IdentityPayload(w))
           c1 == [k |-> ck, n |-> n, h |-> h, p |-> S(w)]
           h1 == <<h, c1>>
           c2 == [k |-> k3, n |-> 0, h |-> h1, p |-> IdentityPayload(w)]
<1>0. x.st.re = re
  BY Fields DEF HandshakeState
<1>1. Has(b, HandshakeState(a, re, rs, n + 1, h1, ck), v) /\ b.ok = x.ok
  BY Zenon, EncryptAndHashIs
<1>2. Has(d, HandshakeState(a, re, rs, 0, h1, k3), v3) /\ d.ok
  <2> HIDE DEF b, h1
  <2>1. b.ok /\ <<w, "ck", ck>> \in v
    BY <1>1, HasKey
  <2> QED BY Zenon, <1>1, <2>1, DhHkdfSucceeds
<1>3. Own(v3, w) = Intermediate(w, k3) /\ Same(w, v, v3)
  <2> HIDE DEF k3
  <2> QED BY Zenon, ReplaceOwn
<1>4. Has(y, HandshakeState(a, re, rs, 1, <<h1, c2>>, k3), v3) /\ y.ok
  <2> HIDE DEF d, h1, v3, k3
  <2>1. Has(y, HandshakeState(a, re, rs, 0 + 1, <<h1, c2>>, k3), v3) /\ y.ok = d.ok
    BY Zenon, <1>2, EncryptAndHashIs
  <2> QED BY <1>2, <2>1
<1>5. y = EncodeMessage3(w, x)
  BY Zenon, <1>0 DEF EncodeMessage3
<1>6. y.st = HandshakeState(a, re, rs, 1, <<h1, c2>>, k3) /\ y.v = v3
  <2> HIDE DEF y, h1, c2, k3, v3
  <2> QED BY <1>4, Fields
<1>7. y.st.h = << <<h, c1>>, c2>>
  <2> HIDE DEF y, c1, c2, k3, v3
  <2> QED BY <1>6 DEF HandshakeState
<1>8. Output2(y) = <<c1, c2>>
  <2> HIDE DEF y, c1, c2
  <2> QED BY <1>7 DEF Output2
<1>9. c1.k = ck /\ c1.p = S(w) /\ c2.k = k3 /\ c2.p = IdentityPayload(w)
  BY Zenon
<1>10. Has(y, HandshakeState(a, re, rs, 1, y.st.h, k3), y.v)
  <2> HIDE DEF y, c1, c2, k3, v3
  <2> QED BY Zenon, <1>4, <1>6, <1>7
<1>11. Own(y.v, w) = Intermediate(w, k3) /\ Same(w, v, y.v)
  <2> HIDE DEF y, v3, k3
  <2> QED BY Zenon, <1>3, <1>6
<1> HIDE DEF y, v3, c1, c2, h1
<1> QED BY Zenon, <1>5, <1>8, <1>9, <1>10, <1>11 DEF Encoded3

\* decode_message_3 without the chaining key fails and leaves the vault without it.
LEMMA DecodeMessage3Broken ==
  ASSUME NEW w, NEW x, NEW a, NEW re, NEW rs, NEW n \in Nat, NEW h, NEW ck, NEW v, NEW m, x.ok,
         Has(x, HandshakeState(a, re, rs, n, h, ck), v), <<w, "ck", ck>> \notin v
  PROVE  StaysBroken(w, DecodeMessage3(w, x, m), ck, v)
<1> DEFINE p1 == m[1]
           q1 == m[1].p
           p2 == m[2]
           b == HashAndDecrypt(w, x, p1)
           c == SetRs(b, q1)
           d == DhHkdf(w, c, E(w), q1)
           y == HashAndDecrypt(w, d, p2)
           u == v \cup {<<w, "dh", {E(w), q1}>>}
<1> HIDE DEF p1, q1, p2
<1>1. ~b.ok => Has(b, HandshakeState(a, re, rs, n, h, ck), v)
  BY ZenonT(60), HashAndDecryptIs
<1>2. b.ok => Has(b, HandshakeState(a, re, rs, n + 1, <<h, p1>>, ck), v)
  BY Zenon, HashAndDecryptIs
<1>3. CASE ~b.ok
  <2>1. DecodeMessage3(w, x, m) = b
    BY <1>3 DEF DecodeMessage3, p1
  <2> HIDE DEF b
  <2>2. b.v = v
    BY Zenon, <1>1, <1>3, Fields
  <2> QED BY Zenon, <1>3, <2>1, <2>2 DEF StaysBroken, Same
<1>4. CASE b.ok
  <2>1. DecodeMessage3(w, x, m) = y
    BY Zenon, <1>4 DEF DecodeMessage3, p1, q1, p2
  <2>2. c.ok /\ Has(c, HandshakeState(a, re, q1, n + 1, <<h, p1>>, ck), v)
    <3> HIDE DEF b
    <3>1. c.ok = b.ok /\ Has(c, HandshakeState(a, re, q1, n + 1, <<h, p1>>, ck), v)
      BY Zenon, <1>2, <1>4, SetRsIs
    <3> QED BY <1>4, <3>1
  <2>3. ~d.ok /\ Has(d, HandshakeState(a, re, q1, n + 1, <<h, p1>>, ck), u)
    <3> HIDE DEF c
    <3> QED BY Zenon, <2>2, DhHkdfIs
  <2>4. ~y.ok /\ Has(y, HandshakeState(a, re, q1, n + 1, <<h, p1>>, ck), u)
    <3> HIDE DEF d, u
    <3>1. n + 1 \in Nat
      OBVIOUS
    <3> QED BY Zenon, <2>3, <3>1, HashAndDecryptIs
  <2>5. y.v = u
    <3> HIDE DEF y, u
    <3> QED BY Zenon, <2>4, Fields
  <2>6. Same(w, v, u) /\ <<w, "ck", ck>> \notin u
    BY DEF Same
  <2> HIDE DEF y, u
  <2> QED BY Zenon, <2>1, <2>4, <2>5, <2>6 DEF StaysBroken
<1> QED BY Zenon, <1>3, <1>4

Decoded3(w, y, a, re, ck, v, m) ==
    LET k3 == <<ck, {E(w), m[1].p}>>
    IN  /\ Same(w, v, y.v)
        /\ \/ ~y.ok /\ \E k : Own(y.v, w) = Intermediate(w, k)
           \/ /\ y.ok /\ m[1] # Junk /\ m[1].k = ck /\ m[2] # Junk /\ m[2].k = k3
              /\ Has(y, HandshakeState(a, re, m[1].p, 1, y.st.h, k3), y.v)
              /\ Own(y.v, w) = Intermediate(w, k3)

\* decode_message_3 fails, or the two parts were sealed with the chaining key of the
\* state and the one made with the static key in the message.
LEMMA DecodeMessage3Is ==
  ASSUME NEW w, NEW x, NEW a, NEW re, NEW rs, NEW n \in Nat, NEW h, NEW ck, NEW v, NEW m, x.ok,
         Has(x, HandshakeState(a, re, rs, n, h, ck), v), Own(v, w) = Intermediate(w, ck)
  PROVE  Decoded3(w, DecodeMessage3(w, x, m), a, re, ck, v, m)
<1> DEFINE p1 == m[1]
           q1 == m[1].p
           p2 == m[2]
           k3 == <<ck, {E(w), q1}>>
           v3 == Replace(w, v, ck, k3)
           h1 == <<h, p1>>
           b == HashAndDecrypt(w, x, p1)
           c == SetRs(b, q1)
           d == DhHkdf(w, c, E(w), q1)
           y == HashAndDecrypt(w, d, p2)
<1> HIDE DEF p1, q1, p2
<1>1. ~b.ok => Has(b, HandshakeState(a, re, rs, n, h, ck), v)
  BY ZenonT(60), HashAndDecryptIs
<1>2. b.ok => p1 # Junk /\ p1.k = ck /\ Has(b, HandshakeState(a, re, rs, n + 1, h1, ck), v)
  BY HashAndDecryptIs
<1>3. Own(v3, w) = Intermediate(w, k3) /\ Same(w, v, v3) /\ <<w, "ck", ck>> \in v /\ Same(w, v, v)
  <2> HIDE DEF k3
  <2>1. Own(v3, w) = Intermediate(w, k3) /\ Same(w, v, v3)
    BY Zenon, ReplaceOwn
  <2>2. <<w, "ck", ck>> \in v
    BY HasKey
  <2>3. Same(w, v, v)
    BY Zenon DEF Same
  <2> QED BY Zenon, <2>1, <2>2, <2>3
<1>4. CASE ~b.ok
  <2>1. DecodeMessage3(w, x, m) = b
    BY <1>4 DEF DecodeMessage3, p1
  <2> HIDE DEF b
  <2>2. b.v = v
    BY Zenon, <1>1, <1>4, Fields
  <2> QED BY Zenon, <1>3, <1>4, <2>1, <2>2 DEF Decoded3
<1>5. CASE b.ok
  <2>1. DecodeMessage3(w, x, m) = y
    BY Zenon, <1>5 DEF DecodeMessage3, p1, q1, p2
  <2>2. c.ok /\ Has(c, HandshakeState(a, re, q1, n + 1, h1, ck), v)
    <3> HIDE DEF b, h1
    <3>1. c.ok = b.ok /\ Has(c, HandshakeState(a, re, q1, n + 1, h1, ck), v)
      BY Zenon, <1>2, <1>5, SetRsIs
    <3> QED BY <1>5, <3>1
  <2>3. d.ok /\ Has(d, HandshakeState(a, re, q1, 0, h1, k3), v3)
    <3> HIDE DEF c, h1
    <3> QED BY ZenonT(60), <1>3, <2>2, DhHkdfSucceeds
  <2>4. \/ ~y.ok /\ y.v = v3
        \/ y.ok /\ p2 # Junk /\ p2.k = k3 /\ Has(y, HandshakeState(a, re, q1, 1, <<h1, p2>>, k3), v3)
    <3> HIDE DEF d, h1, k3, v3
    <3>1. ~y.ok => Has(y, HandshakeState(a, re, q1, 0, h1, k3), v3)
      BY ZenonT(60), <2>3, HashAndDecryptIs
    <3>2. y.ok => p2 # Junk /\ p2.k = k3 /\ Has(y, HandshakeState(a, re, q1, 0 + 1, <<h1, p2>>, k3), v3)
      BY <2>3, HashAndDecryptIs
    <3> HIDE DEF y
    <3> QED BY <3>1, <3>2, Fields
  <2>5. CASE ~y.ok /\ y.v = v3
    <3> HIDE DEF y, v3, k3
    <3> QED BY Zenon, <1>3, <2>1, <2>5 DEF Decoded3
  <2>6. CASE y.ok /\ p2 # Junk /\ p2.k = k3 /\ Has(y, HandshakeState(a, re, q1, 1, <<h1, p2>>, k3), v3)
    <3> HIDE DEF y, v3, k3, h1
    <3>1. y.st = HandshakeState(a, re, q1, 1, <<h1, p2>>, k3) /\ y.v = v3
      BY Zenon, <2>6, Fields
    <3>2. y.st.h = <<h1, p2>>
      BY <3>1 DEF HandshakeState
    <3>3. p1 # Junk /\ p1.k = ck
      BY Zenon, <1>2, <1>5
    <3> QED BY ZenonT(60), <1>3, <2>1, <2>6, <3>1, <3>2, <3>3 DEF Decoded3, k3, p1, q1, p2
  <2> QED BY Zenon, <2>4, <2>5, <2>6
<1> QED BY <1>4, <1>5

\* set_final_state leaves the two keys of the channel and nothing else.
LEMMA SetFinalStateIs ==
  ASSUME NEW w, NEW x, NEW a, NEW re, NEW rs, NEW n, NEW h, NEW ck, NEW v,
         Has(x, HandshakeState(a, re, rs, n, h, ck), v), Own(v, w) = Intermediate(w, ck)
  PROVE  LET y == SetFinalState(w, x)
         IN  /\ y.st = HandshakeState("Ready", re, rs, n, h, ck)
             /\ Own(y.v, w) = {<<w, "k1", ck>>, <<w, "k2", ck>>} /\ Same(w, v, y.v)
<1> DEFINE y == SetFinalState(w, x)
           u == (v \ Intermediate(w, ck)) \cup {<<w, "k1", ck>>, <<w, "k2", ck>>}
<1>1. x.st.ck = ck
  BY Fields DEF HandshakeState
<1>2. y = [x EXCEPT !.st.status = "Ready", !.v = (@ \ Intermediate(w, ck)) \cup {<<w, "k1", ck>>, <<w, "k2", ck>>}]
  BY <1>1 DEF SetFinalState
<1>3. y = [Computation(x.ok, HandshakeState(a, re, rs, n, h, ck), v) EXCEPT
             !.st.status = "Ready", !.v = (@ \ Intermediate(w, ck)) \cup {<<w, "k1", ck>>, <<w, "k2", ck>>}]
  BY Zenon, <1>2 DEF Has
<1>4. y.st = HandshakeState("Ready", re, rs, n, h, ck) /\ y.v = u
  BY <1>3 DEF Computation, HandshakeState
<1>5. Own(u, w) = {<<w, "k1", ck>>, <<w, "k2", ck>>}
  BY DEF Own
<1>6. Same(w, v, u)
  BY DEF Same, Intermediate
<1> HIDE DEF y, u
<1> QED BY Zenon, <1>4, <1>5, <1>6 DEF y

(***************************************************************************)
(* Keys and messages.                                                      *)
(***************************************************************************)
\* A pair is neither its first part paired with something nor the empty tuple.
LEMMA PairIs ==
  ASSUME NEW a, NEW b, NEW c, NEW d
  PROVE  /\ <<a, b>> = <<c, d>> => a = c /\ b = d
         /\ <<a, b>> # <<>>
OBVIOUS

\* The chaining keys tell the workers and the number of secrets.
LEMMA KeysDiffer ==
  ASSUME NEW i \in Initiators, NEW r \in Responders, NEW j \in Initiators, NEW q \in Responders
  PROVE  /\ Key1(i, r) = Key1(j, q) => i = j /\ r = q
         /\ Key2(i, r) = Key2(j, q) => i = j /\ r = q
         /\ Key3(i, r) = Key3(j, q) => i = j /\ r = q
         /\ Key2(i, r) # Key3(j, q)
         /\ Key1(i, r) # <<>> /\ Key2(i, r) # <<>> /\ Key3(i, r) # <<>>
<1>0. i # q /\ j # r
  BY HandshakeAssumption
<1>1. Key1(i, r) = Key1(j, q) => i = j /\ r = q
  <2>1. (E(i) = E(j) => i = j) /\ (E(r) = E(q) => r = q) /\ E(i) # E(q) /\ E(j) # E(r)
    BY <1>0, PairIs DEF E
  <2>2. {E(i), E(r)} = {E(j), E(q)} => i = j /\ r = q
    BY <2>1
  <2> QED BY <2>2, PairIs DEF Key1
<1>2. Key2(i, r) = Key2(j, q) => Key1(i, r) = Key1(j, q)
  BY PairIs DEF Key2
<1>3. Key3(i, r) = Key3(j, q) => Key2(i, r) = Key2(j, q)
  BY PairIs DEF Key3
<1>4. Key1(i, r) # <<>> /\ Key2(i, r) # <<>> /\ Key3(i, r) # <<>> /\ Key1(j, q) # <<>>
  BY PairIs DEF Key1, Key2, Key3
<1>5. Key2(i, r) # Key3(j, q)
  <2>1. Key2(i, r) = Key3(j, q) => Key1(i, r) = Key2(j, q)
    BY PairIs DEF Key2, Key3
  <2>2. Key1(i, r) = Key2(j, q) => <<>> = Key1(j, q)
    BY PairIs DEF Key1, Key2
  <2> QED BY <2>1, <2>2, <1>4
<1> QED BY Zenon, <1>1, <1>2, <1>3, <1>4, <1>5

\* Who a message is for says which message it is.
LEMMA Addressed ==
  ASSUME MessageInv, NEW m \in net
  PROVE  /\ m.to = Listener => FirstMessage(m)
         /\ \A r \in Responders : m.to = <<r>> => FirstMessage(m)
         /\ \A i \in Initiators : m.to = i => SecondMessage(m)
         /\ \A r \in Responders : m.to = r => ThirdMessage(m)
<1>1. FirstMessage(m) \/ SecondMessage(m) \/ ThirdMessage(m)
  BY Zenon DEF MessageInv
<1>2. FirstMessage(m) => m.to = Listener \/ \E r \in Responders : m.to = <<r>>
  BY Zenon DEF FirstMessage
<1>3. SecondMessage(m) => m.to \in Initiators
  BY Zenon DEF SecondMessage
<1>4. ThirdMessage(m) => m.to \in Responders
  BY Zenon DEF ThirdMessage
<1> QED BY <1>1, <1>2, <1>3, <1>4, HandshakeAssumption, SMTT(60)

\* A second message opens only under the key of its sender and its reader, which
\* has mixed nothing in before.
LEMMA SecondMessageOpens ==
  ASSUME NEW m, SecondMessage(m), NEW i \in Initiators, NEW ck,
         m.parts[2] # Junk, m.parts[2].k = <<ck, {E(i), m.parts[1]}>>
  PROVE  ck = <<>> /\ m.parts[1] = E(m.from) /\ m.parts[2].p = S(m.from)
<1> DEFINE p1 == m.parts[1]
           f == m.from
<1>1. PICK j \in Initiators : m.parts[2].k = Key1(j, f) /\ m.parts[2].p = S(f)
  BY DEF SecondMessage
<1>2. f \in Responders
  BY DEF SecondMessage
<1>3. <<ck, {E(i), p1}>> = << <<>>, {E(j), E(f)}>>
  BY Zenon, <1>1 DEF Key1
<1> HIDE DEF p1, f
<1>4. ck = <<>> /\ {E(i), p1} = {E(j), E(f)}
  BY Zenon, <1>3, PairIs
<1>5. E(i) # E(f)
  BY <1>2, HandshakeAssumption DEF E
<1>6. p1 = E(f)
  BY Zenon, <1>4, <1>5
<1> QED BY Zenon, <1>1, <1>4, <1>6 DEF p1, f

\* A third message opens only under the key its sender has completed.
LEMMA ThirdMessageOpens ==
  ASSUME NEW m, ThirdMessage(m), NEW i \in Initiators, NEW r \in Responders, NEW ck \in {Key2(i, r), Key3(i, r)},
         m.parts[1] # Junk, m.parts[1].k = ck
  PROVE  /\ ck = Key2(i, r) /\ m.from = i /\ m.parts[1].p = S(i)
         /\ hs[i].status = "Ready" /\ hs[i].ck = Key3(i, r)
<1> DEFINE p1 == m.parts[1]
           f == m.from
<1>1. f \in Initiators
  BY DEF ThirdMessage
<1>2. ck # <<>>
  BY KeysDiffer
<1>3. p1 # Data
  BY <1>2 DEF Data
<1>4. PICK q \in Responders : hs[f].ck = Key3(f, q) /\ p1.k = Key2(f, q) /\ p1.p = S(f)
  BY Zenon, <1>3 DEF ThirdMessage
<1>5. hs[f].status = "Ready"
  BY DEF ThirdMessage
<1> HIDE DEF p1, f
<1>6. ck = Key2(f, q)
  BY Zenon, <1>4 DEF p1
<1>7. ck = Key2(i, r) /\ f = i /\ q = r
  BY <1>1, <1>6, KeysDiffer
<1> QED BY Zenon, <1>4, <1>5, <1>7 DEF p1, f

(***************************************************************************)
(* What a step of one worker leaves alone.                                 *)
(***************************************************************************)
\* Every handshake state is a record of six fields.
LEMMA StateIs ==
  ASSUME TypeOK, NEW w \in Workers
  PROVE  /\ hs[w] = HandshakeState(hs[w].status, hs[w].re, hs[w].rs, hs[w].n, hs[w].h, hs[w].ck)
         /\ hs[w].n \in Nat
         /\ Now(w).ok
         /\ Has(Now(w), HandshakeState(hs[w].status, hs[w].re, hs[w].rs, hs[w].n, hs[w].h, hs[w].ck), vault)
<1>1. hs[w] = HandshakeState(hs[w].status, hs[w].re, hs[w].rs, hs[w].n, hs[w].h, hs[w].ck)
  BY Zenon DEF TypeOK
<1>2. hs[w].n \in Nat
  BY DEF TypeOK
<1> DEFINE st == HandshakeState(hs[w].status, hs[w].re, hs[w].rs, hs[w].n, hs[w].h, hs[w].ck)
<1> HIDE DEF st
<1>3. Now(w) = Computation(TRUE, st, vault)
  BY Zenon, <1>1 DEF Now, st
<1>4. Now(w).ok /\ Has(Now(w), st, vault)
  BY <1>3 DEF Computation, Has
<1> QED BY <1>1, <1>2, <1>4 DEF st

Assigns(w, st) == hs' = [hs EXCEPT ![w] = st]

\* Such an assignment leaves the states of the other workers.
LEMMA OthersStay ==
  ASSUME TypeOK, NEW w \in Workers, NEW st, Assigns(w, st), NEW u \in Workers, u # w
  PROVE  hs'[u] = hs[u]
<1>1. hs' = [hs EXCEPT ![w] = st] /\ DOMAIN hs = Workers
  BY Zenon DEF TypeOK, Assigns
<1> QED BY <1>1

\* A step of one worker, whose handshake is not completed yet.
OneWorker(w) ==
    /\ hs[w].status # "Ready"
    /\ \A u \in Workers : u # w => hs'[u] = hs[u]
    /\ Same(w, vault, vault')

\* What the assignment of a state to the handshake of w makes of all of them.
IsSet(w, a, re, rs, n, ck) ==
  /\ hs' = [u \in Workers |-> HandshakeState(hs'[u].status, hs'[u].re, hs'[u].rs, hs'[u].n, hs'[u].h, hs'[u].ck)]
  /\ \A u \in Workers : hs'[u].status \in Statuses /\ hs'[u].n \in 0..1
  /\ \A u \in Workers : u # w => hs'[u] = hs[u]
  /\ hs'[w].status = a /\ hs'[w].re = re /\ hs'[w].rs = rs /\ hs'[w].n = n /\ hs'[w].ck = ck

\* The states after a step that assigns a new one to w.
LEMMA StateSet ==
  ASSUME TypeOK, NEW w \in Workers, NEW a, NEW re, NEW rs, NEW n, NEW h, NEW ck,
         Assigns(w, HandshakeState(a, re, rs, n, h, ck)),
         a \in Statuses, n \in 0..1
  PROVE  IsSet(w, a, re, rs, n, ck)
<1> DEFINE st == HandshakeState(a, re, rs, n, h, ck)
<1>1. st.status = a /\ st.re = re /\ st.rs = rs /\ st.n = n /\ st.h = h /\ st.ck = ck
  BY DEF HandshakeState
<1>2. st = HandshakeState(st.status, st.re, st.rs, st.n, st.h, st.ck)
  BY Zenon DEF HandshakeState
<1>3. \A u \in Workers : hs[u] = HandshakeState(hs[u].status, hs[u].re, hs[u].rs, hs[u].n, hs[u].h, hs[u].ck)
  BY StateIs
<1>4. hs' = [hs EXCEPT ![w] = st] /\ DOMAIN hs = Workers
  BY Zenon DEF TypeOK, Assigns
<1> HIDE DEF st
<1>5. hs' = [u \in Workers |-> IF u = w THEN st ELSE hs[u]]
  BY ZenonT(60), <1>4
<1>6. hs'[w] = st /\ (\A u \in Workers : u # w => hs'[u] = hs[u]) /\ DOMAIN hs' = Workers
  BY Zenon, <1>5
<1>7. \A u \in Workers : hs'[u] = HandshakeState(hs'[u].status, hs'[u].re, hs'[u].rs, hs'[u].n, hs'[u].h, hs'[u].ck)
  <2> TAKE u \in Workers
  <2>1. CASE u = w
    BY Zenon, <2>1, <1>2, <1>6
  <2>2. CASE u # w
    <3>1. hs'[u] = hs[u]
      BY Zenon, <1>6, <2>2
    <3> QED BY Zenon, <3>1, <1>3
  <2> QED BY Zenon, <2>1, <2>2
<1>8. hs' = [u \in Workers |-> hs'[u]]
  BY Zenon, <1>5
<1>9. \A u \in Workers : hs'[u].status \in Statuses /\ hs'[u].n \in 0..1
  BY Zenon, <1>1, <1>6 DEF TypeOK
<1>10. hs' = [u \in Workers |-> HandshakeState(hs'[u].status, hs'[u].re, hs'[u].rs, hs'[u].n, hs'[u].h, hs'[u].ck)]
  BY <1>7, <1>8
<1>11. hs'[w].status = a /\ hs'[w].re = re /\ hs'[w].rs = rs /\ hs'[w].n = n /\ hs'[w].ck = ck
  BY Zenon, <1>1, <1>6
<1> QED BY ZenonT(60), <1>6, <1>9, <1>10, <1>11 DEF IsSet

\* The other workers keep their place in the key exchange when one that is not
\* ready moves on.
LEMMA StateStep ==
  ASSUME StateInv, NEW w \in Workers, hs[w].status # "Ready",
         \A u \in Workers : u # w => hs'[u] = hs[u] /\ route'[u] = route[u],
         w \in Initiators => InitiatorState(w)',
         w \in Responders => ResponderState(w)'
  PROVE  StateInv'
<1>1. ASSUME NEW i \in Initiators PROVE InitiatorState(i)'
  <2>1. CASE i = w
    BY Zenon, <2>1
  <2>2. CASE i # w
    <3>1. hs'[i] = hs[i]
      BY Zenon, <2>2 DEF Workers
    <3> QED BY ZenonT(60), <3>1 DEF StateInv, InitiatorState
  <2> QED BY Zenon, <2>1, <2>2
<1>2. ASSUME NEW r \in Responders PROVE ResponderState(r)'
  <2>1. CASE r = w
    BY Zenon, <2>1
  <2>2. CASE r # w
    <3>1. hs'[r] = hs[r] /\ route'[r] = route[r]
      BY Zenon, <2>2 DEF Workers
    <3>2. \A i \in Initiators : hs[i].status = "Ready" => hs'[i] = hs[i]
      BY DEF Workers
    <3> QED BY <3>1, <3>2 DEF StateInv, ResponderState
  <2> QED BY Zenon, <2>1, <2>2
<1> QED BY Zenon, <1>1, <1>2 DEF StateInv

\* Messages under way stay what they are when no worker that is ready changes.
LEMMA MessageStep ==
  ASSUME MessageInv, \A u \in Workers : hs[u].status = "Ready" => hs'[u] = hs[u],
         \A m \in net' : m \in net \/ FirstMessage(m)' \/ SecondMessage(m)' \/ ThirdMessage(m)'
  PROVE  MessageInv'
<1> SUFFICES ASSUME NEW m \in net, FirstMessage(m) \/ SecondMessage(m) \/ ThirdMessage(m)
             PROVE  FirstMessage(m)' \/ SecondMessage(m)' \/ ThirdMessage(m)'
  BY Zenon DEF MessageInv
<1>1. CASE FirstMessage(m)
  BY ZenonT(60), <1>1 DEF FirstMessage
<1>2. CASE SecondMessage(m)
  BY <1>2 DEF SecondMessage
<1>3. CASE ThirdMessage(m)
  <2>1. hs'[m.from] = hs[m.from]
    BY Zenon, <1>3 DEF ThirdMessage, Workers
  <2> QED BY ZenonT(60), <1>3, <2>1 DEF ThirdMessage
<1> QED BY Zenon, <1>1, <1>2, <1>3

\* A step of w leaves the secrets of the others alone.
LEMMA VaultStep ==
  ASSUME VaultInv, NEW w \in Workers, Same(w, vault, vault'),
         \A u \in Workers : u # w => /\ hs'[u] = hs[u]
                                     /\ u \in done' <=> u \in done
                                     /\ u \in stopped' <=> u \in stopped,
         WorkerSecrets(w)'
  PROVE  VaultInv'
<1> SUFFICES ASSUME NEW u \in Workers, u # w PROVE WorkerSecrets(u)'
  BY DEF VaultInv
<1>1. Secrets(u)' = Secrets(u)
  BY DEF Secrets, Same
<1>2. \A x : <<u, "ck", x>> \in vault' <=> <<u, "ck", x>> \in vault
  BY DEF Same
<1>3. WorkerSecrets(u)
  BY DEF VaultInv
<1> QED BY ZenonT(60), <1>1, <1>2, <1>3 DEF WorkerSecrets

\* Channels in use are not touched by a step of a worker that is not ready.
LEMMA ChannelStep ==
  ASSUME ChannelInv, TypeOK, NEW w \in Workers, hs[w].status # "Ready",
         \A u \in Workers : u # w => hs'[u] = hs[u] /\ route'[u] = route[u],
         UNCHANGED <<done, stopped, registry>>,
         \A i \in Initiators : create'[i] = "ok" => create[i] = "ok"
  PROVE  ChannelInv'
<1>1. \A u \in done : u \in Workers /\ u # w /\ hs'[u] = hs[u] /\ route'[u] = route[u]
  BY ZenonT(60) DEF ChannelInv, TypeOK
<1>2. \A c \in registry : c \in done \X Workers /\ c[1] \in done
  BY DEF ChannelInv
<1>3. \A c \in registry : hs'[c[1]] = hs[c[1]]
  BY Zenon, <1>1, <1>2
<1> QED BY Zenon, <1>1, <1>2, <1>3 DEF ChannelInv

(***************************************************************************)
(* One lemma for each action.                                              *)
(***************************************************************************)
\* The faults stay within their budget.
LEMMA FaultsTyped ==
  ASSUME TypeOK, NEW kinds, IsFiniteSet(kinds), Faults(kinds)
  PROVE  faults' \in 0..MaxFaults
<1>1. Cardinality(kinds) \in Nat
  BY Zenon, FS_CardinalityType
<1>2. faults \in Nat /\ MaxFaults \in Nat
  BY HandshakeAssumption DEF TypeOK
<1> QED BY <1>1, <1>2 DEF Faults

\* The sets of faults of one step are finite.
LEMMA FaultsFinite ==
  ASSUME NEW again
  PROVE  /\ IsFiniteSet({}) /\ IsFiniteSet({"send"}) /\ IsFiniteSet({"refuse"})
         /\ IsFiniteSet({"lose"}) /\ IsFiniteSet({"damage"})
         /\ IsFiniteSet(Repeat(again)) /\ IsFiniteSet(Repeat(again) \cup {"send"})
<1>1. IsFiniteSet({}) /\ \A x : IsFiniteSet({x})
  BY ZenonT(60), FS_EmptySet, FS_Singleton
<1>2. IsFiniteSet(Repeat(again))
  BY Zenon, <1>1 DEF Repeat
<1>3. IsFiniteSet(Repeat(again) \cup {"send"})
  BY Zenon, <1>2, FS_AddElement
<1> QED BY Zenon, <1>1, <1>2, <1>3

\* A worker without secrets starts with those of the first chaining key.
LEMMA InitializeIs ==
  ASSUME NEW w, Secrets(w) = {}
  PROVE  /\ Initialize(w).ok
         /\ Has(Initialize(w), HandshakeState("Initial", None, None, 0, <<"protocol">>, <<>>), Initialize(w).v)
         /\ Own(Initialize(w).v, w) = Intermediate(w, <<>>)
         /\ Same(w, vault, Initialize(w).v)
<1> DEFINE st == HandshakeState("Initial", None, None, 0, <<"protocol">>, <<>>)
           v == vault \cup Intermediate(w, <<>>)
<1>1. Initialize(w) = Computation(TRUE, st, v)
  BY DEF Initialize
<1>2. Own(v, w) = Intermediate(w, <<>>) /\ Same(w, vault, v)
  BY DEF Own, Same, Secrets, Intermediate
<1> HIDE DEF st, v
<1>3. Initialize(w).ok /\ Initialize(w).v = v /\ Has(Initialize(w), st, v)
  BY <1>1 DEF Computation, Has
<1> QED BY Zenon, <1>2, <1>3 DEF st

\* Setting the status of a state changes nothing else.
LEMMA StatusSet ==
  ASSUME NEW a, NEW re, NEW rs, NEW n, NEW h, NEW ck, NEW b
  PROVE  [HandshakeState(a, re, rs, n, h, ck) EXCEPT !.status = b] = HandshakeState(b, re, rs, n, h, ck)
BY DEF HandshakeState

\* The secrets of a worker whose handshake is under way.
LEMMA SecretsUnderWay ==
  ASSUME NEW w, Own(vault', w) = Intermediate(w, hs'[w].ck), hs'[w].status \notin {"Absent", "Ready"}
  PROVE  WorkerSecrets(w)'
<1>1. Secrets(w)' = Own(vault', w)
  BY DEF Secrets, Own
<1>2. <<w, "ck", hs'[w].ck>> \in vault'
  BY HasKey
<1> QED BY Zenon, <1>1, <1>2 DEF WorkerSecrets

\* HandshakeWorker::create for an initiator: message 1 is what the sender says.
LEMMA CreateInitiatorKeeps ==
  ASSUME HandshakeInv, NEW i \in Initiators, CreateInitiator(i)
  PROVE  HandshakeInv' /\ OneWorker(i)
<1> USE DEF HandshakeInv
<1> DEFINE x0 == Initialize(i)
           x1 == MixHash(x0, E(i))
           x == EncodeMessage1(i, x0)
           h == << << <<"protocol">>, E(i)>>, "payload1">>
<1>0. i \in Workers /\ hs[i].status = "Absent"
  BY DEF Workers, CreateInitiator
<1>1. Secrets(i) = {}
  BY ZenonT(60), <1>0 DEF VaultInv, WorkerSecrets
<1>2. /\ Has(x0, HandshakeState("Initial", None, None, 0, <<"protocol">>, <<>>), x0.v)
      /\ Own(x0.v, i) = Intermediate(i, <<>>) /\ Same(i, vault, x0.v)
  BY Zenon, <1>1, InitializeIs
<1>3. Has(x, HandshakeState("Initial", None, None, 0, h, <<>>), x0.v)
  <2> HIDE DEF x0
  <2>1. Has(x1, HandshakeState("Initial", None, None, 0, << <<"protocol">>, E(i)>>, <<>>), x0.v)
    BY Zenon, <1>2, MixHashIs
  <2> HIDE DEF x1
  <2>2. Has(MixHash(x1, "payload1"), HandshakeState("Initial", None, None, 0, h, <<>>), x0.v)
    BY Zenon, <2>1, MixHashIs
  <2> QED BY Zenon, <2>2 DEF EncodeMessage1, x1
<1>4. x.st = HandshakeState("Initial", None, None, 0, h, <<>>) /\ x.v = x0.v
  <2> HIDE DEF x, x0
  <2> QED BY Zenon, <1>3, Fields
<1>5. Output2(x) = <<E(i), "payload1">>
  <2> HIDE DEF x
  <2>1. x.st.h = h
    BY <1>4 DEF HandshakeState
  <2> QED BY <2>1 DEF Output2
<1>6. [x.st EXCEPT !.status = "WaitingForMessage2"] = HandshakeState("WaitingForMessage2", None, None, 0, h, <<>>)
  <2> HIDE DEF x
  <2> QED BY <1>4, StatusSet
<1>7. /\ hs' = [hs EXCEPT ![i] = HandshakeState("WaitingForMessage2", None, None, 0, h, <<>>)]
      /\ vault' = x0.v
      /\ net' = net \cup {Message(Listener, i, <<E(i), "payload1">>)}
      /\ create' = [create EXCEPT ![i] = "waiting"]
      /\ UNCHANGED <<route, payload, done, stopped, registry, faults>>
  <2>1. /\ hs' = [hs EXCEPT ![i] = [x.st EXCEPT !.status = "WaitingForMessage2"]]
        /\ vault' = x.v
        /\ net' = net \cup {Message(Listener, i, Output2(x))}
        /\ create' = [create EXCEPT ![i] = "waiting"]
        /\ UNCHANGED <<route, payload, done, stopped, registry, faults>>
    BY DEF CreateInitiator
  <2> HIDE DEF x, x0
  <2> QED BY ZenonT(60), <2>1, <1>4, <1>5, <1>6
<1> HIDE DEF x0, x1, x, h
<1>8. /\ hs' = [u \in Workers |-> HandshakeState(hs'[u].status, hs'[u].re, hs'[u].rs, hs'[u].n, hs'[u].h, hs'[u].ck)]
      /\ \A u \in Workers : hs'[u].status \in Statuses /\ hs'[u].n \in 0..1
      /\ \A u \in Workers : u # i => hs'[u] = hs[u]
      /\ hs'[i].status = "WaitingForMessage2" /\ hs'[i].ck = <<>>
  <2>1. "WaitingForMessage2" \in Statuses /\ 0 \in 0..1
    BY DEF Statuses
  <2>2. Assigns(i, HandshakeState("WaitingForMessage2", None, None, 0, h, <<>>))
    BY <1>7 DEF Assigns
  <2>3. TypeOK
    OBVIOUS
  <2>4. IsSet(i, "WaitingForMessage2", None, None, 0, <<>>)
    BY ZenonT(60), <1>0, <2>1, <2>2, <2>3, StateSet
  <2> QED BY Zenon, <2>4 DEF IsSet
<1>9. TypeOK'
  BY ZenonT(60), <1>7, <1>8 DEF TypeOK
<1>10. StateInv'
  <2>1. InitiatorState(i)'
    BY <1>8 DEF InitiatorState
  <2>2. i \notin Responders
    BY Zenon, HandshakeAssumption
  <2> QED BY ZenonT(60), <1>0, <1>7, <1>8, <2>1, <2>2, StateStep
<1>11. MessageInv'
  <2> DEFINE p == <<E(i), "payload1">>
             m == Message(Listener, i, p)
  <2>1. m.to = Listener /\ m.from = i /\ m.parts = p
    BY DEF Message
  <2>2. p = <<p[1], p[2]>> /\ p[1] = E(i)
    BY Zenon
  <2> HIDE DEF p
  <2>3. FirstMessage(m)'
    BY Zenon, <2>1, <2>2 DEF FirstMessage
  <2>4. \A u \in Workers : hs[u].status = "Ready" => hs'[u] = hs[u]
    BY Zenon, <1>0, <1>8
  <2>5. net' = net \cup {m}
    BY <1>7 DEF p
  <2> HIDE DEF m
  <2> QED BY Zenon, <2>3, <2>4, <2>5, MessageStep
<1>12. VaultInv'
  <2>1. WorkerSecrets(i)'
    BY ZenonT(60), <1>2, <1>7, <1>8, SecretsUnderWay
  <2> QED BY ZenonT(60), <1>0, <1>2, <1>7, <1>8, <2>1, VaultStep
<1>13. ChannelInv'
  <2>1. \A j \in Initiators : create'[j] = "ok" => create[j] = "ok"
    BY <1>7 DEF TypeOK
  <2> QED BY ZenonT(60), <1>0, <1>7, <1>8, <2>1, ChannelStep
<1>14. OneWorker(i)
  BY ZenonT(60), <1>0, <1>2, <1>7, <1>8 DEF OneWorker
<1> QED BY ZenonT(60), <1>9, <1>10, <1>11, <1>12, <1>13, <1>14

\* A step which moves the handshake of w on and completes nothing.
LEMMA MovesOn ==
  ASSUME HandshakeInv, NEW w \in Workers, NEW a, NEW re, NEW rs, NEW n, NEW h, NEW ck,
         hs[w].status # "Ready",
         Assigns(w, HandshakeState(a, re, rs, n, h, ck)),
         a \in Statuses \ {"Absent", "Ready"}, n \in 0..1,
         Own(vault', w) = Intermediate(w, ck), Same(w, vault, vault'),
         route' \in [Workers -> Workers \cup {Listener, None}],
         \A u \in Workers : u # w => route'[u] = route[u],
         payload' \in [Workers -> BOOLEAN], faults' \in 0..MaxFaults,
         UNCHANGED <<done, stopped, registry, create>>,
         hs'[w].status = a /\ hs'[w].ck = ck /\ hs'[w].re = re =>
            (w \in Initiators => InitiatorState(w)') /\ (w \in Responders => ResponderState(w)'),
         \A m \in net' : m \in net \/ FirstMessage(m)' \/ SecondMessage(m)' \/ ThirdMessage(m)'
  PROVE  HandshakeInv' /\ OneWorker(w)
<1>0. TypeOK /\ StateInv /\ MessageInv /\ VaultInv /\ ChannelInv
  BY Zenon DEF HandshakeInv
<1>1. /\ hs' = [u \in Workers |-> HandshakeState(hs'[u].status, hs'[u].re, hs'[u].rs, hs'[u].n, hs'[u].h, hs'[u].ck)]
      /\ \A u \in Workers : hs'[u].status \in Statuses /\ hs'[u].n \in 0..1
      /\ \A u \in Workers : u # w => hs'[u] = hs[u]
      /\ hs'[w].status = a /\ hs'[w].ck = ck /\ hs'[w].re = re
  <2>1. a \in Statuses
    BY Zenon
  <2>2. IsSet(w, a, re, rs, n, ck)
    BY ZenonT(60), <1>0, <2>1, StateSet
  <2> QED BY ZenonT(60), <2>2 DEF IsSet
<1>2. TypeOK'
  BY ZenonT(60), <1>0, <1>1 DEF TypeOK
<1>3. StateInv'
  BY ZenonT(60), <1>0, <1>1, StateStep
<1>4. MessageInv'
  BY Zenon, <1>0, <1>1, MessageStep
<1>5. VaultInv'
  <2>1. WorkerSecrets(w)'
    BY ZenonT(60), <1>1, SecretsUnderWay
  <2> QED BY ZenonT(60), <1>0, <1>1, <2>1, VaultStep
<1>6. ChannelInv'
  BY ZenonT(60), <1>0, <1>1, ChannelStep
<1>7. OneWorker(w)
  BY Zenon, <1>1 DEF OneWorker
<1> QED BY ZenonT(60), <1>2, <1>3, <1>4, <1>5, <1>6, <1>7 DEF HandshakeInv

\* The listener forwards message 1 as it is to the responder it spawns.
LEMMA ListenerKeeps ==
  ASSUME HandshakeInv, NEW m \in net, NEW r \in Responders, NEW again \in BOOLEAN,
         ListenerHandleMessage(m, r, again)
  PROVE  HandshakeInv' /\ OneWorker(r)
<1> DEFINE x == Initialize(r)
           h == <<"protocol">>
           f == Message(<<r>>, m.from, m.parts)
<1>0. /\ r \in Workers /\ hs[r].status = "Absent" /\ hs[r].status # "Ready" /\ m.to = Listener
      /\ TypeOK /\ MessageInv /\ VaultInv
  BY DEF Workers, ListenerHandleMessage, HandshakeInv
<1>1. Secrets(r) = {}
  BY ZenonT(60), <1>0 DEF VaultInv, WorkerSecrets
<1>2. /\ Has(x, HandshakeState("Initial", None, None, 0, h, <<>>), x.v)
      /\ Own(x.v, r) = Intermediate(r, <<>>) /\ Same(r, vault, x.v)
  BY Zenon, <1>1, InitializeIs
<1>3. [x.st EXCEPT !.status = "WaitingForMessage1"] = HandshakeState("WaitingForMessage1", None, None, 0, h, <<>>)
  <2> HIDE DEF x
  <2> QED BY <1>2, Fields, StatusSet
<1>4. /\ hs' = [hs EXCEPT ![r] = [x.st EXCEPT !.status = "WaitingForMessage1"]]
      /\ vault' = x.v
      /\ net' = Take(m, again) \cup {f}
      /\ Faults(Repeat(again))
      /\ UNCHANGED <<route, payload, done, stopped, registry, create>>
  BY DEF ListenerHandleMessage
<1> HIDE DEF x, h
<1>5. faults' \in 0..MaxFaults
  BY ZenonT(60), <1>0, <1>4, FaultsTyped, FaultsFinite
<1>6. "WaitingForMessage1" \in Statuses \ {"Absent", "Ready"} /\ 0 \in 0..1 /\ r \notin Initiators
  BY HandshakeAssumption DEF Statuses
<1>7. hs'[r].status = "WaitingForMessage1" /\ hs'[r].ck = <<>> /\ hs'[r].re = None =>
         (r \in Initiators => InitiatorState(r)') /\ (r \in Responders => ResponderState(r)')
  BY Zenon, <1>6 DEF ResponderState
<1>8. FirstMessage(f)'
  <2>1. FirstMessage(m)
    BY Zenon, <1>0, Addressed
  <2>2. f.to = <<r>> /\ f.from = m.from /\ f.parts = m.parts /\ m = Message(m.to, m.from, <<m.parts[1], m.parts[2]>>)
    BY Zenon, <2>1 DEF Message, FirstMessage
  <2>3. m.parts = <<m.parts[1], m.parts[2]>>
    <3> DEFINE p == <<m.parts[1], m.parts[2]>>
    <3> HIDE DEF p
    <3>1. m = Message(m.to, m.from, p)
      BY Zenon, <2>2 DEF p
    <3>2. m.parts = p
      BY <3>1 DEF Message
    <3> QED BY Zenon, <3>2 DEF p
  <2>4. f = Message(f.to, f.from, <<f.parts[1], f.parts[2]>>)
    BY Zenon, <2>2, <2>3
  <2> HIDE DEF f
  <2> QED BY Zenon, <2>1, <2>2, <2>4 DEF FirstMessage
<1>9. \A e \in net' : e \in net \/ FirstMessage(e)'
  <2> HIDE DEF f
  <2> QED BY Zenon, <1>4, <1>8 DEF Take
<1>10. /\ route' \in [Workers -> Workers \cup {Listener, None}]
       /\ \A u \in Workers : u # r => route'[u] = route[u]
       /\ payload' \in [Workers -> BOOLEAN]
  BY Zenon, <1>0, <1>4 DEF TypeOK
<1> HIDE DEF f
<1>11. Assigns(r, HandshakeState("WaitingForMessage1", None, None, 0, h, <<>>))
  BY ZenonT(60), <1>3, <1>4 DEF Assigns
<1>12. Own(vault', r) = Intermediate(r, <<>>) /\ Same(r, vault, vault')
  BY Zenon, <1>2, <1>4
<1>13. UNCHANGED <<done, stopped, registry, create>>
  BY Zenon, <1>4
<1> QED BY ZenonT(60), <1>0, <1>5, <1>6, <1>7, <1>9, <1>10, <1>11, <1>12, <1>13, MovesOn

\* A handler which fails changes the vault only: the keys of its handshake are all
\* there or the chaining key is gone.
LEMMA FailedKeeps ==
  ASSUME HandshakeInv, NEW w \in Workers, NEW x, NEW m, NEW again, Failed(x, m, again),
         hs[w].status \notin {"Absent", "Ready"}, Same(w, vault, x.v),
         <<w, "ck", hs[w].ck>> \in x.v => Own(x.v, w) = Intermediate(w, hs[w].ck),
         hs[w].status = "WaitingForMessage1" => <<w, "ck", hs[w].ck>> \in x.v
  PROVE  HandshakeInv' /\ OneWorker(w)
<1>0. TypeOK /\ StateInv /\ MessageInv /\ VaultInv /\ ChannelInv
  BY Zenon DEF HandshakeInv
<1>1. /\ vault' = x.v /\ net' \subseteq net /\ Faults(Repeat(again))
      /\ UNCHANGED <<done, registry, create, hs, route, payload, stopped>>
  BY DEF Failed, NoFinalize, Take
<1>2. faults' \in 0..MaxFaults
  BY ZenonT(60), <1>0, <1>1, FaultsTyped, FaultsFinite
<1>3. TypeOK'
  BY ZenonT(60), <1>0, <1>1, <1>2 DEF TypeOK
<1>4. StateInv'
  BY ZenonT(60), <1>0, <1>1 DEF StateInv, InitiatorState, ResponderState
<1>5. MessageInv'
  BY ZenonT(60), <1>0, <1>1, MessageStep
<1>6. VaultInv'
  <2>1. Secrets(w)' = Own(vault', w)
    BY DEF Secrets, Own
  <2>2. WorkerSecrets(w)'
    BY Zenon, <1>1, <2>1 DEF WorkerSecrets
  <2> QED BY ZenonT(60), <1>0, <1>1, <2>2, VaultStep
<1>7. ChannelInv'
  BY ZenonT(60), <1>0, <1>1 DEF ChannelInv
<1>8. OneWorker(w)
  BY Zenon, <1>1 DEF OneWorker
<1> QED BY Zenon, <1>3, <1>4, <1>5, <1>6, <1>7, <1>8 DEF HandshakeInv

\* What a responder sends is a second message ...
LEMMA SecondMessageSent ==
  ASSUME NEW i \in Initiators, NEW r \in Responders, NEW c1, NEW c2,
         c1.k = Key1(i, r), c1.p = S(r), c2.k = Key2(i, r), c2.p = IdentityPayload(r)
  PROVE  SecondMessage(Message(i, r, <<E(r), c1, c2>>))
<1> DEFINE p == <<E(r), c1, c2>>
           m == Message(i, r, p)
<1>1. p = <<p[1], p[2], p[3]>> /\ p[1] = E(r) /\ p[2] = c1 /\ p[3] = c2
  BY Zenon
<1> HIDE DEF p
<1>2. m.to = i /\ m.from = r /\ m.parts = p
  BY Zenon DEF Message
<1>3. m = Message(m.to, m.from, <<m.parts[1], m.parts[2], m.parts[3]>>)
  BY Zenon, <1>1, <1>2
<1> HIDE DEF m
<1>4. SecondMessage(m)
  BY Zenon, <1>1, <1>2, <1>3 DEF SecondMessage
<1> QED BY Zenon, <1>4 DEF m, p

\* ... and what an initiator sends is a third.
LEMMA ThirdMessageSent ==
  ASSUME NEW i \in Initiators, NEW q \in Responders, NEW r \in Responders, NEW c1, NEW c2,
         hs'[i].status = "Ready", hs'[i].ck = Key3(i, r),
         c1 # Data => c1.k = Key2(i, r) /\ c1.p = S(i),
         c2 # Data => c2.k = Key3(i, r) /\ c2.p = IdentityPayload(i)
  PROVE  ThirdMessage(Message(q, i, <<c1, c2>>))'
<1> DEFINE p == <<c1, c2>>
           m == Message(q, i, p)
<1>1. p = <<p[1], p[2]>> /\ p[1] = c1 /\ p[2] = c2
  BY Zenon
<1> HIDE DEF p
<1>2. m.to = q /\ m.from = i /\ m.parts = p
  BY Zenon DEF Message
<1>3. m = Message(m.to, m.from, <<m.parts[1], m.parts[2]>>)
  BY Zenon, <1>1, <1>2
<1> HIDE DEF m
<1>4. ThirdMessage(m)'
  BY Zenon, <1>1, <1>2, <1>3 DEF ThirdMessage
<1> QED BY Zenon, <1>4 DEF m, p

\* The secrets of a handshake that has its chaining key.
LEMMA OwnSecrets ==
  ASSUME VaultInv, NEW w \in Workers, hs[w].status \notin {"Absent", "Ready"}
  PROVE  /\ <<w, "ck", hs[w].ck>> \in vault => Own(vault, w) = Intermediate(w, hs[w].ck)
         /\ hs[w].status = "WaitingForMessage1" => <<w, "ck", hs[w].ck>> \in vault
         /\ Same(w, vault, vault)
BY DEF VaultInv, WorkerSecrets, Secrets, Own, Same

\* A responder reads message 1 and answers the initiator that sent it.
LEMMA HandleMessage1Keeps ==
  ASSUME HandshakeInv, NEW m \in net, NEW r \in Responders, HandleMessage1(r, m)
  PROVE  HandshakeInv' /\ OneWorker(r)
<1> DEFINE s == hs[r]
           p == m.parts
           p1 == m.parts[1]
           p2 == m.parts[2]
           f == m.from
           x == DecodeMessage1(Now(r), p)
           y == EncodeMessage2(r, x)
           h1 == << <<s.h, p1>>, p2>>
           no == FALSE
<1>0. /\ r \in Workers /\ s.status = "WaitingForMessage1" /\ m.to = <<r>> /\ r \notin Initiators
      /\ TypeOK /\ StateInv /\ MessageInv /\ VaultInv
  BY Zenon, HandshakeAssumption DEF Workers, HandleMessage1, HandshakeInv
<1>1. s.status \notin {"Absent", "Ready"} /\ s.ck = <<>>
  BY Zenon, <1>0 DEF StateInv, ResponderState
<1>2. Own(vault, r) = Intermediate(r, s.ck) /\ <<r, "ck", s.ck>> \in vault /\ Same(r, vault, vault)
  BY Zenon, <1>0, <1>1, OwnSecrets
<1>3. FirstMessage(m)
  BY Zenon, <1>0, Addressed
<1>4. f \in Initiators /\ p1 \in {E(f), Junk}
  BY Zenon, <1>3 DEF FirstMessage
<1>5. Has(Now(r), HandshakeState(s.status, s.re, s.rs, s.n, s.h, s.ck), vault) /\ s.n \in Nat /\ Now(r).ok
  BY Zenon, <1>0, StateIs
<1>6. \/ ~x.ok /\ x.v = vault
      \/ p1 # Junk /\ x.ok /\ Has(x, HandshakeState(s.status, p1, s.rs, s.n, h1, s.ck), vault)
  <2> HIDE DEF s, p
  <2>1. \/ ~x.ok /\ x.v = vault
        \/ p[1] # Junk /\ x.ok = Now(r).ok
           /\ Has(x, HandshakeState(s.status, p[1], s.rs, s.n, << <<s.h, p[1]>>, p[2]>>, s.ck), vault)
    BY Zenon, <1>5, DecodeMessage1Is
  <2> QED BY ZenonT(60), <1>5, <2>1 DEF p
<1>7. CASE Failed(x, m, no)
  <2>1. x.v = vault
    BY Zenon, <1>6, <1>7 DEF Failed
  <2> HIDE DEF x, no
  <2> QED BY ZenonT(60), <1>0, <1>1, <1>2, <1>7, <2>1, FailedKeeps
<1>8. CASE /\ x.ok
           /\ hs' = [hs EXCEPT ![r] = [y.st EXCEPT !.status = "WaitingForMessage3"]]
           /\ vault' = y.v
           /\ payload' = [payload EXCEPT ![r] = FALSE]
           /\ route' = [route EXCEPT ![r] = f]
           /\ \/ /\ net' = Take(m, no) \cup {Message(f, r, Output3(y))}
                 /\ Faults({})
              \/ /\ net' = Take(m, no)
                 /\ Faults({"send"})
           /\ NoFinalize /\ UNCHANGED stopped
  <2> DEFINE k1 == <<s.ck, {E(r), E(f)}>>
             k2 == <<k1, {S(r), E(f)}>>
             z == HandshakeState("WaitingForMessage3", E(f), s.rs, 1, y.st.h, k2)
  <2>1. p1 = E(f) /\ Has(x, HandshakeState(s.status, E(f), s.rs, s.n, h1, s.ck), vault)
    BY Zenon, <1>4, <1>6, <1>8
  <2>2. /\ y.st = HandshakeState(s.status, E(f), s.rs, 1, y.st.h, k2)
        /\ Own(y.v, r) = Intermediate(r, k2) /\ Same(r, vault, y.v)
        /\ \E c1, c2 : /\ Output3(y) = <<E(r), c1, c2>>
                       /\ c1.k = k1 /\ c1.p = S(r)
                       /\ c2.k = k2 /\ c2.p = IdentityPayload(r)
    <3> HIDE DEF x, s, h1, f
    <3>1. x.ok
      BY Zenon, <1>8
    <3>2. s.n \in Nat /\ Own(vault, r) = Intermediate(r, s.ck)
      BY Zenon, <1>2, <1>5
    <3>3. Has(x, HandshakeState(s.status, E(f), s.rs, s.n, h1, s.ck), vault)
      BY Zenon, <2>1
    <3>4. Encoded2(r, y, s.status, E(f), s.rs, s.ck, vault)
      BY Zenon, <3>1, <3>2, <3>3, EncodeMessage2Is
    <3> QED BY Zenon, <3>4 DEF Encoded2
  <2>3. k1 = Key1(f, r) /\ k2 = Key2(f, r)
    <3>1. {E(r), E(f)} = {E(f), E(r)} /\ {S(r), E(f)} = {E(f), S(r)}
      OBVIOUS
    <3> QED BY Zenon, <1>1, <3>1 DEF Key1, Key2
  <2> HIDE DEF k1, k2, x, y, no
  <2>4. Assigns(r, z)
    <3>1. [y.st EXCEPT !.status = "WaitingForMessage3"] = z
      BY <2>2, StatusSet
    <3> QED BY ZenonT(60), <1>8, <3>1 DEF Assigns
  <2>5. faults' \in 0..MaxFaults
    BY ZenonT(60), <1>0, <1>8, FaultsTyped, FaultsFinite
  <2>6. /\ route' \in [Workers -> Workers \cup {Listener, None}]
        /\ \A u \in Workers : u # r => route'[u] = route[u]
        /\ route'[r] = f
        /\ payload' \in [Workers -> BOOLEAN]
    BY Zenon, <1>0, <1>4, <1>8 DEF TypeOK, Workers
  <2>7. \A e \in net' : e \in net \/ SecondMessage(e)'
    <3>1. PICK c1, c2 : /\ Output3(y) = <<E(r), c1, c2>>
                        /\ c1.k = Key1(f, r) /\ c1.p = S(r)
                        /\ c2.k = Key2(f, r) /\ c2.p = IdentityPayload(r)
      BY ZenonT(60), <2>2, <2>3
    <3> DEFINE e == Message(f, r, <<E(r), c1, c2>>)
    <3>2. SecondMessage(e)
      BY ZenonT(60), <1>4, <3>1, SecondMessageSent
    <3>3. net' \subseteq net \cup {e}
      BY Zenon, <1>8, <3>1 DEF Take
    <3> HIDE DEF e
    <3>4. SecondMessage(e)'
      BY Zenon, <3>2 DEF SecondMessage
    <3> QED BY Zenon, <3>3, <3>4
  <2>8. "WaitingForMessage3" \in Statuses \ {"Absent", "Ready"} /\ 1 \in 0..1
    BY DEF Statuses
  <2>9. hs'[r].status = "WaitingForMessage3" /\ hs'[r].ck = k2 /\ hs'[r].re = E(f) =>
           (r \in Initiators => InitiatorState(r)') /\ (r \in Responders => ResponderState(r)')
    BY ZenonT(60), <1>0, <1>4, <2>3, <2>6 DEF ResponderState
  <2>10. UNCHANGED <<done, stopped, registry, create>>
    BY Zenon, <1>8 DEF NoFinalize
  <2>11. Own(vault', r) = Intermediate(r, k2) /\ Same(r, vault, vault')
    BY Zenon, <1>8, <2>2
  <2>12. hs[r].status # "Ready"
    BY Zenon, <1>0
  <2> HIDE DEF s, f
  <2> QED BY ZenonT(60), <1>0, <2>4, <2>5, <2>6, <2>7, <2>8, <2>9, <2>10, <2>11, <2>12, MovesOn
<1> QED BY ZenonT(60), <1>7, <1>8 DEF HandleMessage1

\* A step which completes the handshake of w with the peer it has an address for.
LEMMA Completes ==
  ASSUME HandshakeInv, NEW w \in Workers, NEW peer \in Workers, NEW rs, NEW n, NEW h, NEW ck,
         hs[w].status # "Ready", w \notin stopped,
         Assigns(w, HandshakeState("Ready", E(peer), rs, n, h, ck)), n \in 0..1,
         Own(vault', w) = {<<w, "k1", ck>>, <<w, "k2", ck>>}, Same(w, vault, vault'),
         route' \in [Workers -> Workers \cup {Listener, None}],
         \A u \in Workers : u # w => route'[u] = route[u],
         route'[w] = peer,
         payload' \in [Workers -> BOOLEAN], faults' \in 0..MaxFaults,
         stopped' = stopped, Finalize(w, peer) \/ NoFinalize,
         hs'[w].status = "Ready" /\ hs'[w].ck = ck /\ hs'[w].re = E(peer) /\ hs'[w].rs = rs =>
            (w \in Initiators => InitiatorState(w)') /\ (w \in Responders => ResponderState(w)'),
         hs'[w].status = "Ready" /\ hs'[w].ck = ck =>
            \A m \in net' : m \in net \/ ThirdMessage(m)'
  PROVE  HandshakeInv' /\ OneWorker(w)
<1>0. TypeOK /\ StateInv /\ MessageInv /\ VaultInv /\ ChannelInv
  BY Zenon DEF HandshakeInv
<1>1. /\ hs' = [u \in Workers |-> HandshakeState(hs'[u].status, hs'[u].re, hs'[u].rs, hs'[u].n, hs'[u].h, hs'[u].ck)]
      /\ \A u \in Workers : hs'[u].status \in Statuses /\ hs'[u].n \in 0..1
      /\ \A u \in Workers : u # w => hs'[u] = hs[u]
      /\ hs'[w].status = "Ready" /\ hs'[w].ck = ck /\ hs'[w].re = E(peer) /\ hs'[w].rs = rs
  <2>1. "Ready" \in Statuses
    BY Zenon DEF Statuses
  <2>2. IsSet(w, "Ready", E(peer), rs, n, ck)
    BY ZenonT(60), <1>0, <2>1, StateSet
  <2> QED BY Zenon, <2>2 DEF IsSet
<1>2. /\ \A u \in done' : u \in done \/ u = w
      /\ done \subseteq done'
      /\ \A c \in registry' : c \in registry \/ (c = <<w, peer>> /\ w \in done')
      /\ registry \subseteq registry'
      /\ w \in done' => <<w, peer>> \in registry'
      /\ create' \in [Initiators -> {"none", "waiting", "ok", "timeout"}]
      /\ \A i \in Initiators : create'[i] = "ok" => create[i] = "ok" \/ i \in done'
  <2>1. w \notin done
    BY ZenonT(60), <1>0 DEF ChannelInv
  <2>2. create \in [Initiators -> {"none", "waiting", "ok", "timeout"}]
    BY ZenonT(60), <1>0 DEF TypeOK
  <2>3. CASE NoFinalize
    <3>1. done' = done /\ registry' = registry /\ create' = create
      BY Zenon, <2>3 DEF NoFinalize
    <3>2. /\ create' \in [Initiators -> {"none", "waiting", "ok", "timeout"}]
          /\ \A i \in Initiators : create'[i] = "ok" => create[i] = "ok"
      BY Zenon, <2>2, <3>1
    <3> QED BY ZenonT(60), <2>1, <3>1, <3>2
  <2>4. CASE Finalize(w, peer)
    <3>1. done' = done \cup {w} /\ registry' = registry \cup {<<w, peer>>}
      BY Zenon, <2>4 DEF Finalize
    <3>2. create' = IF w \in Initiators /\ create[w] = "waiting" THEN [create EXCEPT ![w] = "ok"] ELSE create
      BY ZenonT(60), <2>4 DEF Finalize
    <3>3. /\ create' \in [Initiators -> {"none", "waiting", "ok", "timeout"}]
          /\ \A i \in Initiators : create'[i] = "ok" => create[i] = "ok" \/ i = w
      BY ZenonT(60), <2>2, <3>2
    <3> QED BY Zenon, <3>1, <3>3
  <2> QED BY ZenonT(60), <2>3, <2>4
<1>3. TypeOK'
  <2>1. done' \subseteq Workers
    BY ZenonT(60), <1>0, <1>2 DEF TypeOK
  <2> QED BY ZenonT(60), <1>0, <1>1, <1>2, <2>1 DEF TypeOK
<1>4. StateInv'
  BY ZenonT(60), <1>0, <1>1, StateStep
<1>5. MessageInv'
  BY ZenonT(60), <1>0, <1>1, MessageStep
<1>6. VaultInv'
  <2>1. Secrets(w)' = Own(vault', w)
    BY Zenon DEF Secrets, Own
  <2>2. WorkerSecrets(w)'
    BY Zenon, <1>1, <2>1 DEF WorkerSecrets
  <2> QED BY ZenonT(60), <1>0, <1>1, <1>2, <2>2, VaultStep
<1>7. ChannelInv'
  <2>1. \A u \in done : u \in Workers /\ u # w /\ hs'[u] = hs[u] /\ route'[u] = route[u]
    BY ZenonT(60), <1>0, <1>1 DEF ChannelInv, TypeOK
  <2>2. \A u \in done' : hs'[u].status = "Ready" /\ route'[u] \in Workers
    <3>1. \A u \in done : hs[u].status = "Ready" /\ route[u] \in Workers
      BY Zenon, <1>0 DEF ChannelInv
    <3>2. hs'[w].status = "Ready" /\ route'[w] \in Workers
      BY Zenon, <1>1
    <3>3. \A u \in done : hs'[u].status = "Ready" /\ route'[u] \in Workers
      BY ZenonT(60), <2>1, <3>1
    <3> QED BY ZenonT(60), <1>2, <3>2, <3>3
  <2>3. \A u \in done' \ stopped' : \E p \in Workers : <<u, p>> \in registry'
    BY ZenonT(60), <1>0, <1>2 DEF ChannelInv
  <2>4. ASSUME NEW c \in registry' PROVE c \in done' \X Workers /\ hs'[c[1]].re = E(c[2])
    <3>1. CASE c \in registry
      <4>1. c \in done \X Workers /\ c[1] \in done /\ hs[c[1]].re = E(c[2])
        BY ZenonT(60), <1>0, <3>1 DEF ChannelInv
      <4> QED BY ZenonT(60), <1>2, <2>1, <4>1
    <3>2. CASE c = <<w, peer>> /\ w \in done'
      BY Zenon, <1>1, <3>2
    <3> QED BY ZenonT(60), <1>2, <3>1, <3>2
  <2>5. \A i \in Initiators : create'[i] = "ok" => i \in done'
    BY ZenonT(60), <1>0, <1>2 DEF ChannelInv
  <2> QED BY ZenonT(60), <2>2, <2>3, <2>4, <2>5 DEF ChannelInv
<1>8. OneWorker(w)
  BY Zenon, <1>1 DEF OneWorker
<1> QED BY ZenonT(60), <1>3, <1>4, <1>5, <1>6, <1>7, <1>8 DEF HandshakeInv

\* A second message read by an initiator that still has its chaining key.
LEMMA SecondMessageDecoded ==
  ASSUME HandshakeInv, NEW i \in Initiators, NEW m \in net, m.to = i, NEW x, x.ok,
         Decoded2(i, x, hs[i].status, hs[i].ck, vault, m.parts)
  PROVE  LET f == m.from IN
         /\ f \in Responders
         /\ Has(x, HandshakeState(hs[i].status, E(f), S(f), 1, x.st.h, Key2(i, f)), x.v)
         /\ Own(x.v, i) = Intermediate(i, Key2(i, f)) /\ Same(i, vault, x.v)
<1> DEFINE f == m.from
           p1 == m.parts[1]
           p2 == m.parts[2]
           q2 == m.parts[2].p
           ck == hs[i].ck
           st == hs[i].status
           k1 == <<ck, {E(i), p1}>>
           k2 == <<k1, {E(i), q2}>>
<1>1. SecondMessage(m) /\ f \in Responders
  BY Zenon, Addressed DEF HandshakeInv, SecondMessage
<1>2. /\ p2 # Junk /\ p2.k = k1
      /\ Has(x, HandshakeState(st, p1, q2, 1, x.st.h, k2), x.v)
      /\ Own(x.v, i) = Intermediate(i, k2) /\ Same(i, vault, x.v)
  <2> HIDE DEF st
  <2> QED BY Zenon DEF Decoded2, st
<1>3. ck = <<>> /\ p1 = E(f) /\ q2 = S(f)
  BY ZenonT(60), <1>1, <1>2, SecondMessageOpens
<1>4. k2 = Key2(i, f)
  BY Zenon, <1>3 DEF Key1, Key2
<1> HIDE DEF k2, st, p1, q2, f
<1> QED BY ZenonT(60), <1>1, <1>2, <1>3, <1>4 DEF f, st

\* Responder r has read, with result x, the third message of i, which is ready.
ThirdFrom(r, x, i) ==
  /\ hs[r].re = E(i) /\ route[r] = i /\ hs[i].status = "Ready" /\ hs[i].ck = Key3(i, r)
  /\ Has(x, HandshakeState(hs[r].status, E(i), S(i), 1, x.st.h, Key3(i, r)), x.v)
  /\ Own(x.v, r) = Intermediate(r, Key3(i, r)) /\ Same(r, vault, x.v)

\* A third message read by a responder that still has its chaining key.
LEMMA ThirdMessageDecoded ==
  ASSUME HandshakeInv, NEW r \in Responders, NEW m \in net, m.to = r, NEW x, x.ok,
         hs[r].status = "WaitingForMessage3",
         Decoded3(r, x, hs[r].status, hs[r].re, hs[r].ck, vault, m.parts)
  PROVE  \E i \in Initiators : ThirdFrom(r, x, i)
<1> DEFINE p1 == m.parts[1]
           q1 == m.parts[1].p
           ck == hs[r].ck
           st == hs[r].status
           re == hs[r].re
           k3 == <<ck, {E(r), q1}>>
<1>1. ThirdMessage(m)
  BY Zenon, Addressed DEF HandshakeInv
<1>2. PICK i \in Initiators : re = E(i) /\ route[r] = i /\ ck \in {Key2(i, r), Key3(i, r)}
  BY Zenon DEF HandshakeInv, StateInv, ResponderState
<1>3. /\ p1 # Junk /\ p1.k = ck
      /\ Has(x, HandshakeState(st, re, q1, 1, x.st.h, k3), x.v)
      /\ Own(x.v, r) = Intermediate(r, k3) /\ Same(r, vault, x.v)
  <2> HIDE DEF st, re
  <2> QED BY Zenon DEF Decoded3, st, re
<1>4. ck = Key2(i, r) /\ q1 = S(i) /\ hs[i].status = "Ready" /\ hs[i].ck = Key3(i, r)
  BY ZenonT(60), <1>1, <1>2, <1>3, ThirdMessageOpens
<1>5. k3 = Key3(i, r)
  <2>1. {E(r), S(i)} = {S(i), E(r)}
    BY Zenon
  <2> QED BY Zenon, <1>4, <2>1 DEF Key3
<1> HIDE DEF k3, st, re, p1, q1, ck
<1>6. Has(x, HandshakeState(st, E(i), S(i), 1, x.st.h, Key3(i, r)), x.v)
  BY ZenonT(60), <1>2, <1>3, <1>4, <1>5
<1> QED BY ZenonT(60), <1>2, <1>3, <1>4, <1>5, <1>6 DEF st, re, ThirdFrom

\* An initiator reads message 2, completes, and answers the responder that sent it.
LEMMA HandleMessage2Keeps ==
  ASSUME HandshakeInv, NEW m \in net, NEW i \in Initiators, NEW again \in BOOLEAN, HandleMessage2(i, m, again)
  PROVE  HandshakeInv' /\ OneWorker(i)
<1> DEFINE s == hs[i]
           f == m.from
           x == DecodeMessage2(i, Now(i), m.parts)
           y == EncodeMessage3(i, x)
           z == SetFinalState(i, y)
<1>0. /\ i \in Workers /\ s.status = "WaitingForMessage2" /\ m.to = i /\ i \notin Responders /\ i \notin stopped
      /\ TypeOK /\ StateInv /\ MessageInv /\ VaultInv
  BY ZenonT(60), HandshakeAssumption DEF Workers, HandleMessage2, HandshakeInv, Alive
<1>1. s.status \notin {"Absent", "Ready", "WaitingForMessage1"}
  BY Zenon, <1>0
<1>2. Has(Now(i), HandshakeState(s.status, s.re, s.rs, s.n, s.h, s.ck), vault) /\ s.n \in Nat /\ Now(i).ok
  BY Zenon, <1>0, StateIs
<1>3. CASE <<i, "ck", s.ck>> \notin vault
  <2> HIDE DEF s
  <2>1. StaysBroken(i, x, s.ck, vault)
    BY Zenon, <1>2, <1>3, DecodeMessage2Broken
  <2> HIDE DEF x
  <2>2. ~x.ok /\ Same(i, vault, x.v) /\ <<i, "ck", s.ck>> \notin x.v
    BY <2>1 DEF StaysBroken
  <2>3. Failed(x, m, again)
    BY Zenon, <2>2 DEF HandleMessage2, x, Refused
  <2> QED BY ZenonT(60), <1>0, <1>1, <2>2, <2>3, FailedKeeps DEF s
<1>4. CASE <<i, "ck", s.ck>> \in vault
  <2>1. Own(vault, i) = Intermediate(i, s.ck)
    BY ZenonT(60), <1>0, <1>1, <1>4, OwnSecrets
  <2>2. Decoded2(i, x, s.status, s.ck, vault, m.parts)
    <3> HIDE DEF s
    <3> QED BY Zenon, <1>2, <2>1, DecodeMessage2Is
  <2>3. CASE Failed(x, m, again)
    <3> HIDE DEF x
    <3>1. ~x.ok
      BY <2>3 DEF Failed
    <3>2. PICK k : Own(x.v, i) = Intermediate(i, k) /\ Same(i, vault, x.v)
      BY ZenonT(60), <2>2, <3>1 DEF Decoded2
    <3>3. <<i, "ck", s.ck>> \in x.v => <<i, "ck", s.ck>> \in Own(x.v, i)
      BY Zenon DEF Own
    <3>4. <<i, "ck", s.ck>> \in Intermediate(i, k) => s.ck = k
      BY Zenon DEF Intermediate
    <3>5. <<i, "ck", s.ck>> \in x.v => Own(x.v, i) = Intermediate(i, s.ck)
      BY Zenon, <3>2, <3>3, <3>4
    <3> QED BY ZenonT(60), <1>0, <1>1, <2>3, <3>2, <3>5, FailedKeeps
  <2>4. ASSUME x.ok
        PROVE  /\ f \in Responders
               /\ Has(x, HandshakeState(s.status, E(f), S(f), 1, x.st.h, Key2(i, f)), x.v)
               /\ Own(x.v, i) = Intermediate(i, Key2(i, f)) /\ Same(i, vault, x.v)
    <3> HIDE DEF x
    <3> QED BY ZenonT(60), <1>0, <2>2, <2>4, SecondMessageDecoded
  <2>5. CASE Refused(i, x, m)
    <3>1. x.ok
      BY Zenon, <2>5 DEF Refused
    <3> DEFINE no == FALSE
               k2 == Key2(i, f)
               h == x.st.h
    <3> HIDE DEF x, f
    <3>2. x.st = HandshakeState(s.status, E(f), S(f), 1, h, k2)
      <4> HIDE DEF s, h, k2
      <4> QED BY ZenonT(60), <2>4, <3>1, Fields DEF h, k2
    <3>3. /\ hs' = [hs EXCEPT ![i] = x.st] /\ vault' = x.v /\ net' = Take(m, no) /\ Faults({"refuse"})
          /\ UNCHANGED <<done, registry, create>> /\ UNCHANGED <<route, payload, stopped>>
      BY <2>5 DEF Refused, NoFinalize
    <3>4. Assigns(i, HandshakeState(s.status, E(f), S(f), 1, h, k2))
      BY ZenonT(60), <3>2, <3>3 DEF Assigns
    <3>5. net' \subseteq net /\ faults' \in 0..MaxFaults
      BY ZenonT(60), <1>0, <3>3, FaultsTyped, FaultsFinite DEF Take
    <3>6. s.status \in Statuses \ {"Absent", "Ready"} /\ 1 \in 0..1
      BY <1>0 DEF Statuses
    <3>7. hs'[i].status = s.status /\ hs'[i].ck = k2 /\ hs'[i].re = E(f) =>
             (i \in Initiators => InitiatorState(i)') /\ (i \in Responders => ResponderState(i)')
      BY ZenonT(60), <1>0, <2>4, <3>1 DEF InitiatorState
    <3>8. Own(vault', i) = Intermediate(i, k2) /\ Same(i, vault, vault')
      BY Zenon, <2>4, <3>1, <3>3
    <3>9. /\ route' \in [Workers -> Workers \cup {Listener, None}] /\ payload' \in [Workers -> BOOLEAN]
          /\ \A u \in Workers : u # i => route'[u] = route[u]
      BY ZenonT(60), <1>0, <3>3 DEF TypeOK
    <3>10. UNCHANGED <<done, stopped, registry, create>> /\ hs[i].status # "Ready"
      BY Zenon, <1>0, <3>3
    <3> HIDE DEF s, k2, h
    <3> QED BY ZenonT(60), <1>0, <3>4, <3>5, <3>6, <3>7, <3>8, <3>9, <3>10, MovesOn
  <2>6. CASE /\ x.ok
             /\ hs' = [hs EXCEPT ![i] = z.st]
             /\ vault' = z.v
             /\ payload' = [payload EXCEPT ![i] = FALSE]
             /\ route' = [route EXCEPT ![i] = f]
             /\ \/ /\ net' = Take(m, again) \cup {Message(f, i, Output2(y))}
                   /\ Faults(Repeat(again))
                   /\ Finalize(i, f)
                \/ /\ net' = Take(m, again)
                   /\ Faults(Repeat(again) \cup {"send"})
                   /\ NoFinalize
             /\ UNCHANGED stopped
    <3> DEFINE h == x.st.h
               g == y.st.h
               k2 == Key2(i, f)
               k3 == Key3(i, f)
    <3>1. /\ f \in Responders /\ x.ok
          /\ Has(x, HandshakeState(s.status, E(f), S(f), 1, h, k2), x.v)
          /\ Own(x.v, i) = Intermediate(i, k2) /\ Same(i, vault, x.v)
      BY ZenonT(60), <2>4, <2>6
    <3>2. Encoded3(i, y, s.status, E(f), S(f), k2, x.v)
      <4> HIDE DEF x, s, h, k2, f
      <4> QED BY Zenon, <3>1, EncodeMessage3Is
    <3>3. /\ Has(y, HandshakeState(s.status, E(f), S(f), 1, g, k3), y.v)
          /\ Own(y.v, i) = Intermediate(i, k3) /\ Same(i, x.v, y.v)
          /\ \E c1, c2 : /\ Output2(y) = <<c1, c2>>
                         /\ c1.k = k2 /\ c1.p = S(i) /\ c2.k = k3 /\ c2.p = IdentityPayload(i)
      <4> HIDE DEF y, x, f, s
      <4> QED BY Zenon, <3>2 DEF Encoded3, Key3
    <3>4. /\ z.st = HandshakeState("Ready", E(f), S(f), 1, g, k3)
          /\ Own(z.v, i) = {<<i, "k1", k3>>, <<i, "k2", k3>>} /\ Same(i, y.v, z.v)
      <4> HIDE DEF y, s, f, g, k3
      <4> QED BY ZenonT(60), <3>3, SetFinalStateIs
    <3> HIDE DEF x, y, z, f, h
    <3>5. Same(i, vault, z.v)
      BY Zenon, <3>1, <3>3, <3>4 DEF Same
    <3>6. Assigns(i, HandshakeState("Ready", E(f), S(f), 1, g, k3))
      BY Zenon, <2>6, <3>4 DEF Assigns
    <3>7. Own(vault', i) = {<<i, "k1", k3>>, <<i, "k2", k3>>} /\ Same(i, vault, vault') /\ stopped' = stopped
      BY Zenon, <2>6, <3>4, <3>5
    <3>8. faults' \in 0..MaxFaults /\ (Finalize(i, f) \/ NoFinalize)
      BY ZenonT(60), <1>0, <2>6, FaultsTyped, FaultsFinite
    <3>9. /\ route' \in [Workers -> Workers \cup {Listener, None}] /\ payload' \in [Workers -> BOOLEAN]
          /\ \A u \in Workers : u # i => route'[u] = route[u]
          /\ route'[i] = f /\ f \in Workers
      BY ZenonT(60), <1>0, <2>6, <3>1 DEF TypeOK, Workers
    <3>10. hs'[i].status = "Ready" /\ hs'[i].ck = k3 /\ hs'[i].re = E(f) /\ hs'[i].rs = S(f) =>
             (i \in Initiators => InitiatorState(i)') /\ (i \in Responders => ResponderState(i)')
      BY Zenon, <1>0, <3>1 DEF InitiatorState
    <3>11. hs'[i].status = "Ready" /\ hs'[i].ck = k3 => \A e \in net' : e \in net \/ ThirdMessage(e)'
      <4> SUFFICES ASSUME hs'[i].status = "Ready", hs'[i].ck = k3 PROVE \A e \in net' : e \in net \/ ThirdMessage(e)'
        OBVIOUS
      <4>1. PICK c1, c2 : /\ Output2(y) = <<c1, c2>>
                          /\ c1.k = k2 /\ c1.p = S(i) /\ c2.k = k3 /\ c2.p = IdentityPayload(i)
        BY Zenon, <3>3
      <4> DEFINE e == Message(f, i, <<c1, c2>>)
      <4>2. ThirdMessage(e)'
        BY ZenonT(60), <3>1, <4>1, ThirdMessageSent
      <4>3. net' \subseteq net \cup {e}
        BY ZenonT(60), <2>6, <4>1 DEF Take
      <4> HIDE DEF e
      <4> QED BY ZenonT(60), <4>2, <4>3
    <3>12. 1 \in 0..1 /\ hs[i].status # "Ready"
      BY <1>0
    <3> HIDE DEF g, k3, s
    <3> QED BY ZenonT(60), <1>0, <3>6, <3>7, <3>8, <3>9, <3>10, <3>11, <3>12, Completes
  <2> QED BY ZenonT(60), <2>3, <2>5, <2>6 DEF HandleMessage2
<1> QED BY Zenon, <1>3, <1>4

\* A responder reads message 3 and completes with the initiator it has answered.
LEMMA HandleMessage3Keeps ==
  ASSUME HandshakeInv, NEW m \in net, NEW r \in Responders, NEW again \in BOOLEAN, HandleMessage3(r, m, again)
  PROVE  HandshakeInv' /\ OneWorker(r)
<1> DEFINE s == hs[r]
           x == DecodeMessage3(r, Now(r), m.parts)
           z == SetFinalState(r, x)
<1>0. /\ r \in Workers /\ s.status = "WaitingForMessage3" /\ m.to = r /\ r \notin Initiators /\ r \notin stopped
      /\ TypeOK /\ StateInv /\ MessageInv /\ VaultInv
  BY ZenonT(60), HandshakeAssumption DEF Workers, HandleMessage3, HandshakeInv, Alive
<1>1. s.status \notin {"Absent", "Ready", "WaitingForMessage1"}
  BY <1>0
<1>2. Has(Now(r), HandshakeState(s.status, s.re, s.rs, s.n, s.h, s.ck), vault) /\ s.n \in Nat /\ Now(r).ok
  BY Zenon, <1>0, StateIs
<1>3. CASE <<r, "ck", s.ck>> \notin vault
  <2> HIDE DEF s
  <2>1. StaysBroken(r, x, s.ck, vault)
    BY <1>2, <1>3, DecodeMessage3Broken
  <2> HIDE DEF x
  <2>2. ~x.ok /\ Same(r, vault, x.v) /\ <<r, "ck", s.ck>> \notin x.v
    BY <2>1 DEF StaysBroken
  <2>3. Failed(x, m, again)
    BY ZenonT(60), <2>2 DEF HandleMessage3, x, Refused
  <2> QED BY ZenonT(60), <1>0, <1>1, <2>2, <2>3, FailedKeeps DEF s
<1>4. CASE <<r, "ck", s.ck>> \in vault
  <2>1. Own(vault, r) = Intermediate(r, s.ck)
    BY Zenon, <1>0, <1>1, <1>4, OwnSecrets
  <2>2. Decoded3(r, x, s.status, s.re, s.ck, vault, m.parts)
    <3> HIDE DEF s
    <3> QED BY Zenon, <1>2, <2>1, DecodeMessage3Is
  <2>3. CASE Failed(x, m, again)
    <3> HIDE DEF x
    <3>1. ~x.ok
      BY <2>3 DEF Failed
    <3>2. PICK k : Own(x.v, r) = Intermediate(r, k) /\ Same(r, vault, x.v)
      BY ZenonT(60), <2>2, <3>1 DEF Decoded3
    <3>3. <<r, "ck", s.ck>> \in x.v => <<r, "ck", s.ck>> \in Own(x.v, r)
      BY DEF Own
    <3>4. <<r, "ck", s.ck>> \in Intermediate(r, k) => s.ck = k
      BY DEF Intermediate
    <3>5. <<r, "ck", s.ck>> \in x.v => Own(x.v, r) = Intermediate(r, s.ck)
      BY <3>2, <3>3, <3>4
    <3> QED BY ZenonT(60), <1>0, <1>1, <2>3, <3>2, <3>5, FailedKeeps
  <2>4. CASE x.ok
    <3> DEFINE h == x.st.h
    <3>1. PICK i \in Initiators :
            /\ s.re = E(i) /\ route[r] = i /\ hs[i].status = "Ready" /\ hs[i].ck = Key3(i, r)
            /\ Has(x, HandshakeState(s.status, E(i), S(i), 1, h, Key3(i, r)), x.v)
            /\ Own(x.v, r) = Intermediate(r, Key3(i, r)) /\ Same(r, vault, x.v)
      <4> HIDE DEF x
      <4>1. \E i \in Initiators : ThirdFrom(r, x, i)
        BY ZenonT(60), <1>0, <2>2, <2>4, ThirdMessageDecoded
      <4> QED BY Zenon, <4>1 DEF ThirdFrom
    <3> DEFINE k3 == Key3(i, r)
    <3>2. 1 \in 0..1 /\ hs[r].status # "Ready" /\ i \in Workers /\ i # r
      BY <1>0 DEF Workers
    <3>3. CASE Refused(r, x, m)
      <4> DEFINE no == FALSE
      <4> HIDE DEF x, h
      <4>1. x.st = HandshakeState(s.status, E(i), S(i), 1, h, k3)
        <5> HIDE DEF s, k3
        <5> QED BY ZenonT(60), <3>1, Fields DEF k3
      <4>2. /\ hs' = [hs EXCEPT ![r] = x.st] /\ vault' = x.v /\ net' = Take(m, no) /\ Faults({"refuse"})
            /\ UNCHANGED <<done, registry, create>> /\ UNCHANGED <<route, payload, stopped>>
        BY Zenon, <3>3 DEF Refused, NoFinalize
      <4>3. Assigns(r, HandshakeState(s.status, E(i), S(i), 1, h, k3))
        BY Zenon, <4>1, <4>2 DEF Assigns
      <4>4. net' \subseteq net /\ faults' \in 0..MaxFaults
        BY ZenonT(60), <1>0, <4>2, FaultsTyped, FaultsFinite DEF Take
      <4>5. s.status \in Statuses \ {"Absent", "Ready"}
        BY Zenon, <1>0 DEF Statuses
      <4>6. hs'[r].status = s.status /\ hs'[r].ck = k3 /\ hs'[r].re = E(i) =>
               (r \in Initiators => InitiatorState(r)') /\ (r \in Responders => ResponderState(r)')
        BY ZenonT(60), <1>0, <3>1, <4>2 DEF ResponderState
      <4>7. Own(vault', r) = Intermediate(r, k3) /\ Same(r, vault, vault')
        BY ZenonT(60), <3>1, <4>2
      <4>8. /\ route' \in [Workers -> Workers \cup {Listener, None}] /\ payload' \in [Workers -> BOOLEAN]
            /\ \A u \in Workers : u # r => route'[u] = route[u]
        BY ZenonT(60), <1>0, <4>2 DEF TypeOK
      <4>9. UNCHANGED <<done, stopped, registry, create>>
        BY Zenon, <4>2
      <4> HIDE DEF s, k3
      <4> QED BY ZenonT(60), <1>0, <3>2, <4>3, <4>4, <4>5, <4>6, <4>7, <4>8, <4>9, MovesOn
    <3>4. CASE /\ hs' = [hs EXCEPT ![r] = z.st]
               /\ vault' = z.v
               /\ net' = Take(m, again)
               /\ Faults(Repeat(again))
               /\ Finalize(r, route[r])
               /\ UNCHANGED <<route, payload, stopped>>
      <4>1. /\ z.st = HandshakeState("Ready", E(i), S(i), 1, h, k3)
            /\ Own(z.v, r) = {<<r, "k1", k3>>, <<r, "k2", k3>>} /\ Same(r, x.v, z.v)
        <5> HIDE DEF x, s, h
        <5>1. Has(x, HandshakeState(s.status, E(i), S(i), 1, h, k3), x.v) /\ Own(x.v, r) = Intermediate(r, k3)
          BY Zenon, <3>1
        <5> HIDE DEF k3
        <5> QED BY ZenonT(60), <5>1, SetFinalStateIs
      <4> HIDE DEF x, z, h
      <4>2. Same(r, vault, z.v)
        BY ZenonT(60), <3>1, <4>1 DEF Same
      <4>3. Assigns(r, HandshakeState("Ready", E(i), S(i), 1, h, k3))
        BY Zenon, <3>4, <4>1 DEF Assigns
      <4>4. Own(vault', r) = {<<r, "k1", k3>>, <<r, "k2", k3>>} /\ Same(r, vault, vault') /\ stopped' = stopped
        BY Zenon, <3>4, <4>1, <4>2
      <4>5. faults' \in 0..MaxFaults /\ Finalize(r, i)
        BY ZenonT(60), <1>0, <3>1, <3>4, FaultsTyped, FaultsFinite
      <4>6. /\ route' \in [Workers -> Workers \cup {Listener, None}] /\ payload' \in [Workers -> BOOLEAN]
            /\ \A u \in Workers : u # r => route'[u] = route[u]
            /\ route'[r] = i
        BY ZenonT(60), <1>0, <3>1, <3>4 DEF TypeOK
      <4>7. hs'[i] = hs[i]
        BY ZenonT(60), <1>0, <3>2, <4>3, OthersStay
      <4>8. hs'[r].status = "Ready" /\ hs'[r].ck = k3 /\ hs'[r].re = E(i) /\ hs'[r].rs = S(i) =>
               (r \in Initiators => InitiatorState(r)') /\ (r \in Responders => ResponderState(r)')
        BY ZenonT(60), <1>0, <3>1, <4>6, <4>7 DEF ResponderState
      <4>9. \A e \in net' : e \in net \/ ThirdMessage(e)'
        BY Zenon, <3>4 DEF Take
      <4> HIDE DEF k3, s
      <4> QED BY ZenonT(60), <1>0, <3>2, <4>3, <4>4, <4>5, <4>6, <4>8, <4>9, Completes
    <3>5. ~Failed(x, m, again)
      BY <2>4 DEF Failed
    <3> QED BY ZenonT(60), <3>3, <3>4, <3>5 DEF HandleMessage3
  <2>5. CASE ~x.ok
    BY ZenonT(60), <2>3, <2>5 DEF HandleMessage3, Refused
  <2> QED BY ZenonT(60), <2>4, <2>5
<1> QED BY <1>3, <1>4

\* A step which changes the messages under way and nothing else but the faults.
LEMMA OnlyMessages ==
  ASSUME HandshakeInv, UNCHANGED <<hs, route, payload, done, stopped, registry, create, vault>>,
         faults' \in 0..MaxFaults,
         \A m \in net' : m \in net \/ FirstMessage(m)' \/ SecondMessage(m)' \/ ThirdMessage(m)'
  PROVE  HandshakeInv'
<1>1. TypeOK'
  BY Zenon DEF HandshakeInv, TypeOK
<1>2. StateInv'
  BY Zenon DEF HandshakeInv, StateInv, InitiatorState, ResponderState
<1>3. MessageInv'
  BY ZenonT(60), MessageStep DEF HandshakeInv
<1>4. VaultInv'
  BY DEF HandshakeInv, VaultInv, WorkerSecrets, Secrets
<1>5. ChannelInv'
  BY Zenon DEF HandshakeInv, ChannelInv
<1> QED BY ZenonT(60), <1>1, <1>2, <1>3, <1>4, <1>5 DEF HandshakeInv

\* Data goes to the responder whose keys the channel has.
LEMMA SendDataKeeps ==
  ASSUME HandshakeInv, NEW i \in Initiators, SendData(i)
  PROVE  HandshakeInv'
<1>1. /\ i \in done /\ hs[route[i]].status = "WaitingForMessage3"
      /\ net' = net \cup {Message(route[i], i, <<Data, Data>>)}
      /\ UNCHANGED <<hs, route, payload, done, stopped, registry, create, vault, faults>>
  BY Zenon DEF SendData
<1>2. hs[i].status = "Ready" /\ route[i] \in Workers
  BY Zenon, <1>1 DEF HandshakeInv, ChannelInv
<1>3. PICK q \in Responders : q = route[i]
  BY ZenonT(60), <1>1, <1>2 DEF HandshakeInv, StateInv, InitiatorState, Workers
<1>4. PICK r \in Responders : hs[i].ck = Key3(i, r)
  BY Zenon, <1>2 DEF HandshakeInv, StateInv, InitiatorState
<1> DEFINE e == Message(q, i, <<Data, Data>>)
<1>5. ThirdMessage(e)'
  <2>1. hs'[i].status = "Ready" /\ hs'[i].ck = Key3(i, r)
    BY Zenon, <1>1, <1>2, <1>4
  <2> QED BY ZenonT(60), <2>1, ThirdMessageSent
<1>6. net' = net \cup {e}
  BY Zenon, <1>1, <1>3
<1> HIDE DEF e
<1>7. faults' \in 0..MaxFaults
  BY ZenonT(60), <1>1 DEF HandshakeInv, TypeOK
<1>8. UNCHANGED <<hs, route, payload, done, stopped, registry, create, vault>>
  BY Zenon, <1>1
<1> QED BY Zenon, <1>5, <1>6, <1>7, <1>8, OnlyMessages

\* A message for nobody is dropped, and the network may lose one.
LEMMA HandleOtherKeeps ==
  ASSUME HandshakeInv, NEW m \in net, HandleOther(m) \/ Lose(m)
  PROVE  HandshakeInv'
<1>1. /\ UNCHANGED <<hs, route, payload, done, stopped, registry, create, vault>>
      /\ net' \subseteq net
      /\ faults' = faults \/ Faults({"lose"})
  BY DEF HandleOther, Lose
<1>2. TypeOK
  BY Zenon DEF HandshakeInv
<1>3. faults' \in 0..MaxFaults
  <2>1. CASE faults' = faults
    BY Zenon, <1>2, <2>1 DEF TypeOK
  <2>2. CASE Faults({"lose"})
    BY ZenonT(60), <1>2, <2>2, FaultsTyped, FaultsFinite
  <2> QED BY Zenon, <1>1, <2>1, <2>2
<1> QED BY ZenonT(60), <1>1, <1>3, OnlyMessages

\* A pair with one part replaced, and a triple.
LEMMA Damaged ==
  ASSUME NEW p, NEW j \in DOMAIN p
  PROVE  /\ p = <<p[1], p[2]>> =>
              \/ [p EXCEPT ![j] = Junk] = <<Junk, p[2]>>
              \/ [p EXCEPT ![j] = Junk] = <<p[1], Junk>>
         /\ p = <<p[1], p[2], p[3]>> =>
              \/ [p EXCEPT ![j] = Junk] = <<Junk, p[2], p[3]>>
              \/ [p EXCEPT ![j] = Junk] = <<p[1], Junk, p[3]>>
              \/ [p EXCEPT ![j] = Junk] = <<p[1], p[2], Junk>>
<1>1. ASSUME NEW a, NEW b, p = <<a, b>>
      PROVE  [p EXCEPT ![j] = Junk] \in {<<Junk, b>>, <<a, Junk>>}
  <2>1. j \in {1, 2}
    BY <1>1
  <2>2. CASE j = 1
    BY <1>1, <2>2
  <2>3. CASE j = 2
    BY <1>1, <2>3
  <2> QED BY ZenonT(60), <2>1, <2>2, <2>3
<1>2. ASSUME NEW a, NEW b, NEW c, p = <<a, b, c>>
      PROVE  [p EXCEPT ![j] = Junk] \in {<<Junk, b, c>>, <<a, Junk, c>>, <<a, b, Junk>>}
  <2>1. j \in {1, 2, 3}
    BY <1>2
  <2>2. CASE j = 1
    BY <1>2, <2>2
  <2>3. CASE j = 2
    BY <1>2, <2>3
  <2>4. CASE j = 3
    BY <1>2, <2>4
  <2> QED BY ZenonT(60), <2>1, <2>2, <2>3, <2>4
<1>3. ASSUME p = <<p[1], p[2]>>
      PROVE  [p EXCEPT ![j] = Junk] \in {<<Junk, p[2]>>, <<p[1], Junk>>}
  <2> DEFINE a == p[1]
             b == p[2]
  <2> HIDE DEF a, b
  <2>1. p = <<a, b>>
    BY Zenon, <1>3 DEF a, b
  <2>2. [p EXCEPT ![j] = Junk] \in {<<Junk, b>>, <<a, Junk>>}
    BY Zenon, <1>1, <2>1
  <2> QED BY Zenon, <2>2 DEF a, b
<1>4. ASSUME p = <<p[1], p[2], p[3]>>
      PROVE  [p EXCEPT ![j] = Junk] \in {<<Junk, p[2], p[3]>>, <<p[1], Junk, p[3]>>, <<p[1], p[2], Junk>>}
  <2> DEFINE a == p[1]
             b == p[2]
             c == p[3]
  <2> HIDE DEF a, b, c
  <2>1. p = <<a, b, c>>
    BY Zenon, <1>4 DEF a, b, c
  <2>2. [p EXCEPT ![j] = Junk] \in {<<Junk, b, c>>, <<a, Junk, c>>, <<a, b, Junk>>}
    BY Zenon, <1>2, <2>1
  <2> QED BY Zenon, <2>2 DEF a, b, c
<1> QED BY Zenon, <1>3, <1>4

\* A part which is damaged says nothing any more.
LEMMA DamageKeeps ==
  ASSUME HandshakeInv, NEW m \in net, NEW j \in DOMAIN m.parts, Damage(m, j)
  PROVE  HandshakeInv'
<1> DEFINE e == [m EXCEPT !.parts[j] = Junk]
           p == m.parts
           d == [p EXCEPT ![j] = Junk]
           p1 == m.parts[1]
           p2 == m.parts[2]
           p3 == m.parts[3]
<1>0. TypeOK /\ MessageInv
  BY DEF HandshakeInv
<1>1. /\ UNCHANGED <<hs, route, payload, done, stopped, registry, create, vault>>
      /\ net' = (net \ {m}) \cup {e} /\ Faults({"damage"})
  BY DEF Damage
<1>2. faults' \in 0..MaxFaults
  BY ZenonT(60), <1>0, <1>1, FaultsTyped, FaultsFinite
<1>3. ASSUME NEW to, NEW from, NEW q, m = Message(to, from, q)
      PROVE  m.parts = q /\ m.to = to /\ m.from = from /\ e = Message(to, from, d)
  BY <1>3 DEF Message
<1>4. ASSUME FirstMessage(m) PROVE FirstMessage(e)'
  <2>1. m = Message(m.to, m.from, <<p1, p2>>)
    BY Zenon, <1>4 DEF FirstMessage
  <2>2. p = <<p1, p2>> /\ e = Message(m.to, m.from, d)
    <3> HIDE DEF p1, p2, e, d
    <3> QED BY <1>3, <2>1
  <2>3. d = <<Junk, p2>> \/ d = <<p1, Junk>>
    BY Zenon, <2>2, Damaged
  <2>4. d = <<d[1], d[2]>> /\ d[1] \in {p1, Junk}
    <3> HIDE DEF d, p1, p2
    <3> QED BY <2>3
  <2> HIDE DEF e, d
  <2>5. e.to = m.to /\ e.from = m.from /\ e.parts = d
    BY Zenon, <2>2 DEF Message
  <2>6. e = Message(e.to, e.from, <<e.parts[1], e.parts[2]>>)
    BY ZenonT(60), <2>2, <2>4, <2>5
  <2> QED BY ZenonT(60), <1>4, <2>4, <2>5, <2>6 DEF FirstMessage
<1>5. ASSUME SecondMessage(m) PROVE SecondMessage(e)'
  <2>1. m = Message(m.to, m.from, <<p1, p2, p3>>)
    BY Zenon, <1>5 DEF SecondMessage
  <2>2. p = <<p1, p2, p3>> /\ e = Message(m.to, m.from, d)
    <3> HIDE DEF p1, p2, p3, e, d
    <3> QED BY <1>3, <2>1
  <2>3. d = <<Junk, p2, p3>> \/ d = <<p1, Junk, p3>> \/ d = <<p1, p2, Junk>>
    BY Zenon, <2>2, Damaged
  <2>4. d = <<d[1], d[2], d[3]>> /\ d[1] \in {p1, Junk} /\ d[2] \in {p2, Junk} /\ d[3] \in {p3, Junk}
    <3> HIDE DEF d, p1, p2, p3
    <3> QED BY <2>3
  <2> HIDE DEF e, d
  <2>5. e.to = m.to /\ e.from = m.from /\ e.parts = d
    BY Zenon, <2>2 DEF Message
  <2>6. e = Message(e.to, e.from, <<e.parts[1], e.parts[2], e.parts[3]>>)
    BY Zenon, <2>2, <2>4, <2>5
  <2> QED BY ZenonT(60), <1>5, <2>4, <2>5, <2>6 DEF SecondMessage
<1>6. ASSUME ThirdMessage(m) PROVE ThirdMessage(e)'
  <2>1. m = Message(m.to, m.from, <<p1, p2>>)
    BY Zenon, <1>6 DEF ThirdMessage
  <2>2. p = <<p1, p2>> /\ e = Message(m.to, m.from, d)
    <3> HIDE DEF p1, p2, e, d
    <3> QED BY <1>3, <2>1
  <2>3. d = <<Junk, p2>> \/ d = <<p1, Junk>>
    BY <2>2, Damaged
  <2>4. d = <<d[1], d[2]>> /\ d[1] \in {p1, Junk} /\ d[2] \in {p2, Junk}
    <3> HIDE DEF d, p1, p2
    <3> QED BY <2>3
  <2> HIDE DEF e, d
  <2>5. e.to = m.to /\ e.from = m.from /\ e.parts = d
    BY <2>2 DEF Message
  <2>6. e = Message(e.to, e.from, <<e.parts[1], e.parts[2]>>)
    BY Zenon, <2>2, <2>4, <2>5
  <2>7. hs'[m.from] = hs[m.from]
    BY Zenon, <1>1
  <2> QED BY ZenonT(60), <1>6, <2>4, <2>5, <2>6, <2>7 DEF ThirdMessage
<1>7. FirstMessage(e)' \/ SecondMessage(e)' \/ ThirdMessage(e)'
  BY ZenonT(60), <1>0, <1>4, <1>5, <1>6 DEF MessageInv
<1> HIDE DEF e
<1> QED BY ZenonT(60), <1>1, <1>2, <1>7, OnlyMessages

\* The caller of create_secure_channel gives up: only its call is affected.
LEMMA CreateTimeoutKeeps ==
  ASSUME HandshakeInv, NEW i \in Initiators, CreateTimeout(i)
  PROVE  HandshakeInv'
<1>0. TypeOK /\ StateInv /\ MessageInv /\ VaultInv /\ ChannelInv
  BY Zenon DEF HandshakeInv
<1>1. /\ create' = [create EXCEPT ![i] = "timeout"]
      /\ UNCHANGED <<hs, route, payload, done, stopped, registry, vault, net, faults>>
  BY Zenon DEF CreateTimeout
<1>2. TypeOK'
  BY Zenon, <1>0, <1>1 DEF TypeOK
<1>3. StateInv'
  BY ZenonT(60), <1>0, <1>1 DEF StateInv, InitiatorState, ResponderState
<1>4. MessageInv'
  BY Zenon, <1>0, <1>1, MessageStep
<1>5. VaultInv'
  BY ZenonT(60), <1>0, <1>1 DEF VaultInv, WorkerSecrets, Secrets
<1>6. ChannelInv'
  <2>1. \A j \in Initiators : create'[j] = "ok" => create[j] = "ok"
    BY Zenon, <1>0, <1>1 DEF TypeOK
  <2> QED BY ZenonT(60), <1>0, <1>1, <2>1 DEF ChannelInv
<1> QED BY ZenonT(60), <1>2, <1>3, <1>4, <1>5, <1>6 DEF HandshakeInv

\* A worker which is shut down takes its channel keys along.
LEMMA ShutdownKeeps ==
  ASSUME HandshakeInv, NEW w \in Workers, Shutdown(w)
  PROVE  HandshakeInv'
<1>0. TypeOK /\ StateInv /\ MessageInv /\ VaultInv /\ ChannelInv /\ w \notin stopped
  BY Zenon DEF HandshakeInv, Shutdown, Alive
<1>1. /\ stopped' = stopped \cup {w}
      /\ registry' = {c \in registry : c[1] # w}
      /\ vault' = IF w \in done THEN {s \in vault : s[1] # w \/ s[2] \notin {"k1", "k2"}} ELSE vault
      /\ UNCHANGED <<hs, route, payload, done, create, net, faults>>
  BY Zenon DEF Shutdown
<1>2. TypeOK'
  <2>1. stopped' \subseteq Workers
    BY Zenon, <1>0, <1>1 DEF TypeOK
  <2> QED BY Zenon, <1>0, <1>1, <2>1 DEF TypeOK
<1>3. StateInv'
  BY ZenonT(60), <1>0, <1>1 DEF StateInv, InitiatorState, ResponderState
<1>4. MessageInv'
  BY ZenonT(60), <1>0, <1>1, MessageStep
<1>5. VaultInv'
  <2>1. Same(w, vault, vault')
    BY Zenon, <1>1 DEF Same
  <2>2. WorkerSecrets(w)
    BY Zenon, <1>0 DEF VaultInv
  <2>3. CASE w \in done
    <3>1. hs[w].status = "Ready" /\ hs'[w].status = "Ready" /\ w \in done' \cap stopped'
      BY Zenon, <1>0, <1>1, <2>3 DEF ChannelInv
    <3>2. Secrets(w) = {<<w, "k1", hs[w].ck>>, <<w, "k2", hs[w].ck>>}
      BY Zenon, <1>0, <2>2, <3>1 DEF WorkerSecrets
    <3>3. Secrets(w)' = {s \in Secrets(w) : s[2] \notin {"k1", "k2"}}
      BY Zenon, <1>1, <2>3 DEF Secrets
    <3>4. Secrets(w)' = {}
      BY <3>2, <3>3
    <3>5. WorkerSecrets(w)'
      BY Zenon, <3>1, <3>4 DEF WorkerSecrets
    <3> QED BY ZenonT(60), <1>0, <1>1, <2>1, <3>5, VaultStep
  <2>4. CASE w \notin done
    <3>1. WorkerSecrets(w)'
      BY Zenon, <1>1, <2>2, <2>4 DEF WorkerSecrets, Secrets
    <3> QED BY <1>0, <1>1, <2>1, <3>1, VaultStep
  <2> QED BY Zenon, <2>3, <2>4
<1>6. ChannelInv'
  <2>1. \A u \in done \ stopped' : \E p \in Workers : <<u, p>> \in registry'
    <3> TAKE u \in done \ stopped'
    <3>1. u # w /\ u \in done \ stopped
      BY <1>1
    <3>2. PICK p \in Workers : <<u, p>> \in registry
      BY ZenonT(60), <1>0, <3>1 DEF ChannelInv
    <3> QED BY Zenon, <1>1, <3>1, <3>2
  <2> QED BY ZenonT(60), <1>0, <1>1, <2>1 DEF ChannelInv
<1> QED BY ZenonT(60), <1>2, <1>3, <1>4, <1>5, <1>6 DEF HandshakeInv

(***************************************************************************)
(* The theorems.                                                           *)
(***************************************************************************)
\* The invariant holds before any worker has started.
LEMMA InitHolds == Init => HandshakeInv
<1> SUFFICES ASSUME Init PROVE HandshakeInv
  OBVIOUS
<1> DEFINE z == HandshakeState("Absent", None, None, 0, <<>>, <<>>)
<1>1. hs = [w \in Workers |-> z] /\ \A w \in Workers : hs[w] = z
  BY ZenonT(60) DEF Init
<1>2. /\ z.status = "Absent" /\ z.n = 0
      /\ z = HandshakeState(z.status, z.re, z.rs, z.n, z.h, z.ck)
  BY Zenon DEF HandshakeState
<1> HIDE DEF z
<1>3. TypeOK
  <2>1. hs = [w \in Workers |-> HandshakeState(hs[w].status, hs[w].re, hs[w].rs, hs[w].n, hs[w].h, hs[w].ck)]
    BY Zenon, <1>1, <1>2
  <2>2. \A w \in Workers : hs[w].status \in Statuses /\ hs[w].n \in 0..1
    BY <1>1, <1>2 DEF Statuses
  <2>3. route \in [Workers -> Workers \cup {Listener, None}] /\ payload \in [Workers -> BOOLEAN]
    BY Zenon DEF Init
  <2>4. /\ create \in [Initiators -> {"none", "waiting", "ok", "timeout"}]
        /\ faults \in 0..MaxFaults /\ done \subseteq Workers /\ stopped \subseteq Workers
    BY HandshakeAssumption DEF Init
  <2> QED BY ZenonT(60), <2>1, <2>2, <2>3, <2>4 DEF TypeOK
<1>4. StateInv
  BY Zenon, <1>1, <1>2 DEF StateInv, InitiatorState, ResponderState, Workers
<1>5. MessageInv
  BY Zenon DEF Init, MessageInv
<1>6. VaultInv
  BY Zenon, <1>1, <1>2 DEF Init, VaultInv, WorkerSecrets, Secrets
<1>7. ChannelInv
  BY Zenon DEF Init, ChannelInv
<1> QED BY ZenonT(60), <1>3, <1>4, <1>5, <1>6, <1>7 DEF HandshakeInv

\* Every step keeps the invariant, and is a step of one worker or moves no handshake.
LEMMA NextKeeps ==
  ASSUME HandshakeInv, Next
  PROVE  /\ HandshakeInv'
         /\ (hs' = hs /\ vault' \subseteq vault) \/ \E w \in Workers : OneWorker(w)
<1>0. Initiators \subseteq Workers /\ Responders \subseteq Workers
  BY DEF Workers
<1>1. CASE \E i \in Initiators : CreateInitiator(i)
  BY Zenon, <1>0, <1>1, CreateInitiatorKeeps
<1>2. CASE \E i \in Initiators : CreateTimeout(i)
  BY ZenonT(60), <1>2, CreateTimeoutKeeps DEF CreateTimeout
<1>3. CASE \E i \in Initiators : SendData(i)
  BY Zenon, <1>3, SendDataKeeps DEF SendData
<1>4. CASE \E m \in net, r \in Responders, again \in BOOLEAN : ListenerHandleMessage(m, r, again)
  BY Zenon, <1>0, <1>4, ListenerKeeps
<1>5. CASE \E m \in net, r \in Responders : HandleMessage1(r, m)
  BY Zenon, <1>0, <1>5, HandleMessage1Keeps
<1>6. CASE \E m \in net, i \in Initiators, again \in BOOLEAN : HandleMessage2(i, m, again)
  BY Zenon, <1>0, <1>6, HandleMessage2Keeps
<1>7. CASE \E m \in net, r \in Responders, again \in BOOLEAN : HandleMessage3(r, m, again)
  BY Zenon, <1>0, <1>7, HandleMessage3Keeps
<1>8. CASE \E m \in net : HandleOther(m) \/ Lose(m)
  BY Zenon, <1>8, HandleOtherKeeps DEF HandleOther, Lose
<1>9. CASE \E m \in net : \E j \in DOMAIN m.parts : Damage(m, j)
  BY Zenon, <1>9, DamageKeeps DEF Damage
<1>10. CASE \E w \in Workers : Shutdown(w)
  BY ZenonT(60), <1>10, ShutdownKeeps DEF Shutdown
<1> QED BY ZenonT(60), <1>1, <1>2, <1>3, <1>4, <1>5, <1>6, <1>7, <1>8, <1>9, <1>10 DEF Next

\* A step which changes no variable keeps the invariant.
LEMMA StutterKeeps ==
  ASSUME HandshakeInv, UNCHANGED vars
  PROVE  HandshakeInv'
<1>1. faults' \in 0..MaxFaults
  BY DEF vars, HandshakeInv, TypeOK
<1>2. UNCHANGED <<hs, route, payload, done, stopped, registry, create, vault>> /\ net' = net
  BY DEF vars
<1> QED BY Zenon, <1>1, <1>2, OnlyMessages

\* The workers, the messages under way, the vault, the registry and the calls fit
\* together in every state, whatever is lost, repeated, reordered, damaged or refused.
THEOREM HandshakeInvariance == Spec => []HandshakeInv
<1>1. HandshakeInv /\ [Next]_vars => HandshakeInv'
  BY Zenon, NextKeeps, StutterKeeps
<1> QED BY InitHolds, <1>1, PTL DEF Spec

\* Every variable keeps its shape.
THEOREM HandshakeTypes == Spec => []TypeOK
<1>1. HandshakeInv => TypeOK
  BY Zenon DEF HandshakeInv
<1> QED BY HandshakeInvariance, <1>1, PTL

\* A finished handshake leaves exactly the two channel keys in the vault, a channel
\* which was opened and shut down leaves nothing.
THEOREM NothingLeftOver == Spec => []NoLeftovers
<1>1. HandshakeInv => NoLeftovers
  BY ZenonT(60) DEF HandshakeInv, VaultInv, WorkerSecrets, NoLeftovers
<1> QED BY HandshakeInvariance, <1>1, PTL

\* The peer named by the registry is the worker the keys are shared with.
THEOREM RegistryTrue == Spec => []RegistryNamesPeer
<1>1. HandshakeInv => RegistryNamesPeer
  BY DEF HandshakeInv, ChannelInv, RegistryNamesPeer
<1> QED BY HandshakeInvariance, <1>1, PTL

\* When create_secure_channel has returned Ok the channel is registered and has its
\* keys, until it is stopped.
THEOREM CreatedMeansOpen == Spec => []OkMeansOpen
<1>1. ASSUME HandshakeInv PROVE OkMeansOpen
  <2> SUFFICES ASSUME NEW i \in Initiators, create[i] = "ok", i \notin stopped
               PROVE  /\ \E p \in Workers : <<i, p>> \in registry
                      /\ {<<i, "k1", hs[i].ck>>, <<i, "k2", hs[i].ck>>} \subseteq vault
    BY Zenon DEF OkMeansOpen
  <2>1. i \in done /\ hs[i].status = "Ready" /\ \E p \in Workers : <<i, p>> \in registry
    BY Zenon, <1>1 DEF HandshakeInv, ChannelInv
  <2>2. Secrets(i) = {<<i, "k1", hs[i].ck>>, <<i, "k2", hs[i].ck>>}
    BY ZenonT(60), <1>1, <2>1 DEF HandshakeInv, VaultInv, WorkerSecrets, Workers
  <2> QED BY Zenon, <2>1, <2>2 DEF Secrets
<1> QED BY HandshakeInvariance, <1>1, PTL

\* Completed handshakes come in pairs: a responder that is ready shares its key and
\* its identities with one initiator, which is ready too.
LEMMA ReadyInPairs ==
  ASSUME HandshakeInv, NEW r \in Responders, hs[r].status = "Ready"
  PROVE  \E i \in Initiators :
            /\ hs[r].rs = S(i) /\ hs[r].ck = Key3(i, r)
            /\ hs[i].status = "Ready" /\ hs[i].ck = Key3(i, r) /\ hs[i].rs = S(r)
<1>1. PICK i \in Initiators : /\ hs[r].rs = S(i) /\ hs[r].ck = Key3(i, r)
                              /\ hs[i].status = "Ready" /\ hs[i].ck = Key3(i, r)
  BY Zenon DEF HandshakeInv, StateInv, ResponderState
<1>2. PICK q \in Responders : hs[i].ck = Key3(i, q) /\ hs[i].rs = S(q)
  BY Zenon, <1>1 DEF HandshakeInv, StateInv, InitiatorState
<1>3. q = r
  <2>1. Key3(i, q) = Key3(i, r)
    BY ZenonT(60), <1>1, <1>2
  <2> QED BY Zenon, <2>1, KeysDiffer
<1> QED BY Zenon, <1>1, <1>2, <1>3

\* A channel that is open on the responder's side is open with exactly one initiator,
\* each encrypts with the key the other decrypts with and knows the other's identity.
THEOREM KeysAgree == Spec => []Agreement
<1>1. ASSUME HandshakeInv PROVE Agreement
  <2> SUFFICES ASSUME NEW r \in Responders \cap done
               PROVE  \E i \in Initiators :
                        /\ hs[i].status = "Ready" /\ hs[i].rs = S(r) /\ hs[r].rs = S(i)
                        /\ EncryptionKey(i) = DecryptionKey(r) /\ DecryptionKey(i) = EncryptionKey(r)
                        /\ \A q \in Responders \cap done : hs[q].rs = S(i) => q = r
    BY Zenon DEF Agreement
  <2>1. \A q \in Responders \cap done : hs[q].status = "Ready"
    BY Zenon, <1>1 DEF HandshakeInv, ChannelInv
  <2>2. PICK i \in Initiators : /\ hs[r].rs = S(i) /\ hs[r].ck = Key3(i, r)
                                /\ hs[i].status = "Ready" /\ hs[i].ck = Key3(i, r) /\ hs[i].rs = S(r)
    BY Zenon, <1>1, <2>1, ReadyInPairs
  <2>3. EncryptionKey(i) = DecryptionKey(r) /\ DecryptionKey(i) = EncryptionKey(r)
    BY ZenonT(60), <2>2, HandshakeAssumption DEF EncryptionKey, DecryptionKey
  <2>4. ASSUME NEW q \in Responders \cap done, hs[q].rs = S(i) PROVE q = r
    <3>1. PICK j \in Initiators : hs[q].rs = S(j) /\ hs[j].ck = Key3(j, q)
      BY Zenon, <1>1, <2>1, ReadyInPairs
    <3>2. j = i
      BY Zenon, <2>4, <3>1, PairIs DEF S
    <3> QED BY <2>2, <3>1, <3>2, KeysDiffer
  <2> QED BY Zenon, <2>2, <2>3, <2>4
<1> QED BY HandshakeInvariance, <1>1, PTL

\* A handshake whose chaining key is gone stays so: every later message fails before
\* the state is assigned.
LEMMA BrokenStays ==
  ASSUME HandshakeInv, Next, NEW w \in Workers, Broken(w)
  PROVE  Broken(w)'
<1> DEFINE s == hs[w]
<1>0. TypeOK /\ s.status \in {"WaitingForMessage2", "WaitingForMessage3"} /\ <<w, "ck", s.ck>> \notin vault
  BY Zenon DEF HandshakeInv, Broken
<1>1. Has(Now(w), HandshakeState(s.status, s.re, s.rs, s.n, s.h, s.ck), vault) /\ s.n \in Nat /\ Now(w).ok
  BY Zenon, <1>0, StateIs
<1>2. CASE hs' = hs /\ vault' \subseteq vault
  BY Zenon, <1>0, <1>2 DEF Broken
<1>3. ASSUME NEW u \in Workers, OneWorker(u), u # w PROVE Broken(w)'
  <2>1. hs'[w] = hs[w] /\ (<<w, "ck", s.ck>> \in vault' <=> <<w, "ck", s.ck>> \in vault)
    BY Zenon, <1>3 DEF OneWorker, Same
  <2> QED BY Zenon, <1>0, <2>1 DEF Broken
<1>4. ASSUME NEW x, NEW m, NEW again, Failed(x, m, again), StaysBroken(w, x, s.ck, vault) PROVE Broken(w)'
  BY Zenon, <1>0, <1>4 DEF Failed, StaysBroken, Broken
<1>5. ASSUME NEW i \in Initiators, NEW m \in net, NEW again \in BOOLEAN, HandleMessage2(i, m, again) PROVE Broken(w)'
  <2>1. OneWorker(i) /\ i \in Workers
    BY Zenon, <1>5, HandleMessage2Keeps DEF Workers
  <2>2. CASE i = w
    <3> DEFINE x == DecodeMessage2(w, Now(w), m.parts)
    <3> HIDE DEF s
    <3>1. StaysBroken(w, x, s.ck, vault)
      BY Zenon, <1>0, <1>1, DecodeMessage2Broken
    <3>2. Failed(x, m, again)
      BY ZenonT(60), <1>5, <2>2, <3>1 DEF HandleMessage2, StaysBroken, Refused
    <3> HIDE DEF x
    <3> QED BY Zenon, <1>4, <3>1, <3>2
  <2> QED BY Zenon, <1>3, <2>1, <2>2
<1>6. ASSUME NEW r \in Responders, NEW m \in net, NEW again \in BOOLEAN, HandleMessage3(r, m, again) PROVE Broken(w)'
  <2>1. OneWorker(r) /\ r \in Workers
    BY Zenon, <1>6, HandleMessage3Keeps DEF Workers
  <2>2. CASE r = w
    <3> DEFINE x == DecodeMessage3(w, Now(w), m.parts)
    <3> HIDE DEF s
    <3>1. StaysBroken(w, x, s.ck, vault)
      BY <1>0, <1>1, DecodeMessage3Broken
    <3>2. Failed(x, m, again)
      BY ZenonT(60), <1>6, <2>2, <3>1 DEF HandleMessage3, StaysBroken, Refused
    <3> HIDE DEF x
    <3> QED BY <1>4, <3>1, <3>2
  <2> QED BY <1>3, <2>1, <2>2
<1>7. ASSUME NEW i \in Initiators, CreateInitiator(i) PROVE Broken(w)'
  <2>1. OneWorker(i) /\ i \in Workers /\ i # w
    BY ZenonT(60), <1>0, <1>7, CreateInitiatorKeeps DEF Workers, CreateInitiator
  <2> QED BY Zenon, <1>3, <2>1
<1>8. ASSUME NEW r \in Responders, NEW m \in net, NEW again \in BOOLEAN, ListenerHandleMessage(m, r, again)
      PROVE  Broken(w)'
  <2>1. OneWorker(r) /\ r \in Workers /\ r # w
    BY ZenonT(60), <1>0, <1>8, ListenerKeeps DEF Workers, ListenerHandleMessage
  <2> QED BY Zenon, <1>3, <2>1
<1>9. ASSUME NEW r \in Responders, NEW m \in net, HandleMessage1(r, m) PROVE Broken(w)'
  <2>1. OneWorker(r) /\ r \in Workers /\ r # w
    BY ZenonT(60), <1>0, <1>9, HandleMessage1Keeps DEF Workers, HandleMessage1
  <2> QED BY Zenon, <1>3, <2>1
<1>10. CASE \/ \E i \in Initiators : CreateTimeout(i) \/ SendData(i)
            \/ \E m \in net : HandleOther(m) \/ Lose(m) \/ (\E j \in DOMAIN m.parts : Damage(m, j))
            \/ \E u \in Workers : Shutdown(u)
  <2>1. hs' = hs /\ vault' \subseteq vault
    BY <1>10 DEF CreateTimeout, SendData, HandleOther, Lose, Damage, Shutdown
  <2> QED BY ZenonT(60), <1>2, <2>1
<1> QED BY ZenonT(60), <1>5, <1>6, <1>7, <1>8, <1>9, <1>10 DEF Next

\* No later message, not even a good one, completes a handshake in which a decode
\* failed after hkdf had deleted the chaining key.
THEOREM BrokenIsFinal == Spec => BrokenForGood
<1>1. HandshakeInv /\ [Next]_vars => [BrokenStep]_vars
  BY Zenon, BrokenStays DEF BrokenStep
<1> QED BY HandshakeInvariance, <1>1, PTL DEF Spec, BrokenForGood

(***************************************************************************)
(* The key exchange implements the abstract agreement on a key.            *)
(***************************************************************************)
\* The key held by a worker that is ready names the initiator and the responder.
HeldInv ==
    /\ \A w \in Workers : hs[w].status # "Ready" => Held(w) = {}
    /\ \A i \in Initiators : hs[i].status = "Ready" =>
         \E r \in Responders : hs[i].ck = Key3(i, r) /\ Held(i) = {<<Key3(i, r), {S(i), S(r)}>>}
    /\ \A r \in Responders : hs[r].status = "Ready" =>
         \E i \in Initiators : /\ Held(r) = {<<Key3(i, r), {S(i), S(r)}>>} /\ Held(i) = Held(r)
                               /\ hs[i].status = "Ready"

\* The keys of completed handshakes (set_final_state) are what HeldInv says.
LEMMA HeldIs == HandshakeInv => HeldInv
<1> SUFFICES ASSUME HandshakeInv PROVE HeldInv
  OBVIOUS
<1>1. \A w \in Workers : hs[w].status # "Ready" => Held(w) = {}
  BY DEF Held
<1>2. ASSUME NEW i \in Initiators, hs[i].status = "Ready"
      PROVE  \E r \in Responders : hs[i].ck = Key3(i, r) /\ Held(i) = {<<Key3(i, r), {S(i), S(r)}>>}
  BY ZenonT(60), <1>2 DEF Held, HandshakeInv, StateInv, InitiatorState
<1>3. ASSUME NEW r \in Responders, hs[r].status = "Ready"
      PROVE  \E i \in Initiators : /\ Held(r) = {<<Key3(i, r), {S(i), S(r)}>>} /\ Held(i) = Held(r)
                                   /\ hs[i].status = "Ready"
  <2>1. PICK i \in Initiators : /\ hs[r].rs = S(i) /\ hs[r].ck = Key3(i, r)
                                /\ hs[i].status = "Ready" /\ hs[i].ck = Key3(i, r) /\ hs[i].rs = S(r)
    BY Zenon, <1>3, ReadyInPairs
  <2>2. {S(r), S(i)} = {S(i), S(r)}
    BY Zenon
  <2>3. Held(r) = {<<Key3(i, r), {S(i), S(r)}>>} /\ Held(i) = {<<Key3(i, r), {S(i), S(r)}>>}
    BY ZenonT(60), <1>3, <2>1, <2>2 DEF Held
  <2> QED BY Zenon, <2>1, <2>3
<1> QED BY Zenon, <1>1, <1>2, <1>3 DEF HeldInv

\* Keys of different pairs of workers are different.
LEMMA HeldDiffer ==
  ASSUME NEW i \in Initiators, NEW r \in Responders, NEW j \in Initiators, NEW q \in Responders,
         i # j \/ r # q
  PROVE  {<<Key3(i, r), {S(i), S(r)}>>} # {<<Key3(j, q), {S(j), S(q)}>>}
<1> DEFINE a == <<Key3(i, r), {S(i), S(r)}>>
           b == <<Key3(j, q), {S(j), S(q)}>>
<1>1. Key3(i, r) # Key3(j, q)
  BY Zenon, KeysDiffer
<1>2. a # b
  BY Zenon, <1>1, PairIs
<1> HIDE DEF a, b
<1>3. {a} # {b}
  BY Zenon, <1>2
<1> QED BY Zenon, <1>3 DEF a, b

\* A step of one worker obtains a key or leaves all of them.
LEMMA OneWorkerImplements ==
  ASSUME HandshakeInv, HandshakeInv', NEW w \in Workers, OneWorker(w)
  PROVE  \/ Abstract!Next
         \/ /\ [i \in Initiators |-> Held(i)]' = [i \in Initiators |-> Held(i)]
            /\ [r \in Responders |-> Held(r)]' = [r \in Responders |-> Held(r)]
<1>1. \A u \in Workers : u # w => Held(u)' = Held(u)
  BY ZenonT(60) DEF OneWorker, Held
<1>2. hs[w].status # "Ready" /\ Held(w) = {}
  BY Zenon DEF OneWorker, Held
<1>3. CASE hs'[w].status # "Ready"
  <2>1. Held(w)' = {}
    BY Zenon, <1>3 DEF Held
  <2>2. \A u \in Workers : Held(u)' = Held(u)
    BY Zenon, <1>1, <1>2, <2>1
  <2> QED BY Zenon, <2>2 DEF Workers
<1>4. CASE hs'[w].status = "Ready" /\ w \in Initiators
  <2>1. PICK f \in Responders : Held(w)' = {<<Key3(w, f), {S(w), S(f)}>>}
    BY ZenonT(60), <1>4 DEF HandshakeInv, StateInv, InitiatorState, Held
  <2>2. ASSUME NEW j \in Initiators PROVE Held(j) # Held(w)'
    <3>1. CASE hs[j].status # "Ready"
      BY ZenonT(60), <2>1, <3>1 DEF Held
    <3>2. CASE hs[j].status = "Ready"
      <4>1. PICK r \in Responders : Held(j) = {<<Key3(j, r), {S(j), S(r)}>>}
        BY ZenonT(60), <3>2, HeldIs DEF HeldInv
      <4>2. j # w
        BY Zenon, <1>2, <3>2
      <4> QED BY ZenonT(60), <1>4, <2>1, <4>1, <4>2, HeldDiffer
    <3> QED BY Zenon, <3>1, <3>2
  <2>3. ASSUME NEW r \in Responders PROVE Held(r) # Held(w)'
    <3>1. CASE hs[r].status # "Ready"
      BY ZenonT(60), <2>1, <3>1 DEF Held
    <3>2. CASE hs[r].status = "Ready"
      <4>1. PICK j \in Initiators : Held(r) = Held(j)
        BY Zenon, <3>2, HeldIs DEF HeldInv
      <4> QED BY Zenon, <2>2, <4>1
    <3> QED BY Zenon, <3>1, <3>2
  <2>4. w \notin Responders
    BY Zenon, <1>4, HandshakeAssumption
  <2>5. [r \in Responders |-> Held(r)]' = [r \in Responders |-> Held(r)]
    BY ZenonT(60), <1>1, <2>4 DEF Workers
  <2>6. [i \in Initiators |-> Held(i)]' = [[i \in Initiators |-> Held(i)] EXCEPT ![w] = Held(w)']
    BY ZenonT(60), <1>1 DEF Workers
  <2>7. Held(w)' # {}
    BY ZenonT(60), <2>1
  <2>8. Abstract!InitiatorObtainsKey(w)
    BY ZenonT(60), <1>2, <1>4, <2>2, <2>3, <2>5, <2>6, <2>7 DEF Abstract!InitiatorObtainsKey
  <2> QED BY Zenon, <1>4, <2>8 DEF Abstract!Next
<1>5. CASE hs'[w].status = "Ready" /\ w \in Responders
  <2>0. w \notin Initiators
    BY Zenon, <1>5, HandshakeAssumption
  <2>1. PICK i \in Initiators : Held(w)' = {<<Key3(i, w), {S(i), S(w)}>>} /\ Held(i)' = Held(w)'
    <3>1. HandshakeInv' => HeldInv'
      BY HeldIs, PTL
    <3> QED BY ZenonT(60), <1>5, <3>1 DEF HeldInv
  <2>2. Held(i) = Held(w)' /\ Held(i) # {}
    BY ZenonT(60), <1>1, <2>0, <2>1 DEF Workers
  <2>3. ASSUME NEW q \in Responders PROVE Held(q) # Held(i)
    <3>1. CASE hs[q].status # "Ready"
      BY Zenon, <2>2, <3>1 DEF Held
    <3>2. CASE hs[q].status = "Ready"
      <4>1. PICK j \in Initiators : Held(q) = {<<Key3(j, q), {S(j), S(q)}>>}
        BY Zenon, <3>2, HeldIs DEF HeldInv
      <4>2. q # w
        BY <1>2, <3>2
      <4> QED BY ZenonT(60), <1>5, <2>1, <2>2, <4>1, <4>2, HeldDiffer
    <3> QED BY Zenon, <3>1, <3>2
  <2>4. [j \in Initiators |-> Held(j)]' = [j \in Initiators |-> Held(j)]
    BY <1>1, <2>0 DEF Workers
  <2>5. [r \in Responders |-> Held(r)]' = [[r \in Responders |-> Held(r)] EXCEPT ![w] = Held(i)]
    BY ZenonT(60), <1>1, <2>2 DEF Workers
  <2>6. Abstract!ResponderObtainsKey(w)
    BY ZenonT(60), <1>2, <1>5, <2>2, <2>3, <2>4, <2>5 DEF Abstract!ResponderObtainsKey
  <2> QED BY Zenon, <1>5, <2>6 DEF Abstract!Next
<1> QED BY ZenonT(60), <1>3, <1>4, <1>5 DEF Workers

\* The key exchange implements the abstract agreement on a key: initiators draw fresh
\* keys, at most one responder ends up with each, and keys are never replaced.
THEOREM ImplementsKeyAgreement == Spec => AgreesOnKey
<1> DEFINE ik == [i \in Initiators |-> Held(i)]
           rk == [r \in Responders |-> Held(r)]
<1>1. Init => Abstract!Init
  <2> SUFFICES ASSUME Init PROVE Abstract!Init
    OBVIOUS
  <2>1. \A w \in Workers : hs[w] = HandshakeState("Absent", None, None, 0, <<>>, <<>>)
    BY ZenonT(60) DEF Init
  <2>2. \A w \in Workers : Held(w) = {}
    BY <2>1 DEF HandshakeState, Held
  <2> QED BY Zenon, <2>2 DEF Abstract!Init, Workers
<1>2. HandshakeInv /\ HandshakeInv' /\ [Next]_vars => [Abstract!Next]_<<ik, rk>>
  <2> SUFFICES ASSUME HandshakeInv, HandshakeInv', [Next]_vars
               PROVE  Abstract!Next \/ (ik' = ik /\ rk' = rk)
    BY Zenon
  <2>1. CASE hs' = hs
    BY Zenon, <2>1 DEF Held
  <2>2. ASSUME NEW w \in Workers, OneWorker(w) PROVE Abstract!Next \/ (ik' = ik /\ rk' = rk)
    BY Zenon, <2>2, OneWorkerImplements
  <2>3. CASE Next
    BY ZenonT(60), <2>1, <2>2, <2>3, NextKeeps
  <2> QED BY Zenon, <2>1, <2>3 DEF vars
<1> QED BY HandshakeInvariance, <1>1, <1>2, PTL DEF Spec, AgreesOnKey, Abstract!Spec
=============================================================================
