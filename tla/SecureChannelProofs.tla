------------------------- MODULE SecureChannelProofs -------------------------
(***************************************************************************)
(* Proofs about the data path of a secure channel, for every interval,     *)
(* bitmap width, number of nonces and number of garbled messages.  The     *)
(* argument: both sides number the intervals alike (EncryptorInv,          *)
(* TrackersInv), so what mark admits lies in an interval whose secret the  *)
(* receiver holds or can derive (InWindow); and the bitmap, one bit wider  *)
(* than the window, remembers every nonce that mark might admit again      *)
(* (MarkedIsNew).                                                          *)
(***************************************************************************)
EXTENDS SecureChannel, FiniteSetTheorems, TLAPS

\* Products with a fixed factor are a whole factor apart.
LEMMA MultMonotone ==
  ASSUME NEW a \in Nat, NEW b \in Nat, NEW k \in Nat, a < b
  PROVE  a * k + k <= b * k
<1>1. PICK d \in Nat : b = a + 1 + d
  <2>1. b - a - 1 \in Nat OBVIOUS
  <2> QED BY <2>1
<1>2. b * k = a * k + k + d * k
  BY <1>1
<1>3. d * k >= 0
  OBVIOUS
<1> QED BY <1>2, <1>3

\* A nonce lies in one renewal interval only (KEY_RENEWAL_INTERVAL).
LEMMA IntervalUnique ==
  ASSUME NEW a \in Nat, NEW b \in Nat, NEW k \in Nat, NEW x \in Nat,
         a * k <= x, x < a * k + k, b * k <= x, x < b * k + k
  PROVE  a = b
<1>1. ~(a < b) BY MultMonotone
<1>2. ~(b < a) BY MultMonotone
<1> QED BY <1>1, <1>2

\* What the division of the code's unsigned integers gives.
LEMMA DivFacts ==
  ASSUME NEW x \in Nat, NEW k \in Nat \ {0}
  PROVE  /\ x \div k \in Nat /\ x % k \in 0 .. k - 1
         /\ x = k * (x \div k) + (x % k)
OBVIOUS

\* Dividing a nonce by the interval gives the number of its interval.
LEMMA DivOfInterval ==
  ASSUME NEW a \in Nat, NEW k \in Nat \ {0}, NEW x \in Nat,
         a * k <= x, x < a * k + k
  PROVE  x \div k = a
<1> DEFINE q == x \div k
<1>1. q \in Nat /\ q * k <= x /\ x < q * k + k
  BY DivFacts
<1> QED BY <1>1, IntervalUnique

\* encrypt renews the key exactly at the first nonce of the next interval.
LEMMA ModOfMultiple ==
  ASSUME NEW g \in Nat, NEW k \in Nat \ {0}, NEW x \in Nat \ {0},
         g * k <= x - 1, x - 1 < g * k + k
  PROVE  x % k = 0 <=> x = g * k + k
<1>1. ASSUME x = g * k + k PROVE x % k = 0
  <2>1. x = (g + 1) * k /\ g + 1 \in Nat BY <1>1
  <2>2. x \div k = g + 1 BY <2>1, DivOfInterval
  <2> DEFINE q == x \div k
             r == x % k
  <2>3. r \in Int /\ x = k * q + r BY DivFacts
  <2> HIDE DEF q, r
  <2>4. k * (g + 1) = (g + 1) * k BY <2>1
  <2> QED BY <2>1, <2>2, <2>3, <2>4 DEF q, r
<1>2. ASSUME x % k = 0 PROVE x = g * k + k
  <2> DEFINE q == x \div k
  <2>1. q \in Nat /\ x = q * k BY <1>2, DivFacts
  <2>2. q # g /\ ~(q < g)
    BY <2>1, MultMonotone
  <2>3. ~(g + 1 < q)
    <3>1. ASSUME g + 1 < q PROVE (g + 1) * k + k <= q * k
      BY <3>1, <2>1, MultMonotone
    <3> QED BY <3>1, <2>1
  <2>4. q = g + 1 BY <2>1, <2>2, <2>3
  <2> QED BY <2>1, <2>4
<1> QED BY <1>1, <1>2

\* A shift distance below the width is not reduced by overflowing_shl.
LEMMA ModSmall ==
  ASSUME NEW s \in Nat, NEW w \in Nat, s < w
  PROVE  s % w = s
<1>1. s \div w = 0 BY DivOfInterval
<1> QED BY <1>1, DivFacts

-----------------------------------------------------------------------------

\* The invariant holds when the handshake hands over the two fresh keys.
LEMMA InitChannelInv == Init => ChannelInv
<1> SUFFICES ASSUME Init PROVE ChannelInv
  OBVIOUS
<1> USE IntervalAssumption, BitmapAssumption, MaxNonceAssumption, NoneAssumption
    DEF Init, NonceTrackerNew, KeyTrackerNew
<1>1. TypeOK
  BY DEF TypeOK, KeyIds, Nonces, NonceTrackers, Bitmaps, KeyTrackers
<1>2. EncryptorInv /\ NetworkInv /\ KeyIdsInv /\ KeysAreLive
  BY DEF EncryptorInv, NetworkInv, KeyIdsInv, KeysAreLive
<1>3. TrackersInv
  BY DEF TrackersInv, InInterval
<1>4. WindowInv /\ AtMostOnce /\ OnlyWhatWasSent
  BY DEF WindowInv, AtMostOnce, OnlyWhatWasSent
<1> QED BY <1>1, <1>2, <1>3, <1>4 DEF ChannelInv

\* Whatever nonce mark admits, get_key has an answer for.
LEMMA MarkedHasKey ==
  ASSUME ChannelInv, dec_open, NEW nonce \in Nonces,
         MarkOk(nonce_tracker, nonce)
  PROVE  GetKeyOk(key_tracker, nonce)
<1> DEFINE start == CurrentIntervalStart(key_tracker)
           cur   == nonce_tracker.current_nonce
           K     == KEY_RENEWAL_INTERVAL
<1>1. /\ K \in Nat \ {0} /\ nonce \in Nat /\ cur \in Nat
      /\ key_tracker.number_of_rekeys \in Nat
  BY IntervalAssumption, MaxNonceAssumption
     DEF ChannelInv, TypeOK, Nonces, NonceTrackers, KeyTrackers
<1>2. start \in Nat /\ start <= cur /\ cur < start + K
  BY <1>1 DEF ChannelInv, TrackersInv, InInterval, CurrentIntervalStart
<1>3. nonce <= cur + K /\ cur <= nonce + K
  BY <1>1 DEF MarkOk
<1>4. ~key_tracker.max_rekeys_reached
  BY DEF ChannelInv, TrackersInv
<1>5. ASSUME nonce < start PROVE key_tracker.previous_key # None
  <2>1. key_tracker.number_of_rekeys # 0
    BY <1>1, <1>5 DEF CurrentIntervalStart
  <2> QED BY <2>1, NoneAssumption DEF ChannelInv, KeysAreLive, TypeOK, KeyIds
<1> HIDE DEF start, cur, K
<1>6. \/ nonce >= start /\ nonce - start < K
      \/ nonce >= start /\ nonce - start >= K /\ nonce - start < 2 * K
      \/ nonce < start /\ start - nonce <= K
  BY <1>1, <1>2, <1>3
<1> QED
  BY <1>4, <1>5, <1>6
     DEF start, K, GetKeyOk, InCurrentInterval, InNextInterval, InPreviousInterval

\* The key decrypt picks is in the vault by then and holds the secret of the
\* interval of the nonce.
LEMMA KeyFitsNonce ==
  ASSUME ChannelInv, dec_open, NEW nonce \in Nonces, NonceAdmitted(nonce)
  PROVE  /\ DecryptionKey(nonce) \in DOMAIN VaultWithKey(nonce)
         /\ VaultWithKey(nonce)[DecryptionKey(nonce)] \in Nat
         /\ InInterval(VaultWithKey(nonce)[DecryptionKey(nonce)], nonce)
<1> DEFINE n == key_tracker.number_of_rekeys
           K == KEY_RENEWAL_INTERVAL
<1>1. K \in Nat \ {0} /\ nonce \in Nat /\ n \in Nat
  BY IntervalAssumption, MaxNonceAssumption
     DEF ChannelInv, TypeOK, Nonces, KeyTrackers
<1>2. n * K \in Nat /\ (n + 1) * K = n * K + K
  BY <1>1
<1>3. CASE InCurrentInterval(key_tracker, nonce)
  <2>1. ~RekeysFor(nonce)
    BY <1>1, <1>2, <1>3
       DEF RekeysFor, InCurrentInterval, InNextInterval, CurrentIntervalStart
  <2>2. /\ DecryptionKey(nonce) = key_tracker.current_key
        /\ VaultWithKey(nonce) = dec_vault
    BY <1>3, <2>1 DEF DecryptionKey, VaultWithKey
  <2>3. dec_vault[key_tracker.current_key] = n
    BY DEF ChannelInv, KeysAreLive
  <2>4. InInterval(n, nonce)
    BY <1>1, <1>2, <1>3 DEF InInterval, InCurrentInterval, CurrentIntervalStart
  <2> QED BY <1>1, <2>2, <2>3, <2>4 DEF ChannelInv, KeysAreLive
<1>4. CASE InNextInterval(key_tracker, nonce)
  <2>1. RekeysFor(nonce)
    BY <1>4 DEF RekeysFor
  <2>2. DecryptionKey(nonce) = dec_ids
    BY <1>1, <1>2, <1>4
       DEF DecryptionKey, InCurrentInterval, InNextInterval, InPreviousInterval,
           CurrentIntervalStart
  <2>3. VaultWithKey(nonce) = ImportSecret(dec_vault, dec_ids, n + 1)
    BY <2>1 DEF VaultWithKey, Rekey, ChannelInv, KeysAreLive
  <2>4. InInterval(n + 1, nonce)
    BY <1>1, <1>2, <1>4 DEF InInterval, InNextInterval, CurrentIntervalStart
  <2> QED BY <1>1, <2>2, <2>3, <2>4 DEF ImportSecret
<1>5. CASE InPreviousInterval(key_tracker, nonce)
  <2>1. ~RekeysFor(nonce)
    BY <1>1, <1>2, <1>5
       DEF RekeysFor, InPreviousInterval, InNextInterval, CurrentIntervalStart
  <2>2. /\ DecryptionKey(nonce) = key_tracker.previous_key
        /\ VaultWithKey(nonce) = dec_vault
    BY <1>1, <1>2, <1>5, <2>1
       DEF DecryptionKey, VaultWithKey, InPreviousInterval, InCurrentInterval,
           CurrentIntervalStart
  <2>3. n # 0
    BY <1>5 DEF InPreviousInterval, ChannelInv, KeysAreLive
  <2> DEFINE p == dec_vault[key_tracker.previous_key]
  <2>4. key_tracker.previous_key \in DOMAIN dec_vault /\ p \in Nat /\ p + 1 = n
    BY <2>3 DEF ChannelInv, KeysAreLive, TypeOK
  <2> HIDE DEF p
  <2>5. (p + 1) * K = p * K + K
    BY <1>1, <2>4
  <2>6. InInterval(p, nonce)
    BY <1>1, <1>5, <2>4, <2>5 DEF InInterval, InPreviousInterval, CurrentIntervalStart
  <2> QED BY <2>2, <2>4, <2>6 DEF p
<1> QED BY <1>3, <1>4, <1>5 DEF NonceAdmitted, GetKeyOk

-----------------------------------------------------------------------------

\* Two keys are enough: what mark admits, get_key has the right secret for.
LEMMA InWindow == ChannelInv => InWindowOpens
<1> SUFFICES ASSUME ChannelInv, dec_open, NEW m \in network,
                    MarkOk(nonce_tracker, m.nonce)
             PROVE  Opens(m)
  BY DEF InWindowOpens
<1> DEFINE secret == VaultWithKey(m.nonce)[DecryptionKey(m.nonce)]
<1>1. m.nonce \in Nonces /\ m.nonce \in Nat /\ m.sealed.secret \in Nat
  BY MaxNonceAssumption DEF ChannelInv, TypeOK, Messages, Sealed, Nonces
<1>2. NonceAdmitted(m.nonce)
  BY <1>1, MarkedHasKey DEF NonceAdmitted
<1>3. secret \in Nat /\ InInterval(secret, m.nonce)
  BY <1>1, <1>2, KeyFitsNonce
<1>4. m.sealed.nonce = m.nonce /\ InInterval(m.sealed.secret, m.nonce)
  BY DEF ChannelInv, NetworkInv
<1> HIDE DEF secret
<1>5. m.sealed.secret = secret
  BY <1>1, <1>3, <1>4, IntervalUnique, IntervalAssumption, Zenon DEF InInterval
<1> QED BY <1>2, <1>4, <1>5 DEF Opens, secret

\* A garbled message never opens.
LEMMA GarbageStaysShut ==
  ASSUME ChannelInv, dec_open, NEW m \in Arrivals, m.sealed = Garbage
  PROVE  ~Opens(m)
<1>1. m.nonce \in Nonces
  BY DEF Arrivals, ChannelInv, TypeOK, Messages
<1>2. NonceAdmitted(m.nonce) =>
        VaultWithKey(m.nonce)[DecryptionKey(m.nonce)] \in Nat
  BY <1>1, KeyFitsNonce
<1> QED BY <1>2 DEF Opens, Garbage

\* What opens was sent.
LEMMA OpensWasSent ==
  ASSUME ChannelInv, dec_open, NEW m \in Arrivals, Opens(m)
  PROVE  m \in network /\ m.nonce \in Nonces /\ m.nonce < encryptor.nonce
<1>1. m.sealed # Garbage
  BY GarbageStaysShut
<1>2. m \in network
  BY <1>1 DEF Arrivals
<1> QED BY <1>2 DEF ChannelInv, TypeOK, Messages, NetworkInv

-----------------------------------------------------------------------------

\* encrypt, with or without a renewal of the key, preserves the invariant.
LEMMA EncryptStep ==
  ASSUME ChannelInv, NEW kind \in Kinds, Encrypt(kind),
         UNCHANGED <<dec_vars, out_vars, garbled>>
  PROVE  ChannelInv'
<1> DEFINE nonce  == encryptor.nonce
           K      == KEY_RENEWAL_INTERVAL
           old    == enc_vault[encryptor.key]
           secret == IF RenewsKey(nonce) THEN old + 1 ELSE old
           key    == IF RenewsKey(nonce) THEN encryptor.key + 1 ELSE encryptor.key
           msg    == [nonce |-> nonce,
                      sealed |-> [secret |-> secret, nonce |-> nonce, kind |-> kind]]
<1>1. /\ K \in Nat \ {0} /\ nonce \in Nat /\ nonce + 1 \in Nonces /\ nonce \in Nonces
      /\ encryptor.key \in Nat /\ old \in Nat /\ encryptor.open
  BY IntervalAssumption, MaxNonceAssumption, SMTT(30)
     DEF Encrypt, ChannelInv, TypeOK, Nonces, KeyIds
<1>2. /\ secret \in Nat /\ key \in Nat
  BY <1>1
<1>3. /\ encryptor' = [encryptor EXCEPT !.nonce = nonce + 1, !.key = key]
      /\ network' = network \union {msg}
  BY DEF Encrypt, Rekey
<1>4. DOMAIN enc_vault' = {key} /\ enc_vault'[key] = secret
  BY <1>1 DEF Encrypt, Rekey, ImportSecret, DeleteSecrets, ChannelInv, EncryptorInv
<1>5. InInterval(secret, nonce)
  <2>1. CASE nonce = 0
    BY <1>1, <2>1 DEF ChannelInv, EncryptorInv, InInterval, RenewsKey
  <2>2. CASE nonce # 0
    <3>1. old * K <= nonce - 1 /\ nonce - 1 < old * K + K
      BY <1>1, <2>2 DEF ChannelInv, EncryptorInv, InInterval
    <3>2. RenewsKey(nonce) <=> nonce = old * K + K
      <4>1. nonce \in Nat \ {0} /\ nonce > 0 BY <1>1, <2>2
      <4> HIDE DEF nonce, old, K
      <4>2. nonce % K = 0 <=> nonce = old * K + K
        BY <1>1, <3>1, <4>1, ModOfMultiple, Zenon
      <4> QED BY <4>1, <4>2 DEF RenewsKey, K
    <3>3. (old + 1) * K = old * K + K /\ old * K \in Nat
      BY <1>1
    <3> HIDE DEF nonce, K, old
    <3> QED BY <1>1, <3>1, <3>2, <3>3 DEF InInterval, K
  <2> QED BY <2>1, <2>2
<1>6. /\ encryptor'.nonce = nonce + 1 /\ encryptor'.key = key /\ encryptor'.open
      /\ encryptor' \in [key : KeyIds, nonce : Nonces, open : BOOLEAN]
  BY <1>1, <1>2, <1>3, Zenon DEF ChannelInv, TypeOK, KeyIds
<1>7. msg \in Messages
  BY <1>1, <1>2 DEF Messages, Sealed
<1> HIDE DEF msg, secret, key
<1>8. TypeOK'
  BY <1>2, <1>3, <1>4, <1>6, <1>7
     DEF ChannelInv, TypeOK, KeyIds, dec_vars, out_vars
<1>9. EncryptorInv'
  BY <1>1, <1>4, <1>5, <1>6 DEF EncryptorInv
<1>10. NetworkInv'
  <2>1. msg.sealed.nonce = msg.nonce /\ msg.nonce = nonce /\ msg.sealed.secret = secret
    BY DEF msg
  <2>2. \A m \in network : m.nonce \in Nat
    BY MaxNonceAssumption DEF ChannelInv, TypeOK, Messages, Nonces
  <2> QED BY <1>1, <1>3, <1>5, <1>6, <2>1, <2>2 DEF ChannelInv, NetworkInv
<1>11. TrackersInv' /\ KeyIdsInv' /\ WindowInv' /\ AtMostOnce'
  BY DEF ChannelInv, TrackersInv, KeyIdsInv, WindowInv, AtMostOnce, dec_vars, out_vars
<1>12. KeysAreLive'
  BY Zenon, <1>4, <1>6 DEF ChannelInv, KeysAreLive, dec_vars
<1>13. OnlyWhatWasSent'
  BY <1>1, <1>6, MaxNonceAssumption DEF ChannelInv, OnlyWhatWasSent, out_vars, Nonces
<1> QED BY Zenon, <1>8, <1>9, <1>10, <1>11, <1>12, <1>13 DEF ChannelInv

\* Encryptor::shutdown preserves the invariant.
LEMMA ShutdownEncryptorStep == ChannelInv /\ ShutdownEncryptor => ChannelInv'
<1> SUFFICES ASSUME ChannelInv, ShutdownEncryptor PROVE ChannelInv'
  OBVIOUS
<1> USE DEF ShutdownEncryptor, ChannelInv, dec_vars, out_vars
<1>1. /\ encryptor'.nonce = encryptor.nonce /\ ~encryptor'.open
      /\ encryptor' \in [key : KeyIds, nonce : Nonces, open : BOOLEAN]
  BY Zenon DEF TypeOK
<1>2. DOMAIN enc_vault' \subseteq DOMAIN enc_vault
      /\ \A k \in DOMAIN enc_vault' : enc_vault'[k] = enc_vault[k]
  BY DEF DeleteSecrets
<1>3. TypeOK'
  BY <1>1, <1>2, Zenon DEF TypeOK
<1>4. EncryptorInv' /\ NetworkInv' /\ TrackersInv' /\ KeyIdsInv' /\ KeysAreLive'
  BY <1>1 DEF EncryptorInv, NetworkInv, TrackersInv, KeyIdsInv, KeysAreLive
<1>5. WindowInv' /\ AtMostOnce' /\ OnlyWhatWasSent'
  BY <1>1 DEF WindowInv, AtMostOnce, OnlyWhatWasSent
<1> QED BY <1>3, <1>4, <1>5

\* Decryptor::shutdown preserves the invariant.
LEMMA ShutdownDecryptorStep == ChannelInv /\ ShutdownDecryptor => ChannelInv'
<1> SUFFICES ASSUME ChannelInv, ShutdownDecryptor PROVE ChannelInv'
  OBVIOUS
<1> USE DEF ShutdownDecryptor, ChannelInv, enc_vars, out_vars
<1>1. DOMAIN dec_vault' \subseteq DOMAIN dec_vault
      /\ \A k \in DOMAIN dec_vault' : dec_vault'[k] = dec_vault[k]
  BY DEF DeleteSecrets
<1>2. TypeOK'
  BY <1>1, Zenon DEF TypeOK
<1>3. EncryptorInv' /\ NetworkInv' /\ TrackersInv' /\ KeyIdsInv' /\ KeysAreLive'
  BY <1>1, Zenon DEF EncryptorInv, NetworkInv, TrackersInv, KeyIdsInv, KeysAreLive
<1>4. WindowInv' /\ AtMostOnce' /\ OnlyWhatWasSent'
  BY Zenon DEF WindowInv, AtMostOnce, OnlyWhatWasSent
<1> QED BY Zenon, <1>2, <1>3, <1>4

-----------------------------------------------------------------------------

\* mark moves the window up to the nonce, marks the nonce and forgets no nonce
\* the bitmap can still represent.
LEMMA MarkKeepsBits ==
  ASSUME NEW t \in NonceTrackers, NEW nonce \in Nat, MarkOk(t, nonce)
  PROVE  LET u == Mark(t, nonce)
         IN  /\ u \in NonceTrackers
             /\ u.current_nonce = IF nonce > t.current_nonce THEN nonce
                                                             ELSE t.current_nonce
             /\ u.current_nonce - nonce \in u.nonce_bitmap
             /\ \A n \in Nat :
                  /\ n <= t.current_nonce
                  /\ t.current_nonce - n < BitmapBits =>
                       t.current_nonce - n \in t.nonce_bitmap
                  => /\ n <= u.current_nonce
                     /\ u.current_nonce - n < BitmapBits =>
                          u.current_nonce - n \in u.nonce_bitmap
<1> DEFINE cur == t.current_nonce
           u   == Mark(t, nonce)
           W   == BitmapBits
<1>1. /\ cur \in Nat /\ t.nonce_bitmap \subseteq 0 .. W - 1
      /\ W \in Nat /\ KEY_RENEWAL_INTERVAL \in Nat \ {0} /\ KEY_RENEWAL_INTERVAL < W
  BY IntervalAssumption, BitmapAssumption DEF NonceTrackers, Bitmaps
<1>2. CASE nonce > cur
  <2> DEFINE s == nonce - cur
  <2>1. s \in Nat /\ s < W /\ s % W = s
    BY <1>1, <1>2, ModSmall DEF MarkOk
  <2>2. u = [nonce_bitmap |-> OverflowingShl(t.nonce_bitmap, s) \union {0},
             current_nonce |-> nonce]
    BY <1>2 DEF Mark
  <2>3. OverflowingShl(t.nonce_bitmap, s)
          = {i \in 0 .. W - 1 : s <= i /\ i - s \in t.nonce_bitmap}
    BY <2>1 DEF OverflowingShl
  <2>4. u \in NonceTrackers
    BY <1>1, <2>2, <2>3 DEF NonceTrackers, Bitmaps
  <2>5. u.current_nonce = nonce /\ u.current_nonce - nonce \in u.nonce_bitmap
    BY <2>2
  <2>6. ASSUME NEW n \in Nat, n <= cur, cur - n < W => cur - n \in t.nonce_bitmap,
               nonce - n < W
        PROVE  nonce - n \in u.nonce_bitmap
    <3>1. nonce - n \in 0 .. W - 1 /\ s <= nonce - n /\ (nonce - n) - s = cur - n
      BY <1>1, <1>2, <2>6
    <3>2. cur - n \in t.nonce_bitmap
      BY <1>1, <1>2, <2>6
    <3> QED BY <2>2, <2>3, <3>1, <3>2
  <2> HIDE DEF s, u
  <2> QED BY <1>1, <1>2, <2>4, <2>5, <2>6 DEF u
<1>3. CASE ~(nonce > cur)
  <2>1. u = [t EXCEPT !.nonce_bitmap = @ \union {cur - nonce}]
    BY <1>3 DEF Mark
  <2>2. cur - nonce \in 0 .. W - 1
    BY <1>1, <1>3 DEF MarkOk
  <2>3. /\ u.current_nonce = cur
        /\ u.nonce_bitmap = t.nonce_bitmap \union {cur - nonce}
        /\ u \in NonceTrackers
    BY <1>1, <2>1, <2>2 DEF NonceTrackers, Bitmaps
  <2> HIDE DEF u
  <2> QED BY <1>1, <1>3, <2>3 DEF u
<1> QED BY <1>2, <1>3

\* A nonce that mark admits has not come out before.
LEMMA MarkedIsNew ==
  ASSUME ChannelInv, NEW nonce \in Nonces, MarkOk(nonce_tracker, nonce)
  PROVE  forwarded[nonce] = 0 /\ replied[nonce] = 0
<1>1. /\ nonce \in Nat /\ nonce_tracker.current_nonce \in Nat
      /\ forwarded[nonce] \in Nat /\ replied[nonce] \in Nat
  BY MaxNonceAssumption DEF ChannelInv, TypeOK, Nonces
<1>2. ~(forwarded[nonce] + replied[nonce] > 0)
  BY <1>1, IntervalAssumption, BitmapAssumption DEF ChannelInv, WindowInv, MarkOk
<1> QED BY <1>1, <1>2

\* What decrypt commits to when it returns Ok: trackers that still agree, and
\* a vault that still holds the keys they name.
LEMMA CommitKeepsKeys ==
  ASSUME ChannelInv, dec_open, NEW m \in network, Opens(m), DecryptCommit(m)
  PROVE  /\ key_tracker' \in KeyTrackers
         /\ dec_ids' \in Nat
         /\ DOMAIN dec_vault' \subseteq KeyIds
         /\ \A k \in DOMAIN dec_vault' : dec_vault'[k] \in Nat
         /\ TrackersInv' /\ KeyIdsInv'
         /\ key_tracker'.current_key \in DOMAIN dec_vault'
         /\ dec_vault'[key_tracker'.current_key] = key_tracker'.number_of_rekeys
         /\ IF key_tracker'.number_of_rekeys = 0
            THEN key_tracker'.previous_key = None
            ELSE /\ key_tracker'.previous_key \in DOMAIN dec_vault'
                 /\ dec_vault'[key_tracker'.previous_key] + 1
                      = key_tracker'.number_of_rekeys
<1> DEFINE nonce == m.nonce
           key   == DecryptionKey(nonce)
           n     == key_tracker.number_of_rekeys
           K     == KEY_RENEWAL_INTERVAL
           cur   == nonce_tracker.current_nonce
<1>1. /\ nonce \in Nonces /\ nonce \in Nat /\ nonce <= MaxNonce /\ MaxNonce \in Nat
      /\ K \in Nat \ {0} /\ n \in Nat /\ cur \in Nat /\ dec_ids \in Nat
      /\ nonce_tracker \in NonceTrackers /\ key_tracker \in KeyTrackers
  BY IntervalAssumption, MaxNonceAssumption
     DEF ChannelInv, TypeOK, Nonces, KeyTrackers, NonceTrackers, Messages
<1>2. NonceAdmitted(nonce) /\ MarkOk(nonce_tracker, nonce)
  BY Zenon DEF Opens, NonceAdmitted
<1>3. nonce_tracker'.current_nonce = IF nonce > cur THEN nonce ELSE cur
  BY <1>1, <1>2, MarkKeepsBits DEF DecryptCommit
<1>4. n * K \in Nat /\ (n + 1) * K = n * K + K /\ n * K <= cur /\ cur < n * K + K
  BY <1>1 DEF ChannelInv, TrackersInv, InInterval
<1>5. CASE InCurrentInterval(key_tracker, nonce) \/ InPreviousInterval(key_tracker, nonce)
  <2>1. ~InNextInterval(key_tracker, nonce) /\ ~RekeysFor(nonce)
    BY <1>1, <1>4, <1>5
       DEF RekeysFor, InCurrentInterval, InPreviousInterval, InNextInterval,
           CurrentIntervalStart
  <2>2. ~IsNewKey(key_tracker, key)
    BY Zenon, <1>5 DEF IsNewKey, DecryptionKey
  <2>3. /\ key_tracker' = key_tracker /\ dec_ids' = dec_ids
        /\ DOMAIN dec_vault' = DOMAIN dec_vault
        /\ \A k \in DOMAIN dec_vault : dec_vault'[k] = dec_vault[k]
    BY Zenon, <2>1, <2>2
       DEF DecryptCommit, UpdateKey, KeyToDelete, DeleteSecrets, VaultWithKey
  <2>4. /\ n * K <= nonce_tracker'.current_nonce
        /\ nonce_tracker'.current_nonce < n * K + K
    BY <1>1, <1>3, <1>4, <1>5
       DEF InCurrentInterval, InPreviousInterval, CurrentIntervalStart
  <2>5. TrackersInv'
    BY Zenon, <2>3, <2>4 DEF ChannelInv, TrackersInv, InInterval
  <2>6. KeyIdsInv'
    BY Zenon, <2>3 DEF ChannelInv, KeyIdsInv
  <2> QED
    BY Zenon, <1>1, <2>3, <2>5, <2>6 DEF ChannelInv, KeysAreLive, TypeOK
<1>6. CASE InNextInterval(key_tracker, nonce)
  <2>1. /\ nonce >= n * K + K /\ nonce < n * K + K + K
    BY <1>1, <1>4, <1>6 DEF InNextInterval, CurrentIntervalStart
  <2>2. RekeysFor(nonce) /\ key = dec_ids
    BY <1>1, <1>2, <1>4, <1>6, <2>1
       DEF RekeysFor, DecryptionKey, InCurrentInterval, InPreviousInterval,
           CurrentIntervalStart
  <2>3. IsNewKey(key_tracker, key)
    BY <1>1, <2>2, NoneAssumption DEF IsNewKey, ChannelInv, KeyIdsInv, KeyTrackers, KeyIds
  <2>4. ~(MaxNonce - CurrentIntervalStart(key_tracker) < K)
    BY <1>1, <1>4, <2>1 DEF CurrentIntervalStart
  <2>5. key_tracker' = [current_key        |-> dec_ids,
                        previous_key       |-> key_tracker.current_key,
                        number_of_rekeys   |-> n + 1,
                        max_rekeys_reached |-> FALSE]
    BY <2>2, <2>3, <2>4, Zenon DEF DecryptCommit, UpdateKey, ChannelInv, TrackersInv
  <2>6. /\ dec_ids' = dec_ids + 1
        /\ DOMAIN dec_vault' = (DOMAIN dec_vault \union {dec_ids})
                                 \ ({key_tracker.previous_key} \ {None})
        /\ \A k \in DOMAIN dec_vault' :
             dec_vault'[k] = IF k = dec_ids THEN n + 1 ELSE dec_vault[k]
    <3>1. VaultWithKey(nonce) = ImportSecret(dec_vault, dec_ids, n + 1)
      BY <2>2 DEF VaultWithKey, Rekey, ChannelInv, KeysAreLive
    <3>2. KeyToDelete(key_tracker, key) = {key_tracker.previous_key} \ {None}
      BY Zenon, <2>3 DEF KeyToDelete
    <3> QED BY Zenon, <2>2, <3>1, <3>2 DEF DecryptCommit, DeleteSecrets, ImportSecret
  <2>7. /\ dec_ids # key_tracker.previous_key
        /\ key_tracker.current_key \in DOMAIN dec_vault
        /\ key_tracker.current_key # key_tracker.previous_key
        /\ key_tracker.current_key # dec_ids
        /\ key_tracker.current_key \in Nat
        /\ key_tracker.current_key < dec_ids
        /\ dec_vault[key_tracker.current_key] = n
    BY Zenon, <1>1, <2>2, <2>3 DEF IsNewKey, ChannelInv, KeyIdsInv, KeysAreLive, KeyTrackers, KeyIds
  <2>8. /\ dec_ids \in DOMAIN dec_vault' /\ dec_vault'[dec_ids] = n + 1
        /\ key_tracker.current_key \in DOMAIN dec_vault'
        /\ dec_vault'[key_tracker.current_key] = n
    BY Zenon, <2>6, <2>7
  <2>9. TrackersInv'
    BY <1>1, <1>3, <1>4, <2>1, <2>5 DEF TrackersInv, InInterval
  <2>10. KeyIdsInv'
    <3>1. \A k \in DOMAIN dec_vault' : k < dec_ids'
      BY <1>1, <2>6 DEF ChannelInv, KeyIdsInv, TypeOK, KeyIds
    <3> QED BY Zenon, <1>1, <2>5, <2>6, <2>7, <3>1 DEF KeyIdsInv
  <2>11. /\ DOMAIN dec_vault' \subseteq KeyIds
         /\ \A k \in DOMAIN dec_vault' : dec_vault'[k] \in Nat
    BY <1>1, <2>6 DEF ChannelInv, TypeOK, KeyIds
  <2>12. key_tracker' \in KeyTrackers /\ dec_ids' \in Nat
    BY <1>1, <2>5, <2>6, <2>7 DEF KeyTrackers, KeyIds
  <2> QED BY <1>1, <2>5, <2>8, <2>9, <2>10, <2>11, <2>12
<1> QED BY Zenon, <1>2, <1>5, <1>6 DEF NonceAdmitted, GetKeyOk

\* decrypt returning Ok, from either handler, keeps the invariant.
LEMMA CommitStep ==
  ASSUME ChannelInv, dec_open, NEW m \in Arrivals, Opens(m), DecryptCommit(m),
         UNCHANGED <<enc_vars, network>>, garbled' \in Nat,
         forwarded' \in [Nonces -> Nat], replied' \in [Nonces -> Nat],
         \A n \in Nonces : n # m.nonce =>
           forwarded'[n] = forwarded[n] /\ replied'[n] = replied[n],
         forwarded'[m.nonce] + replied'[m.nonce]
           <= forwarded[m.nonce] + replied[m.nonce] + 1
  PROVE  ChannelInv'
<1>1. m \in network /\ m.nonce \in Nonces /\ m.nonce < encryptor.nonce
  BY Zenon, OpensWasSent
<1>2. m.nonce \in Nat /\ MarkOk(nonce_tracker, m.nonce)
      /\ nonce_tracker \in NonceTrackers
  BY <1>1, MaxNonceAssumption, SMTT(30) DEF Opens, NonceAdmitted, Nonces, ChannelInv, TypeOK
<1>3. forwarded[m.nonce] = 0 /\ replied[m.nonce] = 0
  BY <1>1, <1>2, MarkedIsNew
<1>4. nonce_tracker' = Mark(nonce_tracker, m.nonce) /\ dec_open'
  BY Zenon DEF DecryptCommit
<1>5. nonce_tracker' \in NonceTrackers /\ nonce_tracker'.current_nonce \in Nonces
  BY Zenon, <1>1, <1>2, <1>4, MarkKeepsBits DEF ChannelInv, TypeOK
<1>6. TypeOK'
  BY Zenon, <1>1, <1>4, <1>5, CommitKeepsKeys DEF ChannelInv, TypeOK, enc_vars
<1>7. EncryptorInv' /\ NetworkInv'
  BY SMTT(30) DEF ChannelInv, EncryptorInv, NetworkInv, enc_vars
<1>8. TrackersInv' /\ KeyIdsInv' /\ KeysAreLive'
  BY Zenon, <1>1, CommitKeepsKeys DEF ChannelInv, KeysAreLive, enc_vars
<1>9. WindowInv'
  <2> SUFFICES ASSUME NEW n \in Nonces, (forwarded[n] + replied[n] > 0)'
               PROVE  /\ n <= nonce_tracker'.current_nonce
                      /\ nonce_tracker'.current_nonce - n < BitmapBits =>
                           nonce_tracker'.current_nonce - n \in nonce_tracker'.nonce_bitmap
    BY Zenon DEF WindowInv
  <2>1. CASE n = m.nonce
    BY <1>2, <1>4, <2>1, MarkKeepsBits DEF NonceTrackers
  <2>2. CASE n # m.nonce
    <3>1. forwarded[n] + replied[n] > 0 /\ n \in Nat
      BY SMTT(60), <2>2, MaxNonceAssumption DEF Nonces
    <3>2. /\ n <= nonce_tracker.current_nonce
          /\ nonce_tracker.current_nonce - n < BitmapBits =>
               nonce_tracker.current_nonce - n \in nonce_tracker.nonce_bitmap
      BY <3>1 DEF ChannelInv, WindowInv
    <3> QED BY Zenon, <1>2, <1>4, <3>1, <3>2, MarkKeepsBits
  <2> QED BY Zenon, <2>1, <2>2
<1>10. AtMostOnce' /\ OnlyWhatWasSent'
  BY <1>1, <1>3 DEF ChannelInv, AtMostOnce, OnlyWhatWasSent, enc_vars
<1> QED BY Zenon, <1>6, <1>7, <1>8, <1>9, <1>10 DEF ChannelInv

\* decrypt returning Err keeps the invariant: a leaked secret is a fresh one.
LEMMA RejectStep ==
  ASSUME ChannelInv, dec_open, NEW m \in Arrivals, DecryptReject(m),
         UNCHANGED <<enc_vars, out_vars, network>>, garbled' \in Nat
  PROVE  ChannelInv'
<1> DEFINE n == key_tracker.number_of_rekeys
<1>1. /\ dec_ids \in Nat /\ n \in Nat
      /\ dec_vault[key_tracker.current_key] = n
      /\ \A k \in DOMAIN dec_vault : k \in Nat /\ k < dec_ids
      /\ key_tracker.current_key \in Nat
  BY DEF ChannelInv, TypeOK, KeyTrackers, KeysAreLive, KeyIdsInv, KeyIds
<1>2. /\ DOMAIN dec_vault \subseteq DOMAIN dec_vault'
      /\ DOMAIN dec_vault' \subseteq DOMAIN dec_vault \union {dec_ids}
      /\ dec_ids \in DOMAIN dec_vault' => dec_ids' = dec_ids + 1
      /\ dec_ids' \in {dec_ids, dec_ids + 1}
      /\ \A k \in DOMAIN dec_vault' :
           dec_vault'[k] = IF k = dec_ids THEN n + 1 ELSE dec_vault[k]
  BY <1>1 DEF DecryptReject, VaultWithKey, ImportSecret, Rekey
<1>3. UNCHANGED <<nonce_tracker, key_tracker, dec_open>>
  BY DEF DecryptReject
<1>4. /\ DOMAIN dec_vault' \subseteq KeyIds
      /\ \A k \in DOMAIN dec_vault' : dec_vault'[k] \in Nat /\ k < dec_ids'
      /\ dec_ids' \in Nat
  BY <1>1, <1>2 DEF KeyIds, ChannelInv, TypeOK
<1>5. TypeOK'
  BY Zenon, <1>3, <1>4 DEF ChannelInv, TypeOK, enc_vars, out_vars
<1>6. EncryptorInv' /\ NetworkInv' /\ TrackersInv'
  BY Zenon, <1>3 DEF ChannelInv, EncryptorInv, NetworkInv, TrackersInv, enc_vars
<1>7. KeyIdsInv'
  <2>1. key_tracker \in KeyTrackers BY Zenon DEF ChannelInv, TypeOK
  <2> QED BY <1>1, <1>2, <1>3, <1>4, <2>1 DEF ChannelInv, KeyIdsInv, KeyTrackers, KeyIds
<1>8. KeysAreLive'
  <2>1. \A k \in DOMAIN dec_vault : k \in DOMAIN dec_vault' /\ dec_vault'[k] = dec_vault[k]
    BY <1>1, <1>2
  <2> QED BY Zenon, <1>3, <2>1 DEF ChannelInv, KeysAreLive, enc_vars
<1>9. WindowInv' /\ AtMostOnce' /\ OnlyWhatWasSent'
  BY Zenon, <1>3 DEF ChannelInv, WindowInv, AtMostOnce, OnlyWhatWasSent, enc_vars, out_vars
<1> QED BY Zenon, <1>5, <1>6, <1>7, <1>8, <1>9 DEF ChannelInv

-----------------------------------------------------------------------------

\* Every step of either side and of the network preserves the invariant.
LEMMA NextChannelInv == ChannelInv /\ [Next]_vars => ChannelInv'
<1> SUFFICES ASSUME ChannelInv, [Next]_vars PROVE ChannelInv'
  OBVIOUS
<1>1. CASE HandleEncrypt
  BY <1>1, EncryptStep DEF HandleEncrypt, Kinds
<1>2. CASE HandleEncryptApi
  BY <1>2, EncryptStep DEF HandleEncryptApi, Kinds
<1>3. CASE ShutdownEncryptor
  BY Zenon, <1>3, ShutdownEncryptorStep
<1>4. ASSUME NEW m \in Arrivals, HandleDecrypt(m) PROVE ChannelInv'
  <2>1. dec_open /\ Opens(m) /\ DecryptCommit(m) /\ garbled' \in Nat
    BY <1>4 DEF HandleDecrypt, CountGarbled, ChannelInv, TypeOK
  <2>2. m.nonce \in Nonces /\ forwarded \in [Nonces -> Nat] /\ replied \in [Nonces -> Nat]
    BY Zenon, <2>1, OpensWasSent DEF ChannelInv, TypeOK
  <2>3. /\ forwarded' \in [Nonces -> Nat] /\ replied' = replied
        /\ \A n \in Nonces : n # m.nonce => forwarded'[n] = forwarded[n]
        /\ forwarded'[m.nonce] <= forwarded[m.nonce] + 1
    BY <1>4, <2>2 DEF HandleDecrypt
  <2>4. forwarded'[m.nonce] + replied'[m.nonce]
          <= forwarded[m.nonce] + replied[m.nonce] + 1
    BY <2>2, <2>3
  <2> QED BY Zenon, <1>4, <2>1, <2>2, <2>3, <2>4, CommitStep DEF HandleDecrypt
<1>5. ASSUME NEW m \in Arrivals, HandleDecryptApi(m) PROVE ChannelInv'
  <2>1. dec_open /\ Opens(m) /\ DecryptCommit(m) /\ garbled' \in Nat
    BY <1>5 DEF HandleDecryptApi, CountGarbled, ChannelInv, TypeOK
  <2>2. m.nonce \in Nonces /\ forwarded \in [Nonces -> Nat] /\ replied \in [Nonces -> Nat]
    BY <2>1, OpensWasSent DEF ChannelInv, TypeOK
  <2>3. /\ replied' \in [Nonces -> Nat] /\ forwarded' = forwarded
        /\ \A n \in Nonces : n # m.nonce => replied'[n] = replied[n]
        /\ replied'[m.nonce] <= replied[m.nonce] + 1
    BY <1>5, <2>2 DEF HandleDecryptApi
  <2>4. forwarded'[m.nonce] + replied'[m.nonce]
          <= forwarded[m.nonce] + replied[m.nonce] + 1
    BY <2>2, <2>3
  <2> QED BY Zenon, <1>5, <2>1, <2>2, <2>3, <2>4, CommitStep DEF HandleDecryptApi
<1>6. ASSUME NEW m \in Arrivals, HandleDecryptErr(m) PROVE ChannelInv'
  <2>1. garbled' \in Nat
    BY <1>6 DEF HandleDecryptErr, CountGarbled, ChannelInv, TypeOK
  <2> QED BY Zenon, <1>6, <2>1, RejectStep DEF HandleDecryptErr
<1>7. CASE ShutdownDecryptor
  BY SMTT(60), <1>7, ShutdownDecryptorStep
<1>8. CASE UNCHANGED vars
  BY <1>8
     DEF vars, enc_vars, dec_vars, out_vars, ChannelInv, TypeOK, EncryptorInv,
         NetworkInv, TrackersInv, KeyIdsInv, KeysAreLive, WindowInv, AtMostOnce,
         OnlyWhatWasSent
<1> QED
  BY Zenon, <1>1, <1>2, <1>3, <1>4, <1>5, <1>6, <1>7, <1>8 DEF Next

\* The inductive invariant of the channel holds in every reachable state, for
\* every interval, bitmap width and number of nonces.
THEOREM ChannelInvariance == Spec => []ChannelInv
BY InitChannelInv, NextChannelInv, PTL DEF Spec

\* Trackers, keys, vaults and outputs keep their types.
THEOREM TypeCorrectness == Spec => []TypeOK
<1>1. ChannelInv => TypeOK BY DEF ChannelInv
<1> QED BY <1>1, ChannelInvariance, PTL

\* No payload is forwarded or returned twice, whatever the network repeats.
THEOREM NoReplay == Spec => []AtMostOnce
<1>1. ChannelInv => AtMostOnce BY DEF ChannelInv
<1> QED BY <1>1, ChannelInvariance, PTL

\* Only payloads the encryptor sealed are forwarded or returned.
THEOREM NoForgery == Spec => []OnlyWhatWasSent
<1>1. ChannelInv => OnlyWhatWasSent BY DEF ChannelInv
<1> QED BY <1>1, ChannelInvariance, PTL

\* Every message sent whose nonce mark admits is opened by decrypt.
THEOREM InWindowMessagesOpen == Spec => []InWindowOpens
BY InWindow, ChannelInvariance, PTL

\* Neither encrypt nor decrypt ever asks an open vault for a missing key.
THEOREM NeededKeysAreLive == Spec => []KeysAreLive
<1>1. ChannelInv => KeysAreLive BY DEF ChannelInv
<1> QED BY <1>1, ChannelInvariance, PTL

\* The receiver's count of rekeyings is the interval of its highest nonce, and
\* get_key and update_key never reach the maximum of rekeyings.
THEOREM RekeyingInStep == Spec => []RekeysInStep
<1>1. ASSUME ChannelInv PROVE RekeysInStep
  <2>1. /\ nonce_tracker.current_nonce \in Nat
        /\ key_tracker.number_of_rekeys \in Nat
        /\ InInterval(key_tracker.number_of_rekeys, nonce_tracker.current_nonce)
        /\ ~key_tracker.max_rekeys_reached
    BY <1>1 DEF ChannelInv, TypeOK, NonceTrackers, KeyTrackers, TrackersInv
  <2> QED BY <2>1, IntervalAssumption, DivOfInterval, ZenonT(60) DEF InInterval, RekeysInStep
<1> QED BY <1>1, ChannelInvariance, PTL

\* decrypt leaves both trackers alone when it meets a garbled message.
THEOREM GarbageCommitsNothing == Spec => GarbledCommitsNothing
<1>1. ASSUME ChannelInv, [Next]_vars, garbled' # garbled
      PROVE  UNCHANGED <<nonce_tracker, key_tracker>>
  <2>1. PICK m \in Arrivals :
          HandleDecrypt(m) \/ HandleDecryptApi(m) \/ HandleDecryptErr(m)
    BY Zenon, <1>1 DEF Next, vars, HandleEncrypt, HandleEncryptApi, ShutdownEncryptor,
                ShutdownDecryptor
  <2>2. dec_open /\ m.sealed = Garbage
    BY Zenon, <1>1, <2>1 DEF HandleDecrypt, HandleDecryptApi, HandleDecryptErr, CountGarbled
  <2>3. ~Opens(m)
    BY <1>1, <2>2, GarbageStaysShut
  <2> QED BY <2>1, <2>3
             DEF HandleDecrypt, HandleDecryptApi, HandleDecryptErr, DecryptReject
<1>2. ChannelInv /\ [Next]_vars =>
        [garbled' # garbled => UNCHANGED <<nonce_tracker, key_tracker>>]_vars
  BY <1>1
<1> QED BY <1>2, ChannelInvariance, PTL DEF Spec, GarbledCommitsNothing

-----------------------------------------------------------------------------

\* A vault from which keys are deleted holds no more than before.
LEMMA FewerElements ==
  ASSUME NEW S, IsFiniteSet(S), NEW T, T \subseteq S
  PROVE  IsFiniteSet(T) /\ Cardinality(T) \in Nat /\ Cardinality(S) \in Nat /\ Cardinality(T) <= Cardinality(S)
BY Zenon, FS_Subset, FS_CardinalityType

\* A vault into which one key is imported (for a message that does not open, say)
\* holds at most one more.
LEMMA OneElementMore ==
  ASSUME NEW S, IsFiniteSet(S), NEW x, NEW T, T \subseteq S \union {x}
  PROVE  IsFiniteSet(T) /\ Cardinality(T) \in Nat /\ Cardinality(S) \in Nat /\ Cardinality(T) <= Cardinality(S) + 1
<1>1. /\ IsFiniteSet(S \union {x}) /\ Cardinality(S) \in Nat
      /\ Cardinality(S \union {x}) \in Nat /\ Cardinality(S \union {x}) <= Cardinality(S) + 1
  <2>1. IsFiniteSet(S \union {x})
        /\ (Cardinality(S \union {x}) = Cardinality(S) \/ Cardinality(S \union {x}) = Cardinality(S) + 1)
    BY Zenon, FS_AddElement
  <2>2. Cardinality(S) \in Nat
    BY Zenon, FS_CardinalityType
  <2> QED BY <2>1, <2>2
<1>2. IsFiniteSet(T) /\ Cardinality(T) \in Nat /\ Cardinality(T) <= Cardinality(S \union {x})
  BY Zenon, <1>1, FewerElements
<1> QED BY <1>1, <1>2

\* A message that opens leaves no secret behind: the key it derived is tracked, and
\* the one that update_key puts out of use is deleted.
LEMMA CommitLeavesNothing ==
  ASSUME ChannelInv, SecretsInv, dec_open, NEW m \in Arrivals, Opens(m), DecryptCommit(m), CountGarbled(m)
  PROVE  IsFiniteSet(DOMAIN dec_vault') /\ Cardinality(Untracked') <= garbled'
<1> DEFINE key == DecryptionKey(m.nonce)
<1>1. m.nonce \in Nonces /\ NonceAdmitted(m.nonce)
  BY Zenon, OpensWasSent DEF Opens
<1>2. /\ key_tracker' = UpdateKey(key_tracker, key)
      /\ DOMAIN dec_vault' = DOMAIN VaultWithKey(m.nonce) \ KeyToDelete(key_tracker, key)
  BY DEF DecryptCommit, DeleteSecrets
<1>3. DOMAIN VaultWithKey(m.nonce) \subseteq DOMAIN dec_vault \union {dec_ids}
  BY DEF VaultWithKey, ImportSecret
<1>4. IsFiniteSet(DOMAIN dec_vault')
  BY ZenonT(60), <1>2, <1>3, OneElementMore DEF SecretsInv
<1>5. Untracked' \subseteq Untracked
  <2>1. CASE InCurrentInterval(key_tracker, m.nonce) \/ InPreviousInterval(key_tracker, m.nonce)
    <3>1. key \in {key_tracker.current_key, key_tracker.previous_key}
      BY Zenon, <2>1 DEF DecryptionKey
    <3>2. ~IsNewKey(key_tracker, key)
      BY Zenon, <3>1 DEF IsNewKey
    <3>3. DOMAIN VaultWithKey(m.nonce) \subseteq DOMAIN dec_vault
      <4>1. /\ m.nonce \in Nat /\ KEY_RENEWAL_INTERVAL \in Nat
            /\ CurrentIntervalStart(key_tracker) \in Nat
        <5>1. key_tracker.number_of_rekeys \in Nat
          BY DEF ChannelInv, TypeOK, KeyTrackers
        <5>2. \A i, j \in Nat : i * j \in Nat
          OBVIOUS
        <5>3. KEY_RENEWAL_INTERVAL \in Nat /\ m.nonce \in Nat
          BY <1>1, IntervalAssumption, MaxNonceAssumption DEF Nonces
        <5> QED BY Zenon, <5>1, <5>2, <5>3 DEF CurrentIntervalStart
      <4>2. ~InNextInterval(key_tracker, m.nonce)
        BY <2>1, <4>1 DEF InNextInterval, InCurrentInterval, InPreviousInterval
      <4> QED BY <4>2 DEF VaultWithKey, RekeysFor
    <3> QED BY Zenon, <1>2, <3>2, <3>3 DEF Untracked, UpdateKey
  <2>2. CASE ~(InCurrentInterval(key_tracker, m.nonce) \/ InPreviousInterval(key_tracker, m.nonce))
    <3>1. key = dec_ids
      BY Zenon, <2>2 DEF DecryptionKey
    <3>2. key_tracker.current_key # dec_ids /\ key_tracker.previous_key # dec_ids
      <4>1. dec_ids \in Nat /\ key_tracker \in KeyTrackers /\ KeyIdsInv
        BY Zenon DEF ChannelInv, TypeOK
      <4> QED BY <4>1, NoneAssumption DEF KeyIdsInv, KeyTrackers, KeyIds
    <3>3. IsNewKey(key_tracker, key)
      BY Zenon, <3>1, <3>2 DEF IsNewKey
    <3>4. key_tracker'.current_key = dec_ids /\ key_tracker'.previous_key = key_tracker.current_key
      BY Zenon, <1>2, <3>1, <3>3 DEF UpdateKey
    <3>5. key_tracker.previous_key \notin DOMAIN dec_vault'
      <4>1. KeyToDelete(key_tracker, key) = {key_tracker.previous_key} \ {None}
        BY Zenon, <3>3 DEF KeyToDelete
      <4>2. None \notin DOMAIN dec_vault
        BY Zenon, NoneAssumption DEF ChannelInv, TypeOK, KeyIds
      <4> QED BY Zenon, <1>2, <1>3, <3>2, <4>1, <4>2
    <3> QED BY Zenon, <1>2, <1>3, <3>4, <3>5 DEF Untracked
  <2> QED BY Zenon, <2>1, <2>2
<1>6. garbled \in Nat /\ (garbled' = garbled \/ garbled' = garbled + 1)
  BY Zenon DEF ChannelInv, TypeOK, CountGarbled
<1>7. IsFiniteSet(Untracked) /\ Cardinality(Untracked) \in Nat
  BY Zenon, FewerElements DEF SecretsInv, Untracked
<1>8. Cardinality(Untracked') \in Nat /\ Cardinality(Untracked') <= Cardinality(Untracked)
  BY Zenon, <1>5, <1>7, FewerElements
<1> QED BY <1>4, <1>6, <1>7, <1>8 DEF SecretsInv

\* A message that does not open leaves at most one secret behind, and only if it is
\* garbled: one that was sent and is in the window opens.
LEMMA RejectLeavesOne ==
  ASSUME ChannelInv, SecretsInv, dec_open, NEW m \in Arrivals, ~Opens(m), DecryptReject(m), CountGarbled(m)
  PROVE  IsFiniteSet(DOMAIN dec_vault') /\ Cardinality(Untracked') <= garbled'
<1>1. garbled \in Nat /\ key_tracker' = key_tracker /\ dec_vault' = VaultWithKey(m.nonce)
  BY Zenon DEF ChannelInv, TypeOK, DecryptReject
<1>2. IsFiniteSet(Untracked) /\ Cardinality(Untracked) \in Nat
  BY Zenon, FewerElements DEF SecretsInv, Untracked
<1>3. CASE m.sealed = Garbage
  <2>1. DOMAIN dec_vault' \subseteq DOMAIN dec_vault \union {dec_ids} /\ garbled' = garbled + 1
    BY Zenon, <1>1, <1>3 DEF VaultWithKey, ImportSecret, CountGarbled
  <2>2. Untracked' \subseteq Untracked \union {dec_ids}
    BY <1>1, <2>1 DEF Untracked
  <2>3. Cardinality(Untracked') \in Nat /\ Cardinality(Untracked') <= Cardinality(Untracked) + 1
    BY Zenon, <1>2, <2>2, OneElementMore
  <2>4. IsFiniteSet(DOMAIN dec_vault')
    BY ZenonT(60), <2>1, OneElementMore DEF SecretsInv
  <2> QED BY <1>1, <1>2, <2>1, <2>3, <2>4 DEF SecretsInv
<1>4. CASE m.sealed # Garbage
  <2>1. m \in network
    BY <1>4 DEF Arrivals
  <2>2. ~MarkOk(nonce_tracker, m.nonce)
    BY Zenon, <2>1, InWindow DEF InWindowOpens
  <2>3. dec_vault' = dec_vault /\ garbled' = garbled
    BY Zenon, <1>1, <1>4, <2>2 DEF VaultWithKey, RekeysFor, NonceAdmitted, CountGarbled
  <2> QED BY <1>1, <2>3 DEF SecretsInv, Untracked
<1> QED BY Zenon, <1>3, <1>4

\* Every step keeps the count of secrets.
LEMMA NextSecretsInv == ChannelInv /\ SecretsInv /\ [Next]_vars => SecretsInv'
<1> SUFFICES ASSUME ChannelInv, SecretsInv, [Next]_vars PROVE SecretsInv'
  BY Zenon
<1>1. CASE HandleEncrypt \/ HandleEncryptApi
  <2>1. PICK kind : Encrypt(kind)
    BY <1>1 DEF HandleEncrypt, HandleEncryptApi
  <2>2. DOMAIN enc_vault' \subseteq {encryptor'.key}
    <3>1. encryptor \in [key : KeyIds, nonce : Nonces, open : BOOLEAN]
      BY DEF ChannelInv, TypeOK
    <3> QED BY Zenon, <2>1, <3>1 DEF Encrypt, ImportSecret, DeleteSecrets, SecretsInv
  <2>3. UNCHANGED <<dec_vars, garbled>>
    BY Zenon, <1>1 DEF HandleEncrypt, HandleEncryptApi
  <2> QED BY Zenon, <2>2, <2>3 DEF SecretsInv, Untracked, dec_vars
<1>2. CASE ShutdownEncryptor
  BY Zenon, <1>2 DEF ShutdownEncryptor, DeleteSecrets, SecretsInv, Untracked, dec_vars, ChannelInv, TypeOK
<1>3. ASSUME NEW m \in Arrivals, HandleDecrypt(m) \/ HandleDecryptApi(m) PROVE SecretsInv'
  <2>1. dec_open /\ Opens(m) /\ DecryptCommit(m) /\ CountGarbled(m) /\ UNCHANGED enc_vars
    BY Zenon, <1>3 DEF HandleDecrypt, HandleDecryptApi
  <2> QED BY Zenon, <2>1, CommitLeavesNothing DEF SecretsInv, enc_vars
<1>4. ASSUME NEW m \in Arrivals, HandleDecryptErr(m) PROVE SecretsInv'
  <2>1. dec_open /\ ~Opens(m) /\ DecryptReject(m) /\ CountGarbled(m) /\ UNCHANGED enc_vars
    BY Zenon, <1>4 DEF HandleDecryptErr
  <2> QED BY Zenon, <2>1, RejectLeavesOne DEF SecretsInv, enc_vars
<1>5. CASE ShutdownDecryptor
  <2>1. /\ DOMAIN dec_vault' \subseteq DOMAIN dec_vault /\ Untracked' = Untracked
        /\ UNCHANGED <<enc_vars, garbled>>
    BY Zenon, <1>5 DEF ShutdownDecryptor, DeleteSecrets, Untracked
  <2> QED BY Zenon, <2>1, FewerElements DEF SecretsInv, enc_vars
<1>6. CASE UNCHANGED vars
  BY <1>6 DEF vars, enc_vars, dec_vars, SecretsInv, Untracked
<1> QED BY Zenon, <1>1, <1>2, <1>3, <1>4, <1>5, <1>6 DEF Next

\* Secrets do not pile up in either vault: two more than the garbled messages that
\* decrypt has seen, however often the key is renewed.
THEOREM SecretsStayFew == Spec => []FewSecrets
<1>1. Init => SecretsInv
  <2> SUFFICES ASSUME Init PROVE SecretsInv
    OBVIOUS
  <2>1. DOMAIN enc_vault = {0} /\ encryptor.key = 0 /\ DOMAIN dec_vault = {0} /\ garbled = 0
        /\ key_tracker.current_key = 0
    BY DEF Init, KeyTrackerNew
  <2>2. Untracked = {}
    BY <2>1 DEF Untracked
  <2>3. IsFiniteSet({0}) /\ Cardinality({}) = 0
    BY FS_EmptySet, FS_Singleton, ZenonT(60)
  <2> QED BY <2>1, <2>2, <2>3 DEF SecretsInv
<1>2. ASSUME ChannelInv, SecretsInv PROVE FewSecrets
  <2>1. Cardinality(DOMAIN enc_vault) <= 1
    <3> DEFINE K == {encryptor.key}
    <3>1. IsFiniteSet(K) /\ Cardinality(K) = 1
      BY FS_Singleton, Zenon
    <3>2. DOMAIN enc_vault \subseteq K
      BY Zenon, <1>2 DEF SecretsInv
    <3> HIDE DEF K
    <3> QED BY Zenon, <3>1, <3>2, FewerElements
  <2>2. /\ IsFiniteSet(Untracked) /\ Cardinality(Untracked) \in Nat
        /\ Cardinality(Untracked) <= garbled /\ garbled \in Nat
    <3>1. IsFiniteSet(DOMAIN dec_vault) /\ Untracked \subseteq DOMAIN dec_vault
      BY Zenon, <1>2 DEF SecretsInv, Untracked
    <3> QED BY Zenon, <1>2, <3>1, FewerElements DEF SecretsInv, ChannelInv, TypeOK
  <2> DEFINE T == Untracked \union {key_tracker.current_key}
  <2>3. IsFiniteSet(T) /\ Cardinality(T) \in Nat /\ Cardinality(T) <= Cardinality(Untracked) + 1
    BY Zenon, <2>2, OneElementMore
  <2>4. DOMAIN dec_vault \subseteq T \union {key_tracker.previous_key}
    BY DEF Untracked
  <2> HIDE DEF T
  <2>5. Cardinality(DOMAIN dec_vault) \in Nat /\ Cardinality(DOMAIN dec_vault) <= Cardinality(T) + 1
    BY ZenonT(60), <2>3, <2>4, OneElementMore
  <2> QED BY <2>1, <2>2, <2>3, <2>5 DEF FewSecrets
<1> QED BY <1>1, <1>2, NextSecretsInv, ChannelInvariance, PTL DEF Spec

\* Encryptor, network and Decryptor implement the at-most-once channel.
THEOREM ChannelKeepsPromise == Spec => KeepsPromise
<1> DEFINE received == [n \in Nonces |-> forwarded[n] + replied[n]]
<1>1. Init => Promise!Init
  BY DEF Init, Promise!Init, Nonces
<1>2. ASSUME ChannelInv, [Next]_vars
      PROVE  [Promise!Next]_<<encryptor.nonce, received>>
  <2>1. ASSUME NEW kind \in Kinds, Encrypt(kind), UNCHANGED out_vars
        PROVE  Promise!Send
    <3>1. encryptor.nonce \in Nat /\ encryptor.nonce <= MaxNonce /\ encryptor.nonce # MaxNonce
          /\ encryptor'.nonce = encryptor.nonce + 1
      BY <1>2, <2>1, MaxNonceAssumption DEF Encrypt, ChannelInv, TypeOK, Nonces
    <3> QED BY <2>1, <3>1, MaxNonceAssumption DEF Promise!Send, out_vars
  <2>2. CASE HandleEncrypt \/ HandleEncryptApi
    BY <2>1, <2>2 DEF HandleEncrypt, HandleEncryptApi, Kinds, Promise!Next
  <2>3. CASE ShutdownEncryptor
    <3>1. encryptor'.nonce = encryptor.nonce
      BY Zenon, <1>2, <2>3 DEF ShutdownEncryptor, ChannelInv, TypeOK
    <3> QED BY Zenon, <2>3, <3>1 DEF ShutdownEncryptor, out_vars
  <2>4. CASE ShutdownDecryptor
    BY Zenon, <2>4 DEF ShutdownDecryptor, enc_vars, out_vars
  <2>5. ASSUME NEW m \in Arrivals, HandleDecryptErr(m)
        PROVE  UNCHANGED <<encryptor.nonce, received>>
    BY Zenon, <2>5 DEF HandleDecryptErr, enc_vars, out_vars
  <2>6. ASSUME NEW m \in Arrivals, HandleDecrypt(m) \/ HandleDecryptApi(m)
        PROVE  Promise!Receive(m.nonce) \/ UNCHANGED <<encryptor.nonce, received>>
    <3>1. m \in network /\ m.nonce \in Nonces /\ m.nonce < encryptor.nonce
      BY Zenon, <1>2, <2>6, OpensWasSent DEF HandleDecrypt, HandleDecryptApi
    <3>2. forwarded[m.nonce] = 0 /\ replied[m.nonce] = 0
      BY Zenon, <1>2, <2>6, <3>1, MarkedIsNew
         DEF HandleDecrypt, HandleDecryptApi, Opens, NonceAdmitted
    <3>3. encryptor' = encryptor
      BY Zenon, <2>6 DEF HandleDecrypt, HandleDecryptApi, enc_vars
    <3>4. forwarded \in [Nonces -> Nat] /\ replied \in [Nonces -> Nat]
      BY <1>2 DEF ChannelInv, TypeOK
    <3>5. CASE forwarded' = forwarded /\ replied' = replied
      BY Zenon, <3>3, <3>5
    <3>6. CASE \/ /\ forwarded' = [forwarded EXCEPT ![m.nonce] = @ + 1]
                  /\ replied' = replied
               \/ /\ replied' = [replied EXCEPT ![m.nonce] = @ + 1]
                  /\ forwarded' = forwarded
      <4>1. received[m.nonce] = 0
        BY <3>1, <3>2
      <4>2. received' = [received EXCEPT ![m.nonce] = 1]
        <5>1. \A n \in Nonces :
                forwarded'[n] + replied'[n]
                  = IF n = m.nonce THEN 1 ELSE forwarded[n] + replied[n]
          BY <3>1, <3>2, <3>4, <3>6
        <5>2. received' = [n \in Nonces |-> IF n = m.nonce THEN 1
                                            ELSE forwarded[n] + replied[n]]
          BY <5>1
        <5>3. [received EXCEPT ![m.nonce] = 1]
                = [n \in Nonces |-> IF n = m.nonce THEN 1
                                    ELSE forwarded[n] + replied[n]]
          BY <3>1, Zenon
        <5> QED BY Zenon, <5>2, <5>3
      <4> QED BY Zenon, <3>1, <3>3, <4>1, <4>2 DEF Promise!Receive
    <3> QED BY <2>6, <3>5, <3>6, SMTT(30) DEF HandleDecrypt, HandleDecryptApi
  <2>7. ASSUME NEW m \in Arrivals PROVE Opens(m) /\ dec_open => m.nonce \in 0 .. MaxNonce
    BY Zenon, <1>2, OpensWasSent DEF Nonces
  <2>8. CASE UNCHANGED vars
    BY Zenon, <2>8 DEF vars, enc_vars, out_vars
  <2> HIDE DEF received
  <2> QED
    BY Zenon, <1>2, <2>2, <2>3, <2>4, <2>5, <2>6, <2>7, <2>8
       DEF Next, Promise!Next, HandleDecrypt, HandleDecryptApi
<1>3. ChannelInv /\ [Next]_vars => [Promise!Next]_<<encryptor.nonce, received>>
  BY <1>2
<1> QED BY <1>1, <1>3, ChannelInvariance, PTL DEF Spec, KeepsPromise, Promise!Spec

=============================================================================
