----------------------------- MODULE KeyTracker -----------------------------
(***************************************************************************)
(* What the receiver of a secure channel knows of the nonces it received.  *)
(*                                                                         *)
(* The replay window (nonce_tracker.rs) is a bitmap of the nonces received *)
(* below and at the highest one.  Bit i of nonce_bitmap stands for the     *)
(* nonce current_nonce - i; the bitmap is the set of the positions of its  *)
(* one bits.                                                               *)
(*                                                                         *)
(* The key tracker (key_tracker.rs) says which key a nonce is decrypted    *)
(* with.  Nonces fall into intervals of KEY_RENEWAL_INTERVAL; each         *)
(* interval has a key of its own, and the receiver keeps the key of the    *)
(* current interval and the key of the one before it.                      *)
(***************************************************************************)
EXTENDS Integers

CONSTANTS
  KEY_RENEWAL_INTERVAL,  \* size of the window, 32 in the code
  BitmapBits,            \* width of BitmapType, 64 in the code
  MaxNonce,              \* u64::MAX
  None                   \* the absent previous_key

ASSUME IntervalAssumption == KEY_RENEWAL_INTERVAL \in Nat \ {0}

\* The array length in nonce_tracker.rs that refuses to compile otherwise.
ASSUME BitmapAssumption ==
  BitmapBits \in Nat /\ KEY_RENEWAL_INTERVAL + 1 <= BitmapBits

ASSUME MaxNonceAssumption == MaxNonce \in Nat

ASSUME NoneAssumption == None \notin Nat

-----------------------------------------------------------------------------
(* nonce_tracker.rs *)

Bitmaps == SUBSET (0 .. BitmapBits - 1)

NonceTrackers == [nonce_bitmap : Bitmaps, current_nonce : Nat]

NonceTrackerNew == [nonce_bitmap |-> {}, current_nonce |-> 0]

\* Bits shifted past the top are lost, and the distance is taken modulo the
\* width, as overflowing_shl does.
OverflowingShl(bitmap, shift) ==
  LET s == shift % BitmapBits
  IN  {i \in 0 .. BitmapBits - 1 : s <= i /\ i - s \in bitmap}

\* mark returns Ok: the nonce is in the window and was not seen before.
MarkOk(t, nonce) ==
  IF nonce > t.current_nonce
  THEN nonce - t.current_nonce <= KEY_RENEWAL_INTERVAL
  ELSE /\ t.current_nonce - nonce <= KEY_RENEWAL_INTERVAL
       /\ t.current_nonce - nonce \notin t.nonce_bitmap

\* The tracker mark returns; the caller decides whether to keep it.
Mark(t, nonce) ==
  IF nonce > t.current_nonce
  THEN [nonce_bitmap  |-> OverflowingShl(t.nonce_bitmap, nonce - t.current_nonce)
                            \union {0},
        current_nonce |-> nonce]
  ELSE [t EXCEPT !.nonce_bitmap = @ \union {t.current_nonce - nonce}]

-----------------------------------------------------------------------------
(* key_tracker.rs *)

KeyIds == Nat

KeyTrackers ==
  [current_key        : KeyIds,
   previous_key       : KeyIds \union {None},
   number_of_rekeys   : Nat,
   max_rekeys_reached : BOOLEAN]

KeyTrackerNew(key) ==
  [current_key        |-> key,
   previous_key       |-> None,
   number_of_rekeys   |-> 0,
   max_rekeys_reached |-> FALSE]

CurrentIntervalStart(kt) == kt.number_of_rekeys * KEY_RENEWAL_INTERVAL

\* The three ways get_key does not fail.  It returns the current key, ...
InCurrentInterval(kt, nonce) ==
  /\ ~kt.max_rekeys_reached
  /\ nonce >= CurrentIntervalStart(kt)
  /\ nonce - CurrentIntervalStart(kt) < KEY_RENEWAL_INTERVAL

InNextIntervalOrLater(kt, nonce) ==
  /\ ~kt.max_rekeys_reached
  /\ nonce - CurrentIntervalStart(kt) > KEY_RENEWAL_INTERVAL
  /\ nonce - CurrentIntervalStart(kt) < 2 * KEY_RENEWAL_INTERVAL

\* ... or None, which asks the caller for a new key, ...
InNextInterval(kt, nonce) ==
  /\ ~kt.max_rekeys_reached
  /\ nonce >= CurrentIntervalStart(kt)
  /\ nonce - CurrentIntervalStart(kt) >= KEY_RENEWAL_INTERVAL
  /\ nonce - CurrentIntervalStart(kt) < 2 * KEY_RENEWAL_INTERVAL

\* ... or the previous key.
InPreviousInterval(kt, nonce) ==
  /\ ~kt.max_rekeys_reached
  /\ nonce < CurrentIntervalStart(kt)
  /\ CurrentIntervalStart(kt) - nonce <= KEY_RENEWAL_INTERVAL
  /\ kt.previous_key # None

GetKeyOk(kt, nonce) ==
  \/ InCurrentInterval(kt, nonce)
  \/ InNextInterval(kt, nonce)
  \/ InPreviousInterval(kt, nonce)

-----------------------------------------------------------------------------
\* A key that is neither the current nor the previous one shows that the
\* message just decrypted was the first of the next interval.
IsNewKey(kt, decryption_key) ==
  decryption_key # kt.current_key /\ decryption_key # kt.previous_key

UpdateKeyKeepsOldest(kt, decryption_key) ==
  IF IsNewKey(kt, decryption_key)
  THEN [kt EXCEPT !.current_key = decryption_key,
                  !.number_of_rekeys = @ + 1]
  ELSE kt

UpdateKey(kt, decryption_key) ==
  IF IsNewKey(kt, decryption_key)
  THEN LET last == MaxNonce - CurrentIntervalStart(kt) < KEY_RENEWAL_INTERVAL
       IN  [current_key        |-> decryption_key,
            previous_key       |-> kt.current_key,
            number_of_rekeys   |-> IF last THEN kt.number_of_rekeys
                                           ELSE kt.number_of_rekeys + 1,
            max_rekeys_reached |-> last \/ kt.max_rekeys_reached]
  ELSE kt

\* What update_key returns: the keys, at most one, that are out of use.
KeyToDelete(kt, decryption_key) ==
  IF IsNewKey(kt, decryption_key) THEN {kt.previous_key} \ {None} ELSE {}

=============================================================================
