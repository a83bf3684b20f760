---------------------------- MODULE KeyAgreement ----------------------------
(***************************************************************************)
(* What a key exchange promises.  An initiator obtains a key nobody else   *)
(* has; a responder obtains the key of an initiator, and no two responders *)
(* the same one.  Keys are never replaced.  A key that is not there yet is *)
(* {}, a key k is {k}.                                                     *)
(***************************************************************************)
CONSTANTS Initiators, Responders
VARIABLES initiatorKey, responderKey

Init ==
    /\ initiatorKey = [i \in Initiators |-> {}]
    /\ responderKey = [r \in Responders |-> {}]

InitiatorObtainsKey(i) ==
    /\ initiatorKey[i] = {}
    /\ initiatorKey'[i] # {}
    /\ \A j \in Initiators : initiatorKey[j] # initiatorKey'[i]
    /\ \A r \in Responders : responderKey[r] # initiatorKey'[i]
    /\ initiatorKey' = [initiatorKey EXCEPT ![i] = initiatorKey'[i]]
    /\ UNCHANGED responderKey

ResponderObtainsKey(r) ==
    /\ responderKey[r] = {}
    /\ \E i \in Initiators :
        /\ initiatorKey[i] # {}
        /\ \A q \in Responders : responderKey[q] # initiatorKey[i]
        /\ responderKey' = [responderKey EXCEPT ![r] = initiatorKey[i]]
    /\ UNCHANGED initiatorKey

Next ==
    \/ \E i \in Initiators : InitiatorObtainsKey(i)
    \/ \E r \in Responders : ResponderObtainsKey(r)

Spec == Init /\ [][Next]_<<initiatorKey, responderKey>>
=============================================================================
