---------------------------- MODULE KeyRegistry ----------------------------
(***************************************************************************)
(* What Pietro promises about API keys, stated slot by slot.  A slot is a  *)
(* (user, service, label) triple; it is free or held by exactly one key,   *)
(* and a key that has been retired never holds a slot again.  Nothing is   *)
(* said of tables, indexes, requests or restarts: KeyService shows that    *)
(* the SQL rows and the handlers that race over them keep this promise.    *)
(***************************************************************************)

CONSTANTS
    Slots,      \* (user, service, label) triples
    KeyIds,     \* public key ids
    Free        \* the holder of a slot nobody holds

VARIABLES
    holder,     \* [Slots -> KeyIds \cup {Free}]
    retired     \* the revoked keys

vars == <<holder, retired>>

Init ==
    /\ holder = [s \in Slots |-> Free]
    /\ retired = {}

Issue(s, k) ==
    /\ holder[s] = Free
    /\ k \notin retired
    /\ \A t \in Slots : holder[t] # k
    /\ holder' = [holder EXCEPT ![s] = k]
    /\ UNCHANGED retired

Retire(s) ==
    /\ holder[s] # Free
    /\ holder' = [holder EXCEPT ![s] = Free]
    /\ retired' = retired \cup {holder[s]}

Next ==
    \/ \E s \in Slots, k \in KeyIds : Issue(s, k)
    \/ \E s \in Slots : Retire(s)

Spec == Init /\ [][Next]_vars
=============================================================================
