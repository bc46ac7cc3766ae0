---------------------------- MODULE MCKeyService ----------------------------
(* Small instances of KeyService for TLC.                                  *)
EXTENDS KeyService, TLC

CONSTANTS s1, s2, pepper1, pepper2, cookieKey1, cookieKey2

\* One configuration: no restart changes anything but the requests in flight.
SteadyConfigs ==
    {[services |-> {s1}, pepper |-> pepper1, cookieKey |-> cookieKey1]}

\* Restarts that drop a service, change the pepper or change the cookie key.
ChangingConfigs ==
    {[services |-> {s1, s2}, pepper |-> pepper1, cookieKey |-> cookieKey1],
     [services |-> {s1},     pepper |-> pepper1, cookieKey |-> cookieKey1],
     [services |-> {s1, s2}, pepper |-> pepper2, cookieKey |-> cookieKey2]}

\* Users, ids, secrets, session ids and request slots are interchangeable.
Symmetry ==
    Permutations(Users) \cup Permutations(KeyIds) \cup Permutations(Plaintexts)
        \cup Permutations(Sids) \cup Permutations(Requests)
=============================================================================
