--------------------------- MODULE MCProxyForward ---------------------------
(* Small instances of ProxyForward for TLC: two services of which one is   *)
(* served, and a key for each.                                             *)
EXTENDS ProxyForward, TLC

CONSTANTS k1, k2, svc, gone

MCScope == (k1 :> svc) @@ (k2 :> gone)
=============================================================================
