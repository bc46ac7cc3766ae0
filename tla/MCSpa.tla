-------------------------------- MODULE MCSpa -------------------------------
(* A small instance of Spa for TLC.                                        *)
EXTENDS Spa, TLC, SequencesExt

Heads == {"", "api", "proxy", "assets", "healthz", "new"}
Tails == {"", "keys", "me", "garbage"}

\* All paths of up to four segments out of these.
SmallPaths == {<<h>> \o t : h \in Heads, t \in BoundedSeq(Tails, 3)}
=============================================================================
