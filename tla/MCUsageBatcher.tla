--------------------------- MODULE MCUsageBatcher ---------------------------
(* Small instances of UsageBatcher for TLC.                                *)
EXTENDS UsageBatcher, TLC

Symmetry == Permutations(Keys) \cup Permutations(Requests)
=============================================================================
