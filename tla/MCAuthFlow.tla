----------------------------- MODULE MCAuthFlow -----------------------------
(* Small instances of AuthFlow for TLC.                                    *)
EXTENDS AuthFlow, TLC

Symmetry ==
    Permutations(Tabs) \cup Permutations(Flows)
        \cup Permutations(Codes) \cup Permutations(Sids)
=============================================================================
