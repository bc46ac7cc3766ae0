---------------------------- MODULE MCDashboard ----------------------------
(* Small instances of Dashboard for TLC.  Liveness is checked, so there is *)
(* no symmetry.                                                            *)
EXTENDS Dashboard
=============================================================================
