---------------------------- MODULE LoginLedger ----------------------------
(***************************************************************************)
(* What logging in and out comes to, seen from authorization codes and     *)
(* sessions alone.  A code is redeemed once; a login that redeemed it is   *)
(* owed one session, which begins under an id that was never ended, or is  *)
(* dropped; a session ends once, for good.  So a code never logs in twice, *)
(* not even after the session it began has ended.  Tabs, cookies, flows    *)
(* and users do not appear: AuthFlow shows that the handlers keep to this  *)
(* however tabs replay, interleave and fail.                               *)
(***************************************************************************)

CONSTANTS
    Codes,      \* authorization codes
    Sids,       \* session ids
    NoCode      \* the code of a session that is not there

VARIABLES
    redeemed,   \* the codes that have been taken
    owed,       \* those whose login may still begin a session
    live,       \* [Sids -> Codes \cup {NoCode}]: the code a session began with
    ended       \* the sessions that were logged out

vars == <<redeemed, owed, live, ended>>

Init ==
    /\ redeemed = {}
    /\ owed = {}
    /\ live = [s \in Sids |-> NoCode]
    /\ ended = {}

\* Whoever redeemed the code is admitted and owed a session, or is not.
Redeem(c) ==
    /\ c \notin redeemed
    /\ redeemed' = redeemed \cup {c}
    /\ owed' \in {owed, owed \cup {c}}
    /\ UNCHANGED <<live, ended>>

\* The login fails after its code was taken.
Drop(c) ==
    /\ c \in owed
    /\ owed' = owed \ {c}
    /\ UNCHANGED <<redeemed, live, ended>>

Begin(c, s) ==
    /\ c \in owed
    /\ live[s] = NoCode
    /\ s \notin ended
    /\ live' = [live EXCEPT ![s] = c]
    /\ owed' = owed \ {c}
    /\ UNCHANGED <<redeemed, ended>>

End(s) ==
    /\ live[s] # NoCode
    /\ live' = [live EXCEPT ![s] = NoCode]
    /\ ended' = ended \cup {s}
    /\ UNCHANGED <<redeemed, owed>>

Next ==
    \/ \E c \in Codes : Redeem(c) \/ Drop(c)
    \/ \E c \in Codes, s \in Sids : Begin(c, s)
    \/ \E s \in Sids : End(s)

Spec == Init /\ [][Next]_vars
=============================================================================
