----------------------------- MODULE Dashboard -----------------------------
(***************************************************************************)
(* The dashboard page: the list it shows, the optimistic revokes it has in *)
(* flight, and the refetches by which it repairs itself, against the rows  *)
(* of api_keys as GET and DELETE /api/keys treat them.                     *)
(*                                                                         *)
(* Each onRevoke is one call with a life of its own: its DELETE and, if    *)
(* that fails, its refetch are answered in any order with those of other   *)
(* calls, and a list is as old as the moment the server read it.           *)
(***************************************************************************)
EXTENDS Naturals

CONSTANTS
    Keys,
    Calls,      \* bound: revokes in flight at one time
    Elsewhere,  \* keys that other tabs of the user may mint or revoke
    None

ASSUME ElsewhereAssumption == Elsewhere \subseteq Keys

RowState == {"absent", "active", "revoked"}
List == [Keys -> RowState]
CallState == {"sent", "deleted", "failed", "refetch", "unauthorized", "listed"}
Call == [key : Keys, state : CallState, mounted : BOOLEAN, list : List \cup {None}]

ASSUME NoneAssumption == None \notin List \cup Call

VARIABLES
    rows,       \* the user's rows in api_keys
    signedIn,   \* whether the browser's session is alive
    page,       \* loading, shown or login
    loaded,     \* the list that the answer to the first load carries
    keys,       \* the list on the page
    busy,       \* rows with _busy
    error,      \* whether an error is on the page
    calls,      \* the revokes in flight
    refetched,  \* history: how the last refetch of this page ended
    late        \* history: keys whose DELETE was given up before it was answered

view == <<page, loaded, keys, busy, error>>
vars == <<rows, signedIn, view, calls, refetched, late>>

Empty == [k \in Keys |-> "absent"]
Return(c) == calls' = [calls EXCEPT ![c] = None]
Becomes(c, s) == calls' = [calls EXCEPT ![c].state = s]
In(c, s) == calls[c] # None /\ calls[c].state = s
GivenUp(C) == {calls[c].key : c \in {d \in C : In(d, "sent")}}
Pending(k) == \E c \in Calls : calls[c] # None /\ calls[c].mounted /\ calls[c].key = k

-----------------------------------------------------------------------------
Init ==
    /\ rows \in [Keys -> {"absent", "active"}]
    /\ signedIn = TRUE
    /\ page = "loading" /\ loaded = None
    /\ keys = Empty /\ busy = {} /\ error = FALSE
    /\ calls = [c \in Calls |-> None]
    /\ refetched = "never" /\ late = {}

(* The first load.                                                         *)

LoadAnswered ==
    /\ page = "loading" /\ loaded = None /\ signedIn /\ ~error
    /\ loaded' = rows
    /\ UNCHANGED <<rows, signedIn, page, keys, busy, error, calls, refetched, late>>

Load ==
    /\ page = "loading" /\ loaded # None /\ ~error
    /\ page' = "shown" /\ keys' = loaded /\ loaded' = None
    /\ UNCHANGED <<rows, signedIn, busy, error, calls, refetched, late>>

\* A 401 leads to the login page; anything else leaves an error and no list, and
\* nothing asks again.
LoadFails ==
    /\ page = "loading" /\ ~error
    /\ \/ ~signedIn /\ page' = "login" /\ error' = FALSE
       \/ page' = page /\ error' = TRUE
    /\ UNCHANGED <<rows, signedIn, loaded, keys, busy, calls, refetched, late>>

(* onRevoke                                                                *)

\* The button is there while the row is active and not busy.  The row flips.
Revoke(k, c) ==
    /\ page = "shown" /\ keys[k] = "active" /\ k \notin busy
    /\ calls[c] = None
    /\ keys' = [keys EXCEPT ![k] = "revoked"]
    /\ busy' = busy \cup {k}
    /\ calls' = [calls EXCEPT ![c] =
                   [key |-> k, state |-> "sent", mounted |-> TRUE, list |-> None]]
    /\ UNCHANGED <<rows, signedIn, page, loaded, error, refetched, late>>

\* DELETE at the server: 401, 404 for a row that is not active, or 204.
Delete(c) ==
    /\ In(c, "sent")
    /\ LET k == calls[c].key IN
       \/ ~signedIn /\ Becomes(c, "failed") /\ UNCHANGED rows
       \/ signedIn /\ rows[k] # "active" /\ Becomes(c, "failed") /\ UNCHANGED rows
       \/ /\ signedIn /\ rows[k] = "active"
          /\ rows' = [rows EXCEPT ![k] = "revoked"]
          /\ Becomes(c, "deleted")
    /\ UNCHANGED <<signedIn, view, refetched, late>>

\* A 500, or the connection is lost before or after the statement.  Before it, the
\* server or its SQLite worker may still have the statement to run.
DeleteFails(c) ==
    /\ In(c, "sent") \/ In(c, "deleted")
    /\ Becomes(c, "failed")
    /\ late' = late \cup GivenUp({c})
    /\ UNCHANGED <<rows, signedIn, view, refetched>>

\* The worker runs the statement although the request is gone.
LateDelete(k) ==
    /\ k \in late /\ rows[k] = "active"
    /\ rows' = [rows EXCEPT ![k] = "revoked"]
    /\ UNCHANGED <<signedIn, view, calls, refetched, late>>

\* Bug: the row stays busy.
RevokedStuck(c) ==
    /\ In(c, "deleted")
    /\ Return(c)
    /\ UNCHANGED <<rows, signedIn, view, refetched, late>>

\* The 204: only _busy is reset, the row keeps whatever state it shows.
Revoked(c) ==
    /\ In(c, "deleted")
    /\ busy' = IF calls[c].mounted THEN busy \ {calls[c].key} ELSE busy
    /\ Return(c)
    /\ UNCHANGED <<rows, signedIn, page, loaded, keys, error, refetched, late>>

\* Bug: the failure is swallowed.
CatchNothing(c) ==
    /\ In(c, "failed")
    /\ busy' = IF calls[c].mounted THEN busy \ {calls[c].key} ELSE busy
    /\ Return(c)
    /\ UNCHANGED <<rows, signedIn, page, loaded, keys, error, refetched, late>>

\* Bug: the failure is shown and the list not fetched again.
CatchTells(c) ==
    /\ In(c, "failed")
    /\ IF calls[c].mounted
       THEN busy' = busy \ {calls[c].key} /\ error' = TRUE
       ELSE UNCHANGED <<busy, error>>
    /\ Return(c)
    /\ UNCHANGED <<rows, signedIn, page, loaded, keys, refetched, late>>

\* The catch: GET /api/me and GET /api/keys.
Catch(c) ==
    /\ In(c, "failed")
    /\ Becomes(c, "refetch")
    /\ UNCHANGED <<rows, signedIn, view, refetched, late>>

ListKeys(c) ==
    /\ In(c, "refetch")
    /\ \/ ~signedIn /\ Becomes(c, "unauthorized")
       \/ signedIn /\ calls' = [calls EXCEPT ![c].state = "listed", ![c].list = rows]
    /\ UNCHANGED <<rows, signedIn, view, refetched, late>>

\* The list replaces the page's, _busy flags included; then the failure of the
\* revoke is shown.
Refreshed(c) ==
    /\ In(c, "listed")
    /\ IF calls[c].mounted
       THEN keys' = calls[c].list /\ busy' = {} /\ error' = TRUE /\ refetched' = "repaired"
       ELSE UNCHANGED <<keys, busy, error, refetched>>
    /\ Return(c)
    /\ UNCHANGED <<rows, signedIn, page, loaded, late>>

\* The refetch fails: the row stays as it was flipped, under an error.
RefreshFails(c) ==
    /\ In(c, "refetch") \/ In(c, "listed")
    /\ IF calls[c].mounted
       THEN error' = TRUE /\ refetched' = "failed"
       ELSE UNCHANGED <<error, refetched>>
    /\ Return(c)
    /\ UNCHANGED <<rows, signedIn, page, loaded, keys, busy, late>>

(* Leaving the page unmounts it: calls in flight go on, and set the state of *)
(* a component that is gone.  Their 401 navigates all the same.              *)

\* Bug: _busy outlives the page.
UnmountBusy(p) ==
    /\ page' = p /\ loaded' = None
    /\ keys' = Empty /\ busy' = busy /\ error' = FALSE /\ refetched' = "never"

Unmount(p) ==
    /\ page' = p /\ loaded' = None
    /\ keys' = Empty /\ busy' = {} /\ error' = FALSE /\ refetched' = "never"

Orphans(c) == IF calls[c] = None THEN None ELSE [calls[c] EXCEPT !.mounted = FALSE]

RefreshUnauthorized(c) ==
    /\ In(c, "unauthorized")
    /\ Unmount("login")
    /\ calls' = [d \in Calls |-> IF d = c THEN None ELSE Orphans(d)]
    /\ UNCHANGED <<rows, signedIn, late>>

\* To /new and back.
Revisit ==
    /\ page \in {"loading", "shown"}
    /\ Unmount("loading")
    /\ calls' = [c \in Calls |-> Orphans(c)]
    /\ UNCHANGED <<rows, signedIn, late>>

\* onLogout navigates in its finally, whether or not the session has ended.
SignOut ==
    /\ page \in {"loading", "shown"}
    /\ Unmount("login")
    /\ signedIn' \in {signedIn, FALSE}
    /\ calls' = [c \in Calls |-> Orphans(c)]
    /\ UNCHANGED <<rows, late>>

\* Signing in loads the page anew, and with it every script state.
SignIn ==
    /\ page = "login"
    /\ Unmount("loading")
    /\ signedIn' = TRUE
    /\ calls' = [c \in Calls |-> None]
    /\ late' = late \cup GivenUp(Calls)
    /\ UNCHANGED rows

SessionEnds ==
    /\ signedIn
    /\ signedIn' = FALSE
    /\ UNCHANGED <<rows, view, calls, refetched, late>>

OtherTab(k) ==
    /\ \/ rows[k] = "absent" /\ rows' = [rows EXCEPT ![k] = "active"]
       \/ rows[k] = "active" /\ rows' = [rows EXCEPT ![k] = "revoked"]
    /\ UNCHANGED <<signedIn, view, calls, refetched, late>>

Settle(c) == Delete(c) \/ Revoked(c) \/ Catch(c) \/ ListKeys(c) \/ Refreshed(c) \/ RefreshUnauthorized(c)

Next ==
    \/ LoadAnswered \/ Load \/ LoadFails
    \/ \E k \in Keys, c \in Calls : Revoke(k, c)
    \/ \E c \in Calls : Settle(c) \/ DeleteFails(c) \/ RefreshFails(c)
    \/ Revisit \/ SignOut \/ SignIn \/ SessionEnds
    \/ \E k \in Keys : LateDelete(k)
    \/ \E k \in Elsewhere : OtherTab(k)

Spec == Init /\ [][Next]_vars

\* Requests are answered, with whatever answer.
FairSpec == Spec /\ \A c \in Calls : WF_vars(Settle(c))

-----------------------------------------------------------------------------
(* Properties                                                              *)

\* Everything has its type, and no row is shown that the server never had.
TypeOK ==
    /\ rows \in List
    /\ signedIn \in BOOLEAN
    /\ page \in {"loading", "shown", "login"}
    /\ loaded \in List \cup {None}
    /\ keys \in List
    /\ busy \subseteq {k \in Keys : keys[k] # "absent"}
    /\ error \in BOOLEAN
    /\ calls \in [Calls -> Call \cup {None}]
    /\ refetched \in {"never", "repaired", "failed"}
    /\ late \subseteq Keys
    /\ \A k \in Keys : rows[k] = "absent" => keys[k] = "absent"

\* The page shows an active key as revoked only while the revoke is under way or
\* an error is on the page: no failed revoke passes for a done one.  Nor is a
\* row busy without a call of it under way.
RevokedIsTrue ==
    \A k \in Keys :
        (keys[k] = "revoked" /\ rows[k] = "active") \/ k \in busy => Pending(k) \/ error

\* A row flipped to revoked does not stay a lie: the key is revoked in the end,
\* or the row flips back, or the user has left the page, or the page has asked the
\* server for the list and not got it.  An error alone does not excuse the row.
FlipsSettle ==
    \A k \in Keys :
        keys[k] = "revoked" ~> rows[k] = "revoked" \/ keys[k] # "revoked" \/ refetched = "failed"

\* A list that is behind the table at most by revokes that were given up.
Lags(l) ==
    \A k \in Keys : l[k] = rows[k] \/ (k \in late /\ l[k] = "active" /\ rows[k] = "revoked")

\* "On failure we refetch to repair the view": when every call has come back and
\* the last refetch succeeded, the page shows what the server has, save for a
\* revoke that the page gave up and the server may have done since.
ViewRepaired ==
    page = "shown" /\ refetched = "repaired" /\ (\A c \in Calls : calls[c] = None) => Lags(keys)
=============================================================================
