--------------------------- MODULE Dashboard_proofs ---------------------------
(***************************************************************************)
(* What the dashboard shows, for any number of keys and of revokes in      *)
(* flight.                                                                 *)
(***************************************************************************)
EXTENDS Dashboard, TLAPS

LEMMA NoneIsOther == None \notin List /\ None \notin Call
  BY NoneAssumption

\* The types alone, without what TypeOK says of shown and busy rows.
Typed ==
    /\ rows \in List
    /\ signedIn \in BOOLEAN
    /\ page \in {"loading", "shown", "login"}
    /\ loaded \in List \cup {None}
    /\ keys \in List
    /\ busy \subseteq Keys
    /\ error \in BOOLEAN
    /\ calls \in [Calls -> Call \cup {None}]
    /\ refetched \in {"never", "repaired", "failed"}
    /\ late \subseteq Keys
    /\ \A c \in Calls : In(c, "listed") => calls[c].list # None

-----------------------------------------------------------------------------
(* What a step does to one call                                            *)

Starts(c) ==
    /\ calls[c] = None /\ page' = "shown"
    /\ calls'[c].state = "sent" /\ calls'[c].list = None

Goes(c) ==
    /\ calls[c] # None
    /\ calls'[c].key = calls[c].key
    /\ calls'[c].mounted => calls[c].mounted
    /\ calls'[c].state = "deleted"
          => calls[c].state = "deleted" \/ rows'[calls[c].key] = "revoked"
    /\ \/ calls'[c].list = calls[c].list /\ (calls'[c].state = "listed" => calls[c].state = "listed")
       \/ calls'[c].list = rows /\ rows' = rows

CallStep(c) ==
    \/ calls'[c] = None
    \/ calls'[c] \in Call /\ (Starts(c) \/ Goes(c))

\* Records of calls after the updates the handlers make.
LEMMA BecomesCall ==
    ASSUME Typed, NEW c \in Calls, calls[c] # None, NEW s \in CallState, Becomes(c, s)
    PROVE  /\ calls[c] \in Call /\ calls'[c] \in Call
           /\ calls'[c].state = s /\ calls'[c].key = calls[c].key
           /\ calls'[c].mounted = calls[c].mounted /\ calls'[c].list = calls[c].list
           /\ \A d \in Calls \ {c} : calls'[d] = calls[d]
<1>1. calls[c] \in Call /\ calls'[c] = [calls[c] EXCEPT !.state = s]
      /\ \A d \in Calls \ {c} : calls'[d] = calls[d]
  BY DEF Typed, Becomes
<1> QED
  BY <1>1 DEF Call

LEMMA ListedCall ==
    ASSUME Typed, NEW c \in Calls, calls[c] # None,
           calls' = [calls EXCEPT ![c].state = "listed", ![c].list = rows]
    PROVE  /\ calls[c] \in Call /\ calls'[c] \in Call
           /\ calls'[c].state = "listed" /\ calls'[c].key = calls[c].key
           /\ calls'[c].mounted = calls[c].mounted /\ calls'[c].list = rows
           /\ \A d \in Calls \ {c} : calls'[d] = calls[d]
<1>1. calls[c] \in Call /\ \A d \in Calls \ {c} : calls'[d] = calls[d]
  BY DEF Typed
<1>2. calls'[c] = [calls[c] EXCEPT !.state = "listed", !.list = rows]
  BY <1>1 DEF Typed
<1> QED
  BY <1>1, <1>2 DEF Call, CallState, Typed

LEMMA OrphanCall ==
    ASSUME Typed, NEW c \in Calls
    PROVE  IF calls[c] = None THEN Orphans(c) = None
           ELSE /\ Orphans(c) \in Call /\ ~Orphans(c).mounted
                /\ Orphans(c).key = calls[c].key /\ Orphans(c).state = calls[c].state
                /\ Orphans(c).list = calls[c].list
<1>1. CASE calls[c] # None
  <2>1. calls[c] \in Call /\ Orphans(c) = [calls[c] EXCEPT !.mounted = FALSE]
    BY <1>1 DEF Typed, Orphans
  <2> QED
    BY <1>1, <2>1 DEF Call
<1> QED
  BY <1>1 DEF Orphans

LEMMA KeptCall ==
    ASSUME Typed, NEW c \in Calls, calls'[c] = calls[c]
    PROVE  CallStep(c)
<1>1. CASE calls[c] = None
  BY <1>1 DEF CallStep
<1>2. CASE calls[c] # None
  <2>1. calls'[c] \in Call
    BY <1>2 DEF Typed
  <2>2. Goes(c)
    BY <1>2 DEF Goes
  <2> QED
    BY <2>1, <2>2 DEF CallStep
<1> QED
  BY <1>1, <1>2

\* A set of orphans.
LEMMA OrphanedCalls ==
    ASSUME Typed, NEW c \in Calls, calls'[c] = Orphans(c) \/ calls'[c] = None
    PROVE  CallStep(c) /\ (calls'[c] # None => ~calls'[c].mounted)
<1>1. CASE calls'[c] = None
  BY <1>1 DEF CallStep
<1>2. CASE calls'[c] # None
  <2>1. /\ calls[c] # None /\ calls'[c] \in Call /\ ~calls'[c].mounted
        /\ calls'[c].key = calls[c].key /\ calls'[c].state = calls[c].state
        /\ calls'[c].list = calls[c].list
    BY <1>2, OrphanCall
  <2>2. Goes(c)
    BY <2>1 DEF Goes
  <2> QED
    BY <2>1, <2>2 DEF CallStep
<1> QED
  BY <1>1, <1>2

LEMMA CallSteps ==
    ASSUME Typed, [Next]_vars, NEW c \in Calls
    PROVE  CallStep(c)
<1>1. CASE calls' = calls
  BY <1>1, KeptCall
<1>2. ASSUME NEW k \in Keys, NEW d \in Calls, Revoke(k, d) PROVE CallStep(c)
  <2>1. CASE c = d
    <3>1. calls'[c] = [key |-> k, state |-> "sent", mounted |-> TRUE, list |-> None]
          /\ calls[c] = None /\ page' = "shown"
      BY <1>2, <2>1 DEF Revoke, Typed
    <3> QED
      BY <3>1 DEF CallStep, Starts, Call, CallState
  <2>2. CASE c # d
    BY <1>2, <2>2, KeptCall DEF Revoke, Typed
  <2> QED
    BY <2>1, <2>2
<1>3. ASSUME NEW d \in Calls, NEW s \in CallState, Becomes(d, s), calls[d] # None, s # "listed",
             s = "deleted" => rows'[calls[d].key] = "revoked"
      PROVE  CallStep(c)
  <2>1. CASE c = d
    BY <1>3, <2>1, BecomesCall DEF CallStep, Goes
  <2>2. CASE c # d
    BY <1>3, <2>2, BecomesCall, KeptCall
  <2> QED
    BY <2>1, <2>2
<1>4. ASSUME NEW d \in Calls, Delete(d) PROVE CallStep(c)
  <2>1. calls[d] # None /\ calls[d].key \in Keys
    BY <1>4 DEF Delete, In, Typed, Call
  <2>2. \/ Becomes(d, "failed")
        \/ Becomes(d, "deleted") /\ rows'[calls[d].key] = "revoked"
    BY <1>4, <2>1 DEF Delete, Typed, List
  <2> QED
    BY <1>3, <2>1, <2>2 DEF CallState
<1>5. ASSUME NEW d \in Calls, DeleteFails(d) \/ Catch(d) PROVE CallStep(c)
  <2>1. calls[d] # None /\ \E s \in {"failed", "refetch"} : Becomes(d, s)
    BY <1>5 DEF DeleteFails, Catch, In
  <2> QED
    BY <1>3, <2>1 DEF CallState
<1>6. ASSUME NEW d \in Calls, ListKeys(d) PROVE CallStep(c)
  <2>1. calls[d] # None /\ rows' = rows
        /\ \/ Becomes(d, "unauthorized")
           \/ calls' = [calls EXCEPT ![d].state = "listed", ![d].list = rows]
    BY <1>6 DEF ListKeys, In
  <2>2. CASE calls' = [calls EXCEPT ![d].state = "listed", ![d].list = rows]
    <3>1. CASE c = d
      BY <2>1, <2>2, <3>1, ListedCall DEF CallStep, Goes
    <3>2. CASE c # d
      BY <2>1, <2>2, <3>2, ListedCall, KeptCall
    <3> QED
      BY <3>1, <3>2
  <2> QED
    BY <1>3, <2>1, <2>2 DEF CallState
<1>7. ASSUME NEW d \in Calls, Return(d) PROVE CallStep(c)
  <2>1. calls'[c] = None \/ calls'[c] = calls[c]
    BY <1>7 DEF Return, Typed
  <2> QED
    BY <2>1, KeptCall DEF CallStep
<1>8. CASE (\E d \in Calls : RefreshUnauthorized(d)) \/ Revisit \/ SignOut \/ SignIn
  <2>1. calls'[c] = Orphans(c) \/ calls'[c] = None
    BY <1>8 DEF RefreshUnauthorized, Revisit, SignOut, SignIn
  <2> QED
    BY <2>1, OrphanedCalls
<1> QED
  BY <1>1, <1>2, <1>4, <1>5, <1>6, <1>7, <1>8
     DEF Next, Settle, LoadAnswered, Load, LoadFails, Revoked, Refreshed, RefreshFails,
         SessionEnds, OtherTab, LateDelete, vars

\* A row never goes back: not from revoked, and not out of the table.
LEMMA RowSteps ==
    ASSUME Typed, [Next]_vars, NEW k \in Keys
    PROVE  /\ rows' \in List
           /\ rows[k] # "absent" => rows'[k] # "absent"
           /\ rows[k] = "revoked" => rows'[k] = "revoked"
<1>1. CASE rows' = rows
  BY <1>1 DEF Typed
<1>2. ASSUME NEW c \in Calls, Delete(c), rows' # rows
      PROVE  /\ rows' \in List
             /\ rows[k] # "absent" => rows'[k] # "absent"
             /\ rows[k] = "revoked" => rows'[k] = "revoked"
  <2>1. calls[c].key \in Keys
    BY <1>2 DEF Delete, In, Typed, Call
  <2> QED
    BY <1>2, <2>1 DEF Delete, Typed, List, RowState
<1>3. ASSUME NEW j \in Elsewhere, OtherTab(j)
      PROVE  /\ rows' \in List
             /\ rows[k] # "absent" => rows'[k] # "absent"
             /\ rows[k] = "revoked" => rows'[k] = "revoked"
  BY <1>3, ElsewhereAssumption DEF OtherTab, Typed, List, RowState
<1>6. ASSUME NEW j \in Keys, LateDelete(j)
      PROVE  /\ rows' \in List
             /\ rows[k] # "absent" => rows'[k] # "absent"
             /\ rows[k] = "revoked" => rows'[k] = "revoked"
  BY <1>6 DEF LateDelete, Typed, List, RowState
<1>4. ASSUME NEW c \in Calls, ~Delete(c), Settle(c) \/ DeleteFails(c) \/ RefreshFails(c)
      PROVE  rows' = rows
  BY <1>4 DEF Settle, Revoked, Catch, ListKeys, Refreshed, RefreshUnauthorized,
     DeleteFails, RefreshFails
<1>5. ASSUME \/ LoadAnswered \/ Load \/ LoadFails \/ Revisit \/ SignOut \/ SignIn \/ SessionEnds
             \/ \E j \in Keys, c \in Calls : Revoke(j, c)
      PROVE  rows' = rows
  BY <1>5 DEF LoadAnswered, Load, LoadFails, Revisit, SignOut, SignIn, SessionEnds, Revoke
<1> QED
  BY <1>1, <1>2, <1>3, <1>4, <1>5, <1>6 DEF Next, vars

-----------------------------------------------------------------------------
(* Types                                                                   *)

LEMMA EmptyList == Empty \in List /\ \A k \in Keys : Empty[k] = "absent"
  BY DEF Empty, List, RowState

\* A list no fresher than the rows.
Older(l) ==
    \A k \in Keys : /\ rows[k] = "absent" => l[k] = "absent"
                    /\ l[k] = "revoked" => rows[k] = "revoked"

\* Before and after the list is shown, nothing is on the page, and no call
\* that may set its state is under way.
Blank ==
    page # "shown" =>
        /\ keys = Empty /\ busy = {}
        /\ \A c \in Calls : calls[c] # None => ~calls[c].mounted

\* Lists on their way to the page are old rows, and a revoke that the server has
\* done is in the table.
CallsHold ==
    \A c \in Calls : calls[c] # None =>
        /\ calls[c].list # None => Older(calls[c].list)
        /\ calls[c].state = "deleted" => rows[calls[c].key] = "revoked"

LoadedHolds == loaded # None => Older(loaded)

\* What is shown was in the table, and what is busy is shown.
ShownWasStored ==
    \A k \in Keys : /\ rows[k] = "absent" => keys[k] = "absent"
                    /\ k \in busy => keys[k] # "absent"

IInv == Typed /\ Blank /\ CallsHold /\ LoadedHolds /\ ShownWasStored /\ RevokedIsTrue

LEMMA OlderKept ==
    ASSUME Typed, [Next]_vars, NEW l, Older(l)
    PROVE  Older(l)'
  BY RowSteps DEF Older, Typed, List, RowState

LEMMA RowsAreOld == Older(rows)
  BY DEF Older

\* A call that starts or goes on keeps the page's types when nothing on the page
\* moves.
LEMMA CallsType ==
    ASSUME Typed, [Next]_vars
    PROVE  /\ \A c \in Calls : calls'[c] \in Call \cup {None}
           /\ \A c \in Calls : In(c, "listed")' => calls'[c].list # None
<1>1. ASSUME NEW c \in Calls PROVE calls'[c] \in Call \cup {None}
  BY CallSteps DEF CallStep
<1>2. ASSUME NEW c \in Calls, In(c, "listed")' PROVE calls'[c].list # None
  <2>1. calls'[c] # None /\ calls'[c].state = "listed" /\ (Starts(c) \/ Goes(c))
    BY <1>2, CallSteps DEF CallStep, In
  <2>2. CASE Goes(c)
    <3>1. calls[c] # None /\ (calls[c].state = "listed" => calls[c].list # None)
      BY <2>2 DEF Goes, Typed, In
    <3>2. rows # None
      BY NoneIsOther DEF Typed
    <3> QED
      BY <2>1, <2>2, <3>1, <3>2 DEF Goes
  <2> QED
    BY <2>1, <2>2 DEF Starts
<1> QED
  BY <1>1, <1>2

LEMMA CallsFunction ==
    ASSUME Typed, [Next]_vars
    PROVE  calls' \in [Calls -> Call \cup {None}]
<1>1. calls' = [c \in Calls |-> calls'[c]]
  BY DEF Next, Settle, vars, view, Typed, LoadAnswered, Load, LoadFails, Revoke, Delete,
     DeleteFails, Revoked, Catch, ListKeys, Refreshed, RefreshFails,
     RefreshUnauthorized, Revisit, SignOut, SignIn, SessionEnds, OtherTab, LateDelete, Return, Becomes
<1> QED
  BY <1>1, CallsType

LEMMA RowsType == ASSUME Typed, [Next]_vars PROVE rows' \in List
<1>1. rows' = [k \in Keys |-> rows'[k]]
  BY DEF Next, Settle, vars, Typed, List, LoadAnswered, Load, LoadFails, Revoke, Delete,
     DeleteFails, Revoked, Catch, ListKeys, Refreshed, RefreshFails,
     RefreshUnauthorized, Revisit, SignOut, SignIn, SessionEnds, OtherTab, LateDelete
<1>2. \A k \in Keys : rows'[k] \in RowState
  BY RowSteps DEF List
<1> QED
  BY <1>1, <1>2 DEF List

LEMMA ListedType ==
    ASSUME Typed, NEW c \in Calls, In(c, "listed")
    PROVE  calls[c] \in Call /\ calls[c].list \in List
  BY DEF Typed, In, Call

LEMMA LateType == ASSUME Typed, [Next]_vars PROVE late' \subseteq Keys
<1>1. ASSUME NEW C \in SUBSET Calls PROVE GivenUp(C) \subseteq Keys
  BY DEF GivenUp, In, Typed, Call
<1>2. late' = late \/ \E C \in SUBSET Calls : late' = late \cup GivenUp(C)
  BY DEF Next, Settle, vars, LoadAnswered, Load, LoadFails, Revoke, Delete, DeleteFails,
     Revoked, Catch, ListKeys, Refreshed, RefreshFails, RefreshUnauthorized, Revisit,
     SignOut, SignIn, SessionEnds, OtherTab, LateDelete
<1> QED
  BY <1>1, <1>2 DEF Typed

LEMMA TypedSteps == ASSUME Typed, [Next]_vars PROVE Typed'
<1> DEFINE ViewType == /\ signedIn' \in BOOLEAN
                       /\ page' \in {"loading", "shown", "login"}
                       /\ loaded' \in List \cup {None}
                       /\ keys' \in List
                       /\ busy' \subseteq Keys
                       /\ error' \in BOOLEAN
                       /\ refetched' \in {"never", "repaired", "failed"}
<1>1. ASSUME UNCHANGED <<signedIn, view, refetched>> PROVE ViewType
  BY <1>1 DEF view, Typed
<1>2. ASSUME LoadAnswered \/ Load \/ LoadFails \/ SessionEnds PROVE ViewType
  BY <1>2 DEF LoadAnswered, Load, LoadFails, SessionEnds, view, Typed
<1>3. ASSUME NEW k \in Keys, NEW c \in Calls, Revoke(k, c) PROVE ViewType
  BY <1>3 DEF Revoke, Typed, List, RowState
<1>4. ASSUME NEW c \in Calls, Revoked(c) \/ RefreshFails(c) PROVE ViewType
  BY <1>4 DEF Revoked, RefreshFails, Typed
<1>5. ASSUME NEW c \in Calls, Refreshed(c) PROVE ViewType
  BY <1>5, ListedType DEF Refreshed, Typed
<1>6. ASSUME \/ \E c \in Calls : RefreshUnauthorized(c)
             \/ Revisit \/ SignOut \/ SignIn
      PROVE  ViewType
  BY <1>6, EmptyList DEF RefreshUnauthorized, Revisit, SignOut, SignIn, Unmount, Typed
<1>7. ViewType
  BY <1>1, <1>2, <1>3, <1>4, <1>5, <1>6
     DEF Next, Settle, Delete, DeleteFails, Catch, ListKeys, OtherTab, LateDelete, vars
<1> QED
  BY <1>7, LateType, CallsType, CallsFunction, RowsType DEF Typed

LEMMA BlankSteps == ASSUME Typed, Blank, [Next]_vars PROVE Blank'
<1>1. CASE \/ \E c \in Calls : RefreshUnauthorized(c)
           \/ Revisit \/ SignOut \/ SignIn
  <2>1. ASSUME NEW c \in Calls, calls'[c] # None PROVE ~calls'[c].mounted
    <3>1. calls'[c] = Orphans(c) \/ calls'[c] = None
      BY <1>1 DEF RefreshUnauthorized, Revisit, SignOut, SignIn
    <3> QED
      BY <2>1, <3>1, OrphanedCalls
  <2>2. keys' = Empty /\ busy' = {}
    BY <1>1 DEF RefreshUnauthorized, Revisit, SignOut, SignIn, Unmount
  <2> QED
    BY <2>1, <2>2 DEF Blank
<1>2. CASE page' = "shown"
  BY <1>2 DEF Blank
<1>3. CASE page # "shown" /\ page' # "shown" /\ keys' = keys /\ busy' = busy
  <2>1. ASSUME NEW c \in Calls, calls'[c] # None PROVE ~calls'[c].mounted
    <3>1. calls'[c] \in Call /\ Goes(c)
      BY <1>3, <2>1, CallSteps DEF CallStep, Starts
    <3> QED
      BY <1>3, <3>1 DEF Goes, Blank
  <2> QED
    BY <1>3, <2>1 DEF Blank
<1>4. CASE page' # "shown" /\ page = page' /\ \E c \in Calls : Revoked(c) \/ Refreshed(c)
  <2>1. PICK c \in Calls : calls[c] # None /\ (Revoked(c) \/ Refreshed(c))
    BY <1>4 DEF Revoked, Refreshed, In
  <2>2. ~calls[c].mounted
    BY <1>4, <2>1 DEF Blank
  <2>3. keys' = keys /\ busy' = busy
    BY <2>1, <2>2 DEF Revoked, Refreshed
  <2> QED
    BY <1>3, <1>4, <2>3
<1>5. CASE UNCHANGED view
  BY <1>2, <1>3, <1>5 DEF view
<1>6. ASSUME NEW c \in Calls, RefreshFails(c) PROVE Blank'
  BY <1>2, <1>3, <1>6 DEF RefreshFails
<1>7. ASSUME \/ LoadAnswered \/ Load \/ LoadFails \/ SessionEnds
             \/ \E k \in Keys, c \in Calls : Revoke(k, c)
      PROVE  Blank'
  BY <1>2, <1>3, <1>5, <1>7 DEF LoadAnswered, Load, LoadFails, SessionEnds, Revoke
<1>8. ASSUME NEW c \in Calls, Revoked(c) \/ Refreshed(c) PROVE page' = page
  BY <1>8 DEF Revoked, Refreshed
<1> QED
  BY <1>1, <1>2, <1>4, <1>5, <1>6, <1>7, <1>8
     DEF Next, Settle, Delete, DeleteFails, Catch, ListKeys, OtherTab, LateDelete, vars

LEMMA CallsHoldSteps == ASSUME Typed, CallsHold, [Next]_vars PROVE CallsHold'
<1> SUFFICES ASSUME NEW c \in Calls, calls'[c] # None
             PROVE  /\ calls'[c].list # None => Older(calls[c].list)'
                    /\ calls'[c].state = "deleted" => rows'[calls'[c].key] = "revoked"
  BY DEF CallsHold, Older
<1>1. calls'[c] \in Call /\ (Starts(c) \/ Goes(c))
  BY CallSteps DEF CallStep
<1>2. CASE Starts(c)
  BY <1>2 DEF Starts
<1>3. CASE Goes(c)
  <2>1. /\ calls[c] # None /\ calls[c] \in Call /\ calls[c].key \in Keys
        /\ calls'[c].key = calls[c].key
    BY <1>3 DEF Goes, Typed, Call
  <2>2. /\ calls[c].list # None => Older(calls[c].list)
        /\ calls[c].state = "deleted" => rows[calls[c].key] = "revoked"
    BY <2>1 DEF CallsHold
  <2>3. calls'[c].state = "deleted" => rows'[calls'[c].key] = "revoked"
    BY <1>3, <2>1, <2>2, RowSteps DEF Goes
  <2>4. PICK l : l = calls'[c].list
    OBVIOUS
  <2>5. l # None => Older(l)
    BY <1>3, <2>2, <2>4, RowsAreOld DEF Goes
  <2>6. l # None => Older(l)'
    BY <2>5, OlderKept
  <2> QED
    BY <2>3, <2>4, <2>6 DEF Older
<1> QED
  BY <1>1, <1>2, <1>3

LEMMA LoadedHoldsSteps == ASSUME Typed, LoadedHolds, [Next]_vars PROVE LoadedHolds'
<1>1. loaded' \in {loaded, None, rows}
  BY DEF Next, Settle, LoadAnswered, Load, LoadFails, Revoke, Delete, DeleteFails, Revoked,
     Catch, ListKeys, Refreshed, RefreshFails, RefreshUnauthorized, Revisit, SignOut,
     SignIn, SessionEnds, OtherTab, LateDelete, Unmount, view, vars
<1>2. PICK l : l = loaded'
  OBVIOUS
<1>3. l # None => Older(l)
  BY <1>1, <1>2, RowsAreOld DEF LoadedHolds
<1>4. l # None => Older(l)'
  BY <1>3, OlderKept
<1> QED
  BY <1>2, <1>4 DEF LoadedHolds, Older

-----------------------------------------------------------------------------
(* What is shown                                                           *)

LEMMA ShownSteps == ASSUME IInv, [Next]_vars PROVE ShownWasStored'
<1> USE DEF IInv
<1>1. CASE keys' = Empty /\ busy' = {}
  BY <1>1, EmptyList DEF ShownWasStored
<1>2. ASSUME NEW l, Older(l), keys' = l, busy' = {} PROVE ShownWasStored'
  BY <1>2, OlderKept DEF ShownWasStored, Older
<1>3. CASE keys' = keys /\ busy' \subseteq busy
  BY <1>3, RowSteps DEF ShownWasStored
<1>4. ASSUME NEW k \in Keys, NEW c \in Calls, Revoke(k, c) PROVE ShownWasStored'
  BY <1>4 DEF Revoke, ShownWasStored, Typed, List
<1>5. CASE Load
  BY <1>2, <1>5 DEF Load, LoadedHolds, Blank
<1>6. ASSUME NEW c \in Calls, Refreshed(c) PROVE ShownWasStored'
  <2>1. calls[c] # None /\ calls[c].list # None /\ Older(calls[c].list)
    BY <1>6, ListedType, NoneIsOther DEF Refreshed, In, CallsHold
  <2> QED
    BY <1>2, <1>3, <1>6, <2>1 DEF Refreshed
<1>7. ASSUME \/ \E c \in Calls : RefreshUnauthorized(c)
             \/ Revisit \/ SignOut \/ SignIn
      PROVE  ShownWasStored'
  BY <1>1, <1>7 DEF RefreshUnauthorized, Revisit, SignOut, SignIn, Unmount
<1>8. ASSUME NEW c \in Calls, Revoked(c) \/ RefreshFails(c) PROVE ShownWasStored'
  BY <1>3, <1>8 DEF Revoked, RefreshFails
<1>9. CASE UNCHANGED view \/ LoadAnswered \/ LoadFails
  BY <1>3, <1>9 DEF view, LoadAnswered, LoadFails
<1> QED
  BY <1>4, <1>5, <1>6, <1>7, <1>8, <1>9
     DEF Next, Settle, Delete, DeleteFails, Catch, ListKeys, OtherTab, LateDelete, SessionEnds, vars

LEMMA RevokedIsTrueSteps == ASSUME IInv, [Next]_vars PROVE RevokedIsTrue'
<1> USE DEF IInv
<1> DEFINE Asks(k) == (keys[k] = "revoked" /\ rows[k] = "active") \/ k \in busy
<1> SUFFICES ASSUME NEW k \in Keys, Asks(k)', ~error'
             PROVE  Pending(k)'
  BY DEF RevokedIsTrue
<1>1. CASE keys' = Empty /\ busy' = {}
  BY <1>1, EmptyList
<1>2. ASSUME NEW l, Older(l), keys' = l, busy' = {} PROVE FALSE
  BY <1>2, OlderKept DEF Older
<1> DEFINE Stays(d) == calls'[d] # None /\ calls'[d].mounted /\ calls'[d].key = k
           Ours(d)  == calls[d] # None /\ calls[d].mounted /\ calls[d].key = k
<1>3. ASSUME keys'[k] = keys[k], k \in busy' => k \in busy, error => error',
             \A d \in Calls : Ours(d) => Stays(d)
      PROVE  Pending(k)'
  <2>1. Asks(k)
    <3>1. CASE k \in busy
      BY <3>1
    <3>2. CASE keys[k] = "revoked" /\ rows'[k] = "active"
      BY <3>2, RowSteps DEF ShownWasStored, Typed, List, RowState
    <3> QED
      BY <1>3, <3>1, <3>2
  <2>2. PICK d \in Calls : Ours(d)
    BY <1>3, <2>1 DEF RevokedIsTrue, Pending
  <2>3. Stays(d)
    BY <1>3, <2>2
  <2> QED
    BY <2>3 DEF Pending
<1>4. CASE Load
  BY <1>2, <1>4 DEF Load, LoadedHolds, Blank
<1>5. CASE LoadFails
  BY <1>1, <1>5 DEF LoadFails, Blank
<1>6. CASE \/ LoadAnswered \/ SessionEnds \/ UNCHANGED vars
           \/ (\E j \in Elsewhere : OtherTab(j)) \/ (\E j \in Keys : LateDelete(j))
  BY <1>3, <1>6 DEF LoadAnswered, SessionEnds, OtherTab, LateDelete, view, vars
<1>7. ASSUME NEW j \in Keys, NEW c \in Calls, Revoke(j, c) PROVE Pending(k)'
  <2>1. calls[c] = None /\ error' = error
        /\ calls'[c] = [key |-> j, state |-> "sent", mounted |-> TRUE, list |-> None]
        /\ \A d \in Calls \ {c} : calls'[d] = calls[d]
    BY <1>7 DEF Revoke, Typed
  <2>2. CASE j = k
    <3>1. calls'[c] \in Call /\ calls'[c].mounted /\ calls'[c].key = k
      BY <2>1, <2>2 DEF Call, CallState
    <3> QED
      BY <3>1, NoneIsOther DEF Pending
  <2>3. CASE j # k
    <3>1. keys'[k] = keys[k] /\ (k \in busy' => k \in busy)
      BY <1>7, <2>3 DEF Revoke, Typed, List
    <3> QED
      BY <1>3, <2>1, <3>1
  <2> QED
    BY <2>2, <2>3
<1>8. ASSUME NEW c \in Calls, calls[c] # None, UNCHANGED view,
             (\E s \in CallState : Becomes(c, s))
             \/ calls' = [calls EXCEPT ![c].state = "listed", ![c].list = rows]
      PROVE  Pending(k)'
  <2>1. /\ calls'[c] \in Call /\ calls'[c].key = calls[c].key
        /\ calls'[c].mounted = calls[c].mounted
        /\ \A d \in Calls \ {c} : calls'[d] = calls[d]
    BY <1>8, BecomesCall, ListedCall
  <2>2. \A d \in Calls : Ours(d) => Stays(d)
    BY <2>1, NoneIsOther
  <2> QED
    BY <1>3, <1>8, <2>2 DEF view
<1>9. ASSUME NEW c \in Calls, Delete(c) \/ DeleteFails(c) \/ Catch(c) \/ ListKeys(c)
      PROVE  Pending(k)'
  <2>1. calls[c] # None /\ UNCHANGED view
    BY <1>9 DEF Delete, DeleteFails, Catch, ListKeys, In
  <2>2. \/ \E s \in {"failed", "deleted", "refetch", "unauthorized"} : Becomes(c, s)
        \/ calls' = [calls EXCEPT ![c].state = "listed", ![c].list = rows]
    BY <1>9 DEF Delete, DeleteFails, Catch, ListKeys
  <2> QED
    BY <1>8, <2>1, <2>2 DEF CallState
<1>10. ASSUME NEW c \in Calls, Return(c), ~Ours(c), error => error', keys'[k] = keys[k],
              k \in busy' => k \in busy
       PROVE  Pending(k)'
  <2>1. \A d \in Calls \ {c} : calls'[d] = calls[d]
    BY <1>10 DEF Return, Typed
  <2> QED
    BY <1>3, <1>10, <2>1
<1>11. ASSUME NEW c \in Calls, Revoked(c) PROVE Pending(k)'
  <2>1. CASE Ours(c)
    <3>1. k \notin busy' /\ rows' = rows /\ rows[k] = "revoked"
      BY <1>11, <2>1 DEF Revoked, In, CallsHold
    <3> QED
      BY <3>1
  <2>2. CASE ~Ours(c)
    BY <1>10, <1>11, <2>2 DEF Revoked
  <2> QED
    BY <2>1, <2>2
<1>12. ASSUME NEW c \in Calls, Refreshed(c) \/ RefreshFails(c) PROVE Pending(k)'
  <2>1. ~calls[c].mounted
    BY <1>12 DEF Refreshed, RefreshFails
  <2> QED
    BY <1>10, <1>12, <2>1 DEF Refreshed, RefreshFails
<1>13. ASSUME \/ \E c \in Calls : RefreshUnauthorized(c)
              \/ Revisit \/ SignOut \/ SignIn
       PROVE  Pending(k)'
  BY <1>1, <1>13 DEF RefreshUnauthorized, Revisit, SignOut, SignIn, Unmount
<1> QED
  BY <1>4, <1>5, <1>6, <1>7, <1>9, <1>11, <1>12, <1>13 DEF Next, Settle

LEMMA Inductive == Spec => []IInv
<1>1. Init => IInv
  <2> SUFFICES ASSUME Init PROVE IInv
    OBVIOUS
  <2>1. Typed
    BY EmptyList DEF Init, Typed, List, RowState, In
  <2> QED
    BY <2>1, EmptyList
       DEF Init, IInv, Blank, CallsHold, LoadedHolds, ShownWasStored, RevokedIsTrue
<1>2. IInv /\ [Next]_vars => IInv'
  BY TypedSteps, BlankSteps, CallsHoldSteps, LoadedHoldsSteps, ShownSteps,
     RevokedIsTrueSteps DEF IInv
<1> QED
  BY <1>1, <1>2, PTL DEF Spec

\* TypeOK: the page, its calls and the rows keep their types, no row is shown
\* that the server never had, and what is busy is shown.
THEOREM TypeCorrect == Spec => []TypeOK
<1>1. IInv => TypeOK
  BY DEF IInv, Typed, ShownWasStored, TypeOK
<1> QED
  BY <1>1, Inductive, PTL

\* However revokes, refetches and visits overtake one another, the page shows an
\* active key as revoked, or a row as busy, only while a call of the page is
\* under way for it or an error is shown.
THEOREM ShownIsTrue == Spec => []RevokedIsTrue
<1>1. IInv => RevokedIsTrue
  BY DEF IInv
<1> QED
  BY <1>1, Inductive, PTL

-----------------------------------------------------------------------------
(* The repair                                                              *)

\* No other tab, and one revoke at a time.
Alone == Elsewhere = {} /\ \E only \in Calls : Calls = {only}

\* The row of k is shown as it is, or active although a revoke given up was done.
Near(k, shown) == shown = rows[k] \/ (k \in late /\ shown = "active" /\ rows[k] = "revoked")

\* Then a refetch is behind the table at most by revokes given up, and after it the
\* page differs from the table at most in these and in the row whose revoke is under
\* way.
RepairInv ==
    Alone => \A c \in Calls :
        /\ In(c, "listed") => Lags(calls[c].list)
        /\ refetched = "repaired" =>
            /\ page = "shown" /\ (calls[c] # None => calls[c].mounted)
            /\ \A k \in Keys :
                IF calls[c] # None /\ calls[c].key = k THEN keys[k] = "revoked" ELSE Near(k, keys[k])

LEMMA LagsIsNear == ASSUME NEW l PROVE Lags(l) <=> \A k \in Keys : Near(k, l[k])
  BY DEF Lags, Near

\* A key given up stays so.
LEMMA LateStays == ASSUME [Next]_vars PROVE late \subseteq late'
  BY DEF Next, Settle, vars, LoadAnswered, Load, LoadFails, Revoke, Delete, DeleteFails,
     Revoked, Catch, ListKeys, Refreshed, RefreshFails, RefreshUnauthorized, Revisit,
     SignOut, SignIn, SessionEnds, OtherTab, LateDelete

\* What is near stays near while its row stays, and under a late delete.
LEMMA NearStays ==
    ASSUME [Next]_vars, NEW k \in Keys, NEW shown, Near(k, shown),
           rows'[k] = rows[k] \/ (k \in late /\ rows[k] = "active" /\ rows'[k] = "revoked")
    PROVE  shown = rows'[k] \/ (k \in late' /\ shown = "active" /\ rows'[k] = "revoked")
  BY LateStays DEF Near

LEMMA RepairSteps == ASSUME IInv, RepairInv, [Next]_vars PROVE RepairInv'
<1> DEFINE NearNext(k, shown) ==
               shown = rows'[k] \/ (k \in late' /\ shown = "active" /\ rows'[k] = "revoked")
           Kept(c) == \A k \in Keys :
               IF calls'[c] # None /\ calls'[c].key = k THEN keys'[k] = "revoked"
               ELSE NearNext(k, keys'[k])
           Held(c) == /\ In(c, "listed")' => \A k \in Keys : NearNext(k, calls'[c].list[k])
                      /\ (refetched = "repaired")' =>
                          /\ page' = "shown" /\ (calls'[c] # None => calls'[c].mounted)
                          /\ Kept(c)
<1> SUFFICES ASSUME Alone, NEW c \in Calls
             PROVE  Held(c)
  BY DEF RepairInv, Alone, Near, Lags
<1> DEFINE Goal == Held(c)
<1>0. /\ Elsewhere = {} /\ \A d \in Calls : d = c
      /\ Typed /\ Blank /\ CallsHold
      /\ In(c, "listed") => \A k \in Keys : Near(k, calls[c].list[k])
      /\ refetched = "repaired" =>
            /\ page = "shown" /\ (calls[c] # None => calls[c].mounted)
            /\ \A k \in Keys :
                IF calls[c] # None /\ calls[c].key = k THEN keys[k] = "revoked" ELSE Near(k, keys[k])
  BY LagsIsNear DEF Alone, RepairInv, IInv
\* Rows that stay, or are late, keep what is near near.
<1>a. ASSUME NEW k \in Keys, NEW shown, Near(k, shown),
             rows'[k] = rows[k] \/ (k \in late /\ rows[k] = "active" /\ rows'[k] = "revoked")
      PROVE  NearNext(k, shown)
  BY <1>a, NearStays
<1>1. ASSUME calls' = calls, UNCHANGED <<page, keys, refetched>>,
             \A k \in Keys : \/ rows'[k] = rows[k]
                             \/ k \in late /\ rows[k] = "active" /\ rows'[k] = "revoked"
      PROVE  Goal
  <2>1. In(c, "listed")' => \A k \in Keys : NearNext(k, calls'[c].list[k])
    BY <1>0, <1>1, <1>a DEF In
  <2>2. refetched = "repaired" => Kept(c)
    BY <1>0, <1>1, <1>a
  <2> QED
    BY <1>0, <1>1, <2>1, <2>2
<1>2. CASE LoadAnswered \/ SessionEnds \/ UNCHANGED vars
  BY <1>1, <1>2 DEF LoadAnswered, SessionEnds, vars, view
<1>14. ASSUME NEW j \in Keys, LateDelete(j) PROVE Goal
  <2>1. /\ calls' = calls /\ UNCHANGED <<page, keys, refetched>>
        /\ j \in late /\ rows[j] = "active" /\ rows' = [rows EXCEPT ![j] = "revoked"]
    BY <1>14 DEF LateDelete, view
  <2>2. \A k \in Keys : \/ rows'[k] = rows[k]
                        \/ k \in late /\ rows[k] = "active" /\ rows'[k] = "revoked"
    BY <1>0, <2>1 DEF Typed, List
  <2> QED
    BY <1>1, <2>1, <2>2
<1>3. CASE Load \/ LoadFails
  <2>1. calls' = calls /\ rows' = rows /\ refetched' = refetched /\ refetched # "repaired"
    BY <1>0, <1>3 DEF Load, LoadFails
  <2>2. In(c, "listed")' => \A k \in Keys : NearNext(k, calls'[c].list[k])
    BY <1>0, <2>1, <1>a DEF In
  <2> QED
    BY <2>1, <2>2
<1>4. ASSUME NEW k \in Keys, Revoke(k, c) PROVE Goal
  <2>1. /\ calls[c] = None /\ rows' = rows /\ page' = "shown" /\ refetched' = refetched
        /\ calls'[c] = [key |-> k, state |-> "sent", mounted |-> TRUE, list |-> None]
        /\ keys'[k] = "revoked" /\ \A j \in Keys \ {k} : keys'[j] = keys[j]
    BY <1>0, <1>4 DEF Revoke, Typed, List
  <2>2. calls'[c] # None /\ calls'[c].mounted /\ calls'[c].key = k /\ ~In(c, "listed")'
    <3>1. calls'[c] \in Call
      BY <2>1 DEF Call, CallState
    <3>2. calls'[c].mounted /\ calls'[c].key = k /\ calls'[c].state = "sent"
      BY <2>1
    <3> QED
      BY <3>1, <3>2, NoneIsOther DEF In
  <2>3. refetched = "repaired" => \A j \in Keys \ {k} : NearNext(j, keys'[j])
    BY <1>0, <2>1, <1>a
  <2> QED
    BY <2>1, <2>2, <2>3
\* The page stays as it is while the call goes on.
<1>5. ASSUME calls[c] # None, UNCHANGED <<page, keys, refetched>>,
             calls'[c] \in Call, calls'[c].key = calls[c].key,
             calls'[c].mounted = calls[c].mounted,
             calls'[c].state = "listed" => calls'[c].list = rows',
             \A k \in Keys \ {calls[c].key} : rows'[k] = rows[k]
      PROVE  Goal
  <2>1. In(c, "listed")' => \A k \in Keys : NearNext(k, calls'[c].list[k])
    BY <1>5 DEF In
  <2>2. refetched = "repaired" => \A k \in Keys \ {calls[c].key} : NearNext(k, keys'[k])
    BY <1>0, <1>5, <1>a
  <2> QED
    BY <1>0, <1>5, <2>1, <2>2, NoneIsOther
<1>6. CASE Delete(c)
  <2>1. /\ calls[c] # None /\ calls[c] \in Call /\ UNCHANGED <<page, keys, refetched>>
        /\ \E s \in {"failed", "deleted"} : Becomes(c, s)
        /\ \/ rows' = rows
           \/ /\ rows[calls[c].key] = "active"
              /\ rows' = [rows EXCEPT ![calls[c].key] = "revoked"]
    BY <1>0, <1>6 DEF Delete, In, Typed, view
  <2>2. /\ calls'[c] \in Call /\ calls'[c].state # "listed" /\ calls'[c].key = calls[c].key
        /\ calls'[c].mounted = calls[c].mounted
    BY <1>0, <2>1, BecomesCall DEF CallState
  <2>3. \A k \in Keys \ {calls[c].key} : rows'[k] = rows[k]
    BY <1>0, <2>1 DEF Typed, List
  <2> QED
    BY <1>5, <2>1, <2>2, <2>3
<1>7. CASE DeleteFails(c) \/ Catch(c)
  <2>1. /\ calls[c] # None /\ UNCHANGED <<page, keys, refetched, rows>>
        /\ \E s \in {"failed", "refetch"} : Becomes(c, s)
    BY <1>7 DEF DeleteFails, Catch, In, view
  <2>2. /\ calls'[c] \in Call /\ calls'[c].state # "listed" /\ calls'[c].key = calls[c].key
        /\ calls'[c].mounted = calls[c].mounted
    BY <1>0, <2>1, BecomesCall DEF CallState
  <2> QED
    BY <1>5, <2>1, <2>2
<1>8. CASE ListKeys(c)
  <2>1. /\ calls[c] # None /\ UNCHANGED <<page, keys, refetched, rows>>
        /\ \/ Becomes(c, "unauthorized")
           \/ calls' = [calls EXCEPT ![c].state = "listed", ![c].list = rows]
    BY <1>8 DEF ListKeys, In, view
  <2>2. /\ calls'[c] \in Call /\ calls'[c].key = calls[c].key
        /\ calls'[c].mounted = calls[c].mounted
        /\ calls'[c].state = "listed" => calls'[c].list = rows
    BY <1>0, <2>1, BecomesCall, ListedCall DEF CallState
  <2> QED
    BY <1>5, <2>1, <2>2
<1>9. CASE Revoked(c)
  <2>1. /\ calls[c] # None /\ calls[c].state = "deleted" /\ calls'[c] = None
        /\ UNCHANGED <<page, keys, refetched, rows>>
    BY <1>0, <1>9 DEF Revoked, In, Return, Typed
  <2>2. rows[calls[c].key] = "revoked"
    BY <1>0, <2>1 DEF CallsHold
  <2>3. refetched = "repaired" => \A k \in Keys : Near(k, keys[k])
    BY <1>0, <2>1, <2>2 DEF Near
  <2>4. refetched = "repaired" => \A k \in Keys : NearNext(k, keys'[k])
    BY <2>1, <2>3, <1>a
  <2> QED
    BY <1>0, <2>1, <2>4 DEF In
<1>10. CASE Refreshed(c)
  <2>1. /\ calls[c] # None /\ calls'[c] = None /\ rows' = rows /\ page' = page
        /\ \A k \in Keys : Near(k, calls[c].list[k])
    BY <1>0, <1>10 DEF Refreshed, In, Return, Typed
  <2>2. CASE calls[c].mounted
    <3>1. page = "shown" /\ keys' = calls[c].list
      BY <1>0, <1>10, <2>1, <2>2 DEF Blank, Refreshed
    <3>2. \A k \in Keys : NearNext(k, keys'[k])
      BY <2>1, <3>1, <1>a
    <3> QED
      BY <2>1, <3>1, <3>2 DEF In
  <2>3. CASE ~calls[c].mounted
    <3>1. refetched' # "repaired"
      BY <1>0, <1>10, <2>1, <2>3 DEF Refreshed
    <3> QED
      BY <2>1, <3>1 DEF In
  <2> QED
    BY <2>2, <2>3
<1>11. CASE RefreshFails(c)
  <2>1. calls[c] # None /\ calls'[c] = None
    BY <1>0, <1>11 DEF RefreshFails, In, Return, Typed
  <2>2. refetched' # "repaired"
    BY <1>0, <1>11, <2>1 DEF RefreshFails
  <2> QED
    BY <2>1, <2>2 DEF In
<1>12. CASE RefreshUnauthorized(c) \/ Revisit \/ SignOut \/ SignIn
  <2>1. rows' = rows /\ refetched' # "repaired" /\ (calls'[c] = Orphans(c) \/ calls'[c] = None)
    BY <1>0, <1>12 DEF RefreshUnauthorized, Revisit, SignOut, SignIn, Unmount
  <2>2. calls'[c] # None =>
          calls[c] # None /\ calls'[c].state = calls[c].state /\ calls'[c].list = calls[c].list
    BY <1>0, <2>1, OrphanCall
  <2>3. In(c, "listed")' => \A k \in Keys : NearNext(k, calls'[c].list[k])
    BY <1>0, <2>1, <2>2, <1>a DEF In
  <2> QED
    BY <2>1, <2>3
<1>13. Goal
  BY <1>0, <1>2, <1>3, <1>4, <1>6, <1>7, <1>8, <1>9, <1>10, <1>11, <1>12, <1>14 DEF Next, Settle
<1> QED
  BY <1>13

\* "On failure we refetch to repair the view" (Dashboard.tsx:14) is true of one revoke
\* at a time and no other tab, but for what the server does of a revoke that the page
\* has given up: when the revoke has come back and its refetch succeeded, the page is
\* behind the table at most by such revokes.  With two revokes it is not true.
THEOREM OneRevokeIsRepaired == Spec => [](Alone => ViewRepaired)
<1>1. Init => RepairInv
  BY DEF Init, RepairInv, In
<1>2. IInv /\ IInv' /\ RepairInv /\ [Next]_vars => RepairInv'
  BY RepairSteps
<1>3. IInv /\ RepairInv => (Alone => ViewRepaired)
  <2> SUFFICES ASSUME RepairInv, Alone, refetched = "repaired",
                      \A c \in Calls : calls[c] = None
               PROVE  Lags(keys)
    BY DEF ViewRepaired
  <2>1. \A k \in Keys : Near(k, keys[k])
    BY DEF RepairInv, Alone
  <2> QED
    BY <2>1, LagsIsNear
<1> QED
  BY <1>1, <1>2, <1>3, Inductive, PTL DEF Spec
=============================================================================
