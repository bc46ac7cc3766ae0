-------------------------- MODULE KeyService_proofs --------------------------
(***************************************************************************)
(* What KeyService guarantees for any number of users, keys, sessions,     *)
(* requests and configurations.                                            *)
(***************************************************************************)
EXTENDS KeyService, TLAPS

-----------------------------------------------------------------------------
(* Types                                                                   *)

LEMMA NoneIsNoRow == None \notin KeyRow /\ None \notin SessionRow
                     /\ None \notin Call /\ None \notin Answer /\ None \notin KeyIds
  BY NoneAssumption

\* The row a mint inserts is a row of the table.
LEMMA NewRowType ==
    ASSUME TypeOK, NEW r \in Requests, NEW p \in Plaintexts,
           pc[r] = "handler", call[r].op = "mint", ~MintRefused(r)
    PROVE  NewRow(r, p) \in KeyRow
<1>1. who[r] \in Users
  BY DEF TypeOK
<1>2. call[r] \in MintCall
  BY DEF TypeOK, Call, MintCall, RevokeCall, LogoutCall, ProxyCall
<1>3. call[r].service \in Services /\ call[r].label \in Labels
  BY <1>2 DEF MintCall, MintRefused
<1>4. config.pepper \in Peppers
  BY DEF TypeOK, Peppers
<1>5. Hash(config.pepper, p) \in Peppers \X Plaintexts
  BY <1>4 DEF Hash
<1> QED
  BY <1>1, <1>3, <1>5 DEF NewRow, KeyRow

RowsType     == rows \in [KeyIds -> KeyRow \cup {None}]
SessionsType == sessions \in [Sids -> SessionRow \cup {None}]

LEMMA ReplyType ==
    ASSUME TypeOK, NEW r \in Requests, pc[r] # "idle",
           NEW status \in {200, 201, 204, 400, 401, 403, 404, 409, 500},
           NEW k \in KeyIds \cup {None}, NEW p \in Plaintexts \cup {None},
           Reply(r, status, k, p), RowsType', SessionsType'
    PROVE  TypeOK'
<1>1. [status |-> status, key |-> k, plaintext |-> p] \in Answer
  BY DEF Answer
<1> QED
  BY <1>1 DEF TypeOK, Reply, RowsType, SessionsType

LEMMA RefuseType ==
    ASSUME TypeOK, NEW r \in Requests, pc[r] # "idle",
           NEW status \in {200, 201, 204, 400, 401, 403, 404, 409, 500},
           Refuse(r, status)
    PROVE  TypeOK'
<1>1. RowsType' /\ SessionsType'
  BY DEF TypeOK, Refuse, dbvars, RowsType, SessionsType
<1> QED
  BY <1>1, ReplyType DEF Refuse

LEMMA EnterType ==
    ASSUME TypeOK, NEW r \in Requests, pc[r] # "idle", NEW id,
           IF call[r].op = "proxy" THEN id \in KeyIds ELSE id \in Users,
           Enter(r, id)
    PROVE  TypeOK'
<1>1. id \in Users \cup KeyIds \cup {None}
  OBVIOUS
<1> QED
  BY <1>1 DEF TypeOK, Enter, dbvars

LEMMA LeaveType ==
    ASSUME TypeOK, NEW r \in Requests, Leave(r), wallet' \subseteq Plaintexts
    PROVE  TypeOK'
  BY DEF TypeOK, Leave, dbvars

LEMMA CallKinds ==
    ASSUME NEW c \in Call
    PROVE  /\ c.op = "mint" => c \in MintCall
           /\ c.op = "revoke" => c \in RevokeCall
           /\ c.op = "logout" => c \in LogoutCall
           /\ c.op = "proxy" => c \in ProxyCall
           /\ c.op # "proxy" => c.cookie \in Cookie
  BY DEF Call, MintCall, RevokeCall, LogoutCall, ProxyCall

\* TypeOK: what the tables, the requests and the clients may ever hold.
THEOREM TypeCorrect == Spec => []TypeOK
<1>1. Init => TypeOK
  BY DEF Init, TypeOK
<1>2. TypeOK /\ [Next]_vars => TypeOK'
  <2> SUFFICES ASSUME TypeOK, [Next]_vars PROVE TypeOK'
    OBVIOUS
  <2>1. ASSUME NEW r \in Requests, NEW c \in Sendable, Arrive(r, c) PROVE TypeOK'
    <3>1. c \in Call
      BY DEF Sendable, Call
    <3>2. CredentialDead(c) \in BOOLEAN
      BY DEF CredentialDead, SessionLive
    <3> QED
      BY <2>1, <3>1, <3>2 DEF TypeOK, Arrive, dbvars
  <2>2. ASSUME NEW r \in Requests, ExtractUser(r) PROVE TypeOK'
    <3>1. CASE SessionLive(call[r].cookie)
      <4>1. call[r].cookie.sid \in Sids
        BY <2>2, CallKinds DEF TypeOK, ExtractUser, Cookie
      <4>2. sessions[call[r].cookie.sid].user \in Users
        BY <3>1, <4>1 DEF SessionLive, TypeOK, SessionRow
      <4> QED
        BY <2>2, <3>1, <4>2, EnterType DEF ExtractUser
    <3>2. CASE ~SessionLive(call[r].cookie)
      BY <2>2, <3>2, RefuseType DEF ExtractUser
    <3> QED
      BY <3>1, <3>2
  <2>3. ASSUME NEW r \in Requests, RejectMint(r) PROVE TypeOK'
    BY <2>3, RefuseType DEF RejectMint
  <2>4. ASSUME NEW r \in Requests, NEW k \in KeyIds, NEW p \in Plaintexts, Mint(r, k, p)
        PROVE  TypeOK'
    <3>1. NewRow(r, p) \in KeyRow
      BY <2>4, NewRowType DEF Mint
    <3>2. RowsType' /\ SessionsType'
      BY <2>4, <3>1 DEF Mint, TypeOK, RowsType, SessionsType
    <3> QED
      BY <2>4, <3>2, ReplyType DEF Mint
  <2>5. ASSUME NEW r \in Requests, MintConflict(r) \/ RejectRevoke(r) PROVE TypeOK'
    BY <2>5, RefuseType DEF MintConflict, RejectRevoke
  <2>6. ASSUME NEW r \in Requests, Revoke(r) PROVE TypeOK'
    <3> DEFINE k == call[r].key
    <3>1. k \in KeyIds
      BY <2>6, CallKinds DEF TypeOK, Revoke, RevokeCall
    <3>2. CASE Revocable(r, k)
      <4>0. rows[k] \in KeyRow
        BY <3>1, <3>2 DEF Revocable, Active, Stored, TypeOK
      <4>1. [rows[k] EXCEPT !.revoked = TRUE] \in KeyRow
        BY <4>0 DEF KeyRow
      <4>2. RowsType' /\ SessionsType'
        BY <2>6, <3>1, <3>2, <4>1 DEF Revoke, Refuse, dbvars, TypeOK, RowsType, SessionsType
      <4> QED
        BY <2>6, <3>1, <3>2, <4>2, ReplyType DEF Revoke
    <3>3. CASE ~Revocable(r, k)
      BY <2>6, <3>3, RefuseType DEF Revoke
    <3> QED
      BY <3>2, <3>3
  <2>7. ASSUME NEW r \in Requests, Logout(r) PROVE TypeOK'
    <3>1. RowsType' /\ SessionsType'
      BY <2>7 DEF Logout, TypeOK, RowsType, SessionsType
    <3> QED
      BY <2>7, <3>1, ReplyType DEF Logout
  <2>8. ASSUME NEW r \in Requests, Verify(r) PROVE TypeOK'
    <3>1. ASSUME NEW k \in Matches(call[r].bearer), Enter(r, k) PROVE TypeOK'
      BY <2>8, <3>1, EnterType DEF Verify, Matches
    <3> QED
      BY <2>8, <3>1, RefuseType DEF Verify
  <2>9. ASSUME NEW r \in Requests, Forwarded(r) PROVE TypeOK'
    BY <2>9, RefuseType DEF Forwarded
  <2>10. ASSUME NEW r \in Requests, DbFails(r) PROVE TypeOK'
    BY <2>10, RefuseType DEF DbFails
  <2>11. ASSUME NEW r \in Requests, Deliver(r) PROVE TypeOK'
    <3>1. answer[r] \in Answer
      BY <2>11 DEF Deliver, TypeOK
    <3>2. wallet' \subseteq Plaintexts
      BY <2>11, <3>1 DEF Deliver, TypeOK, Answer
    <3> QED
      BY <2>11, <3>2, LeaveType DEF Deliver
  <2>12. ASSUME NEW r \in Requests, Drop(r) PROVE TypeOK'
    BY <2>12, LeaveType DEF Drop, TypeOK
  <2>13. ASSUME NEW u \in Users, NEW s \in Sids, CreateSession(u, s) PROVE TypeOK'
    <3>1. [user |-> u, expired |-> FALSE] \in SessionRow
      BY DEF SessionRow
    <3>2. [sid |-> s, signedBy |-> config.cookieKey] \in Cookie
      BY DEF TypeOK, Cookie, CookieKeys
    <3> QED
      BY <2>13, <3>1, <3>2 DEF TypeOK, CreateSession, reqvars
  <2>14. ASSUME NEW s \in Sids, ExpireSession(s) PROVE TypeOK'
    <3>1. [sessions[s] EXCEPT !.expired = TRUE] \in SessionRow
      BY <2>14 DEF ExpireSession, TypeOK, SessionRow
    <3> QED
      BY <2>14, <3>1 DEF TypeOK, ExpireSession, reqvars
  <2>15. ASSUME NEW cf \in Configs, Restart(cf) PROVE TypeOK'
    BY <2>15 DEF TypeOK, Restart, dbvars
  <2>16. CASE UNCHANGED vars
    BY <2>16 DEF TypeOK, vars
  <2> QED
    BY <2>1, <2>2, <2>3, <2>4, <2>5, <2>6, <2>7, <2>8, <2>9, <2>10, <2>11,
       <2>12, <2>13, <2>14, <2>15, <2>16 DEF Next, Handle
<1> QED
  BY <1>1, <1>2, PTL DEF Spec

-----------------------------------------------------------------------------
(* The table of keys                                                       *)

\* The only statements that write api_keys rows: the INSERT of a mint and the
\* UPDATE of a revoke.
RevokeRow(k) ==
    /\ Active(k)
    /\ rows' = [rows EXCEPT ![k] = [rows[k] EXCEPT !.revoked = TRUE]]

LEMMA RowSteps ==
    ASSUME TypeOK, [Next]_vars
    PROVE  \/ rows' = rows
           \/ \E r \in Requests, k \in KeyIds, p \in Plaintexts : Mint(r, k, p)
           \/ \E k \in KeyIds : RevokeRow(k)
<1>1. ASSUME NEW r \in Requests, Revoke(r)
      PROVE  rows' = rows \/ \E k \in KeyIds : RevokeRow(k)
  <2>1. call[r].key \in KeyIds
    BY <1>1, CallKinds DEF TypeOK, Revoke, RevokeCall
  <2> QED
    BY <1>1, <2>1 DEF Revoke, Revocable, RevokeRow, Refuse, dbvars
<1>2. ASSUME NEW r \in Requests, Handle(r)
      PROVE  \/ rows' = rows
             \/ \E k \in KeyIds, p \in Plaintexts : Mint(r, k, p)
             \/ \E k \in KeyIds : RevokeRow(k)
  BY <1>1, <1>2 DEF Handle, ExtractUser, Enter, RejectMint, MintConflict, RejectRevoke, Logout,
     Verify, Forwarded, DbFails, Refuse, dbvars
<1> QED
  BY <1>2 DEF Next, Arrive, Deliver, Drop, Leave, CreateSession, ExpireSession,
     Restart, vars, dbvars

\* What a mint does to the rows.
LEMMA MintRows ==
    ASSUME TypeOK, NEW r \in Requests, NEW k \in KeyIds, NEW p \in Plaintexts,
           Mint(r, k, p)
    PROVE  /\ rows' = [rows EXCEPT ![k] = NewRow(r, p)]
           /\ NewRow(r, p) \in KeyRow
           /\ ~Stored(k) /\ ~SlotTaken(r) /\ Unseen(p)
           /\ rows'[k] = NewRow(r, p)
           /\ rows'[k].hash[2] = p
           /\ \A j \in KeyIds \ {k} : rows'[j] = rows[j]
<1>1. NewRow(r, p) \in KeyRow
  BY NewRowType DEF Mint
<1> QED
  BY <1>1 DEF Mint, TypeOK, NewRow, Hash

\* What a revocation does to the rows.
LEMMA RevokedRow ==
    ASSUME TypeOK, NEW k \in KeyIds, RevokeRow(k)
    PROVE  /\ rows[k] \in KeyRow /\ rows'[k] \in KeyRow
           /\ rows'[k] = [rows[k] EXCEPT !.revoked = TRUE]
           /\ rows'[k].revoked
           /\ rows'[k].hash = rows[k].hash
           /\ \A j \in KeyIds \ {k} : rows'[j] = rows[j]
<1>1. rows[k] \in KeyRow
  BY DEF RevokeRow, Active, Stored, TypeOK
<1>2. rows'[k] = [rows[k] EXCEPT !.revoked = TRUE]
  BY DEF RevokeRow, TypeOK
<1>3. \A j \in KeyIds \ {k} : rows'[j] = rows[j]
  BY DEF RevokeRow, TypeOK
<1> QED
  BY <1>1, <1>2, <1>3 DEF KeyRow

\* Rows are never lost or rewritten, and a revoked key is never active again,
\* whatever the requests, crashes and changes of configuration.
THEOREM RowsPersist == Spec => RowsAreForever
<1> DEFINE Kept(k) == Stored(k) => /\ Stored(k)'
                                   /\ rows'[k] \in {rows[k], [rows[k] EXCEPT !.revoked = TRUE]}
<1>1. TypeOK /\ [Next]_vars => [\A k \in KeyIds : Kept(k)]_vars
  <2> SUFFICES ASSUME TypeOK, [Next]_vars, NEW k \in KeyIds PROVE Kept(k)
    OBVIOUS
  <2>1. CASE rows' = rows
    BY <2>1 DEF Stored
  <2>2. ASSUME NEW r \in Requests, NEW j \in KeyIds, NEW p \in Plaintexts, Mint(r, j, p)
        PROVE  Kept(k)
    BY <2>2, MintRows DEF Stored
  <2>3. ASSUME NEW j \in KeyIds, RevokeRow(j) PROVE Kept(k)
    BY <2>3, RevokedRow, NoneIsNoRow DEF Stored
  <2> QED
    BY <2>1, <2>2, <2>3, RowSteps
<1> QED
  BY <1>1, TypeCorrect, PTL DEF Spec, RowsAreForever

\* No two active keys share a slot, however many mints race for it.
THEOREM OneActiveKey == Spec => []OneActivePerSlot
<1>1. Init => OneActivePerSlot
  BY DEF Init, OneActivePerSlot, Active, Stored
<1>2. TypeOK /\ OneActivePerSlot /\ [Next]_vars => OneActivePerSlot'
  <2> SUFFICES ASSUME TypeOK, OneActivePerSlot, [Next]_vars,
                      NEW j \in KeyIds, NEW k \in KeyIds,
                      Active(j)', Active(k)', Slot(j)' = Slot(k)'
               PROVE  j = k
    BY DEF OneActivePerSlot
  <2>1. CASE rows' = rows
    BY <2>1 DEF OneActivePerSlot, Active, Stored, Slot
  <2>2. ASSUME NEW r \in Requests, NEW m \in KeyIds, NEW p \in Plaintexts, Mint(r, m, p)
        PROVE  j = k
    <3>1. ASSUME NEW i \in KeyIds \ {m}, Active(i)', Slot(i)' = Slot(m)' PROVE FALSE
      <4>1. rows'[i] = rows[i] /\ rows'[m] = NewRow(r, p) /\ ~SlotTaken(r)
        BY <2>2, <3>1, MintRows
      <4>2. Slot(m)' = <<who[r], call[r].service, call[r].label>>
        BY <4>1 DEF Slot, NewRow
      <4>3. Active(i) /\ Slot(i) = Slot(m)'
        BY <3>1, <4>1 DEF Active, Stored, Slot
      <4> QED
        BY <4>1, <4>2, <4>3 DEF SlotTaken
    <3>2. CASE j # m /\ k # m
      <4>1. rows'[j] = rows[j] /\ rows'[k] = rows[k]
        BY <2>2, <3>2, MintRows
      <4> QED
        BY <4>1 DEF OneActivePerSlot, Active, Stored, Slot
    <3> QED
      BY <3>1, <3>2
  <2>3. ASSUME NEW m \in KeyIds, RevokeRow(m) PROVE j = k
    <3>1. j # m /\ k # m
      BY <2>3, RevokedRow DEF Active
    <3>2. rows'[j] = rows[j] /\ rows'[k] = rows[k]
      BY <2>3, <3>1, RevokedRow
    <3> QED
      BY <3>2 DEF OneActivePerSlot, Active, Stored, Slot
  <2> QED
    BY <2>1, <2>2, <2>3, RowSteps
<1> QED
  BY <1>1, <1>2, TypeCorrect, PTL DEF Spec

-----------------------------------------------------------------------------
(* Dead credentials                                                        *)

\* A secret that was minted: some row, active or not, carries it.
Minted(p) == \E k \in KeyIds : Stored(k) /\ rows[k].hash[2] = p

\* The strengthening that makes NothingActsAfterDeath inductive: clients hold
\* only what the server gave them, so that no later login or mint can bring a
\* dead credential back to life; and a request that arrived dead stays dead.
CredentialsIssued ==
    /\ \A p \in wallet : Minted(p)
    /\ \A r \in Requests : pc[r] = "answered" /\ answer[r].plaintext # None
                               => Minted(answer[r].plaintext)
    /\ \A r \in Requests : pc[r] # "idle" =>
          IF call[r].op = "proxy" THEN Minted(call[r].bearer)
                                  ELSE call[r].cookie \in jar

DeadStayDead ==
    \A r \in Requests : pc[r] # "idle" /\ late[r] /\ call[r].op # "logout"
                            => CredentialDead(call[r])

\* What a step may do to one request that is in the server after it.
Arrives(q) ==
    /\ pc'[q] = "auth" /\ rows' = rows /\ sessions' = sessions
    /\ \E c \in Sendable : call'[q] = c /\ late'[q] = CredentialDead(c)
Advances(q) ==
    /\ pc[q] # "idle" /\ call'[q] = call[q] /\ late'[q] = late[q]
    /\ \/ pc'[q] = pc[q] /\ answer'[q] = answer[q]
       \/ pc'[q] = "handler" /\ ~CredentialDead(call[q])
       \/ /\ pc'[q] = "answered"
          /\ \/ answer'[q].status \in {401, 404, 500}
             \/ call[q].op = "logout"
             \/ pc[q] = "handler"
             \/ ~CredentialDead(call[q])

LEMMA RequestSteps ==
    ASSUME TypeOK, [Next]_vars, NEW q \in Requests, pc'[q] # "idle"
    PROVE  config' = config /\ (Arrives(q) \/ Advances(q))
<1>1. ASSUME NEW r \in Requests, NEW c \in Sendable, Arrive(r, c)
      PROVE  config' = config /\ (Arrives(q) \/ Advances(q))
  BY <1>1 DEF Arrive, dbvars, TypeOK, Arrives, Advances
<1>2. ASSUME NEW r \in Requests, NEW status, NEW k, NEW p, pc[r] # "idle", Reply(r, status, k, p),
             \/ status \in {401, 404, 500} \/ call[r].op = "logout"
             \/ pc[r] = "handler" \/ ~CredentialDead(call[r])
      PROVE  config' = config /\ (Arrives(q) \/ Advances(q))
  BY <1>2 DEF Reply, TypeOK, Advances
<1>3. ASSUME NEW r \in Requests, NEW i, pc[r] # "idle", Enter(r, i), ~CredentialDead(call[r])
      PROVE  config' = config /\ (Arrives(q) \/ Advances(q))
  BY <1>3 DEF Enter, TypeOK, Advances
<1>4. ASSUME NEW r \in Requests, Handle(r)
      PROVE  config' = config /\ (Arrives(q) \/ Advances(q))
  <2>1. CASE ExtractUser(r)
    BY <2>1, <1>2, <1>3 DEF ExtractUser, Refuse, CredentialDead
  <2>2. CASE Verify(r)
    <3>1. CASE Matches(call[r].bearer) = {}
      BY <2>2, <3>1, <1>2 DEF Verify, Refuse
    <3>2. CASE Matches(call[r].bearer) # {}
      <4>1. ~CredentialDead(call[r])
        BY <2>2, <3>2 DEF Verify, CredentialDead
      <4> QED
        BY <2>2, <4>1, <1>2, <1>3 DEF Verify, Refuse
    <3> QED
      BY <3>1, <3>2
  <2>3. CASE Logout(r)
    BY <2>3, <1>2 DEF Logout
  <2>4. CASE DbFails(r)
    BY <2>4, <1>2 DEF DbFails, Refuse
  <2>5. CASE \/ RejectMint(r) \/ MintConflict(r) \/ RejectRevoke(r) \/ Revoke(r) \/ Forwarded(r)
             \/ \E k \in KeyIds, p \in Plaintexts : Mint(r, k, p)
    BY <2>5, <1>2 DEF RejectMint, MintConflict, RejectRevoke, Revoke, Forwarded, Mint, Refuse
  <2> QED
    BY <1>4, <2>1, <2>2, <2>3, <2>4, <2>5 DEF Handle
<1>5. ASSUME NEW r \in Requests, Leave(r)
      PROVE  config' = config /\ (Arrives(q) \/ Advances(q))
  <2>1. q # r
    BY <1>5 DEF Leave, TypeOK
  <2>2. /\ pc'[q] = pc[q] /\ call'[q] = call[q]
        /\ late'[q] = late[q] /\ answer'[q] = answer[q] /\ config' = config
    BY <1>5, <2>1 DEF Leave, TypeOK
  <2> QED
    BY <2>2 DEF Advances
<1>6. ASSUME UNCHANGED reqvars, config' = config
      PROVE  config' = config /\ (Arrives(q) \/ Advances(q))
  BY <1>6 DEF reqvars, Advances
<1>7. \A cf \in Configs : ~Restart(cf)
  BY DEF Restart
<1>8. ASSUME NEW r \in Requests, Deliver(r) \/ Drop(r) PROVE Leave(r)
  BY <1>8 DEF Deliver, Drop
<1>9. ASSUME \/ \E u \in Users, s \in Sids : CreateSession(u, s)
             \/ \E s \in Sids : ExpireSession(s)
             \/ UNCHANGED vars
      PROVE  UNCHANGED reqvars /\ config' = config
  BY <1>9 DEF CreateSession, ExpireSession, vars, reqvars
<1> QED
  BY <1>1, <1>4, <1>5, <1>6, <1>7, <1>8, <1>9 DEF Next

\* A session that is not live, and whose cookie was issued, stays that way for
\* as long as the process runs.
LEMMA DeadCookieStays ==
    ASSUME TypeOK, [Next]_vars, config' = config, NEW c \in Cookie,
           c \in jar, ~SessionLive(c)
    PROVE  ~SessionLive(c)'
<1>1. \/ sessions'[c.sid] = sessions[c.sid]
      \/ sessions'[c.sid] = None
      \/ sessions'[c.sid].expired
  <2>1. c.sid \in Sids
    BY DEF Cookie
  <2>2. ASSUME NEW u \in Users, NEW s \in Sids, CreateSession(u, s)
        PROVE  sessions'[c.sid] = sessions[c.sid]
    BY <2>1, <2>2 DEF CreateSession, TypeOK
  <2>3. ASSUME NEW s \in Sids, ExpireSession(s)
        PROVE  sessions'[c.sid] = sessions[c.sid] \/ sessions'[c.sid].expired
    <3>1. sessions[s] \in SessionRow
      BY <2>3 DEF ExpireSession, TypeOK
    <3>2. [sessions[s] EXCEPT !.expired = TRUE].expired
      BY <3>1 DEF SessionRow
    <3> QED
      BY <2>1, <2>3, <3>2 DEF ExpireSession, TypeOK
  <2>4. ASSUME NEW r \in Requests, Logout(r)
        PROVE  sessions'[c.sid] = sessions[c.sid] \/ sessions'[c.sid] = None
    BY <2>1, <2>4 DEF Logout, TypeOK
  <2>5. ASSUME NEW r \in Requests, Handle(r)
        PROVE  sessions' = sessions \/ Logout(r)
    BY <2>5 DEF Handle, ExtractUser, Enter, RejectMint, Mint, MintConflict, RejectRevoke, Revoke,
       Verify, Forwarded, DbFails, Refuse, dbvars
  <2> QED
    BY <2>2, <2>3, <2>4, <2>5 DEF Next, Arrive, Deliver, Drop, Leave, Restart, vars, dbvars
<1> QED
  BY <1>1 DEF SessionLive, CookieVerifies

\* A secret that was minted stays minted, and once no active key carries it, it
\* verifies no more.
LEMMA MintedStays ==
    ASSUME TypeOK, [Next]_vars, NEW p, Minted(p)
    PROVE  Minted(p)'
<1>1. PICK k \in KeyIds : Stored(k) /\ rows[k].hash[2] = p
  BY DEF Minted
<1>2. Stored(k)' /\ rows'[k].hash = rows[k].hash
  <2>1. CASE rows' = rows
    BY <1>1, <2>1 DEF Stored
  <2>2. ASSUME NEW r \in Requests, NEW j \in KeyIds, NEW s \in Plaintexts, Mint(r, j, s)
        PROVE  Stored(k)' /\ rows'[k].hash = rows[k].hash
    BY <1>1, <2>2, MintRows DEF Stored
  <2>3. ASSUME NEW j \in KeyIds, RevokeRow(j)
        PROVE  Stored(k)' /\ rows'[k].hash = rows[k].hash
    BY <1>1, <2>3, RevokedRow, NoneIsNoRow DEF Stored
  <2> QED
    BY <2>1, <2>2, <2>3, RowSteps
<1> QED
  BY <1>1, <1>2 DEF Minted

LEMMA DeadSecretStays ==
    ASSUME TypeOK, [Next]_vars, config' = config, NEW p, Minted(p), Matches(p) = {}
    PROVE  Matches(p)' = {}
<1> SUFFICES ASSUME NEW k \in KeyIds, Active(k)', rows'[k].hash = Hash(config.pepper, p)
             PROVE  FALSE
  BY DEF Matches
<1>1. ~(Active(k) /\ rows[k].hash = Hash(config.pepper, p))
  BY DEF Matches
<1>2. CASE rows' = rows
  BY <1>1, <1>2 DEF Active, Stored
<1>3. ASSUME NEW r \in Requests, NEW j \in KeyIds, NEW s \in Plaintexts, Mint(r, j, s)
      PROVE  FALSE
  <2>1. CASE k = j
    <3>1. s = p
      BY <1>3, <2>1, MintRows DEF Hash
    <3> QED
      BY <1>3, <3>1, MintRows DEF Minted, Unseen
  <2>2. CASE k # j
    <3>1. rows'[k] = rows[k]
      BY <1>3, <2>2, MintRows
    <3> QED
      BY <1>1, <3>1 DEF Active, Stored
  <2> QED
    BY <2>1, <2>2
<1>4. ASSUME NEW j \in KeyIds, RevokeRow(j) PROVE FALSE
  <2>1. k # j
    BY <1>4, RevokedRow DEF Active
  <2>2. rows'[k] = rows[k]
    BY <1>4, <2>1, RevokedRow
  <2> QED
    BY <1>1, <2>2 DEF Active, Stored
<1> QED
  BY <1>2, <1>3, <1>4, RowSteps

LEMMA CredentialsSteps ==
    ASSUME TypeOK, CredentialsIssued, [Next]_vars
    PROVE  CredentialsIssued'
<1>1. ASSUME NEW p \in wallet' PROVE Minted(p)'
  <2>1. Minted(p) \/ p \notin wallet
    BY DEF CredentialsIssued
  <2>2. CASE \E r \in Requests : Deliver(r)
    BY <1>1, <2>2, MintedStays DEF Deliver, CredentialsIssued
  <2>3. CASE ~\E r \in Requests : Deliver(r)
    <3>1. ASSUME NEW r \in Requests, Handle(r) PROVE wallet' = wallet
      BY <3>1 DEF Handle, ExtractUser, Enter, RejectMint, Mint, MintConflict, RejectRevoke, Revoke,
         Logout, Verify, Forwarded, DbFails, Refuse, Reply
    <3>2. wallet' = wallet
      BY <2>3, <3>1 DEF Next, Arrive, Drop, CreateSession, ExpireSession, Restart, vars
    <3> QED
      BY <1>1, <3>2, <2>1, MintedStays
  <2> QED
    BY <2>2, <2>3
<1>2. ASSUME NEW q \in Requests, pc'[q] = "answered", answer'[q].plaintext # None
      PROVE  Minted(answer[q].plaintext)'
  <2>1. CASE pc[q] = "answered" /\ answer'[q] = answer[q]
    <3>1. Minted(answer[q].plaintext)
      BY <1>2, <2>1 DEF CredentialsIssued
    <3> QED
      BY <2>1, <3>1, MintedStays DEF Minted
  <2>2. ASSUME NEW r \in Requests, NEW k \in KeyIds, NEW p \in Plaintexts,
               Mint(r, k, p), q = r
        PROVE  Minted(answer[q].plaintext)'
    <3>1. answer'[q].plaintext = p
      BY <2>2 DEF Mint, Reply, TypeOK
    <3>2. Stored(k)' /\ rows'[k].hash[2] = p
      BY <2>2, MintRows, NoneIsNoRow DEF Stored
    <3> QED
      BY <3>1, <3>2 DEF Minted
  <2>3. ASSUME NEW r \in Requests, NEW status, NEW k, Reply(r, status, k, None)
        PROVE  pc[q] = "answered" /\ answer'[q] = answer[q]
    BY <1>2, <2>3 DEF Reply, TypeOK
  <2>4. ASSUME NEW r \in Requests, NEW k \in KeyIds, NEW p \in Plaintexts,
               Mint(r, k, p), q # r
        PROVE  pc[q] = "answered" /\ answer'[q] = answer[q]
    BY <1>2, <2>4 DEF Mint, Reply, TypeOK
  <2>5. ASSUME NEW r \in Requests, NEW i, Enter(r, i)
        PROVE  pc[q] = "answered" /\ answer'[q] = answer[q]
    BY <1>2, <2>5 DEF Enter, TypeOK
  <2>6. ASSUME NEW r \in Requests, Handle(r)
        PROVE  \/ pc[q] = "answered" /\ answer'[q] = answer[q]
               \/ \E k \in KeyIds, p \in Plaintexts : Mint(r, k, p)
    BY <2>6, <2>3, <2>5 DEF Handle, ExtractUser, RejectMint, MintConflict, RejectRevoke, Revoke,
       Logout, Verify, Forwarded, DbFails, Refuse
  <2>7. ASSUME NEW r \in Requests, NEW c \in Sendable, Arrive(r, c)
        PROVE  pc[q] = "answered" /\ answer'[q] = answer[q]
    BY <1>2, <2>7 DEF Arrive, TypeOK
  <2>8. ASSUME NEW r \in Requests, Leave(r)
        PROVE  pc[q] = "answered" /\ answer'[q] = answer[q]
    BY <1>2, <2>8 DEF Leave, TypeOK
  <2>9. CASE UNCHANGED reqvars
    BY <1>2, <2>9, <2>1 DEF reqvars
  <2>10. \A cf \in Configs : ~Restart(cf)
    BY <1>2 DEF Restart
  <2> QED
    BY <2>1, <2>2, <2>4, <2>6, <2>7, <2>8, <2>9, <2>10
       DEF Next, Deliver, Drop, CreateSession, ExpireSession, vars, reqvars
<1>3. ASSUME NEW q \in Requests, pc'[q] # "idle"
      PROVE  (IF call[q].op = "proxy" THEN Minted(call[q].bearer)
                                      ELSE call[q].cookie \in jar)'
  <2>1. jar \subseteq jar'
    <3>1. ASSUME NEW r \in Requests, Handle(r) PROVE jar' = jar
      BY <3>1 DEF Handle, ExtractUser, Enter, RejectMint, Mint, MintConflict, RejectRevoke, Revoke,
         Logout, Verify, Forwarded, DbFails, Refuse, Reply
    <3> QED
      BY <3>1 DEF Next, Arrive, Deliver, Drop, Leave, CreateSession, ExpireSession,
         Restart, vars
  <2>2. CASE Arrives(q)
    <3>1. PICK c \in Sendable : call'[q] = c
      BY <2>2 DEF Arrives
    <3>2. IF c.op = "proxy" THEN c.bearer \in wallet ELSE c.cookie \in jar
      BY DEF Sendable, ProxyCall, MintCall, RevokeCall, LogoutCall
    <3>3. c.op = "proxy" => Minted(c.bearer)'
      BY <3>2, MintedStays DEF CredentialsIssued
    <3> QED
      BY <3>1, <3>2, <3>3, <2>1 DEF Minted
  <2>3. CASE Advances(q)
    <3>1. call'[q] = call[q] /\ IF call[q].op = "proxy" THEN Minted(call[q].bearer)
                                                        ELSE call[q].cookie \in jar
      BY <2>3 DEF Advances, CredentialsIssued
    <3> QED
      BY <3>1, <2>1, MintedStays DEF Minted
  <2> QED
    BY <1>3, <2>2, <2>3, RequestSteps
<1> QED
  BY <1>1, <1>2, <1>3 DEF CredentialsIssued

DeathInv == CredentialsIssued /\ DeadStayDead /\ NothingActsAfterDeath

\* A request that arrives with a dead session or a revoked key never gets past
\* authentication, whatever runs beside it and however the server restarts.
THEOREM DeadCredentialsDoNothing == Spec => []NothingActsAfterDeath
<1>1. Init => DeathInv
  BY DEF Init, DeathInv, CredentialsIssued, DeadStayDead, NothingActsAfterDeath
<1>2. TypeOK /\ DeathInv /\ [Next]_vars => DeathInv'
  <2> SUFFICES ASSUME TypeOK, DeathInv, [Next]_vars PROVE DeathInv'
    OBVIOUS
  <2>1. CredentialsIssued'
    BY CredentialsSteps DEF DeathInv
  <2>2. ASSUME NEW q \in Requests, pc'[q] # "idle", late'[q], call'[q].op # "logout"
        PROVE  CredentialDead(call[q])' /\ (Advances(q) => CredentialDead(call[q]))
    <3>1. config' = config /\ (Arrives(q) \/ Advances(q))
      BY <2>2, RequestSteps
    <3>2. CASE Arrives(q)
      <4>1. PICK c \in Sendable : call'[q] = c /\ CredentialDead(c)
        BY <2>2, <3>2 DEF Arrives
      <4>2. CredentialDead(call[q])'
        BY <3>1, <3>2, <4>1 DEF Arrives, CredentialDead, Matches, Active, Stored,
           SessionLive, CookieVerifies
      <4> QED
        BY <2>2, <3>2, <4>2 DEF Advances, Arrives, DeathInv, DeadStayDead
    <3>3. CASE Advances(q)
      <4>1. /\ CredentialDead(call[q]) /\ call[q] \in Call /\ call'[q] = call[q]
            /\ pc[q] # "idle"
        BY <2>2, <3>3 DEF Advances, DeathInv, DeadStayDead, TypeOK
      <4>2. CASE call[q].op = "proxy"
        <5>1. PICK p : p = call[q].bearer
          OBVIOUS
        <5>2. Minted(p) /\ Matches(p) = {}
          BY <4>1, <4>2, <5>1 DEF DeathInv, CredentialsIssued, CredentialDead
        <5>3. Matches(p)' = {}
          BY <3>1, <5>2, DeadSecretStays
        <5> QED
          BY <4>1, <4>2, <5>1, <5>3 DEF CredentialDead, Matches
      <4>3. CASE call[q].op # "proxy"
        <5>1. PICK c \in Cookie : c = call[q].cookie
          BY <4>1, <4>3, CallKinds
        <5>2. c \in jar /\ ~SessionLive(c)
          BY <4>1, <4>3, <5>1 DEF DeathInv, CredentialsIssued, CredentialDead
        <5>3. ~SessionLive(c)'
          BY <3>1, <5>2, DeadCookieStays
        <5> QED
          BY <4>1, <4>3, <5>1, <5>3 DEF CredentialDead, SessionLive, CookieVerifies
      <4> QED
        BY <4>2, <4>3
    <3> QED
      BY <3>1, <3>2, <3>3
  <2>3. DeadStayDead'
    BY <2>2 DEF DeadStayDead
  <2>4. ASSUME NEW q \in Requests, late'[q], call'[q].op # "logout", pc'[q] # "idle"
        PROVE  /\ pc'[q] # "handler"
               /\ pc'[q] = "answered" => answer'[q].status \in {401, 404, 500}
    <3>1. CASE Arrives(q)
      BY <3>1 DEF Arrives
    <3>2. CASE Advances(q)
      BY <2>2, <2>4, <3>2 DEF Advances, DeathInv, NothingActsAfterDeath
    <3> QED
      BY <2>4, <3>1, <3>2, RequestSteps
  <2>5. NothingActsAfterDeath'
    BY <2>4 DEF NothingActsAfterDeath
  <2> QED
    BY <2>1, <2>3, <2>5 DEF DeathInv
<1> QED
  BY <1>1, <1>2, TypeCorrect, PTL DEF Spec, DeathInv

-----------------------------------------------------------------------------
(* What is forwarded and what is answered                                  *)

\* A row keeps its owner, scope, label and secret through every step, and stays
\* revoked.
LEMMA RowKept ==
    ASSUME TypeOK, [Next]_vars, NEW k \in KeyIds, Stored(k)
    PROVE  /\ Stored(k)' /\ Slot(k)' = Slot(k)
           /\ rows'[k].user = rows[k].user /\ rows'[k].service = rows[k].service
           /\ rows'[k].hash = rows[k].hash
           /\ rows[k].revoked => rows'[k].revoked
<1>1. CASE rows' = rows
  BY <1>1 DEF Stored, Slot
<1>2. ASSUME NEW r \in Requests, NEW j \in KeyIds, NEW p \in Plaintexts, Mint(r, j, p)
      PROVE  rows'[k] = rows[k]
  BY <1>2, MintRows
<1>3. ASSUME NEW j \in KeyIds, RevokeRow(j), j # k
      PROVE  rows'[k] = rows[k]
  BY <1>3, RevokedRow
<1>4. ASSUME RevokeRow(k)
      PROVE  /\ rows'[k] # None /\ rows'[k].revoked
             /\ rows'[k].user = rows[k].user /\ rows'[k].service = rows[k].service
             /\ rows'[k].label = rows[k].label /\ rows'[k].hash = rows[k].hash
  <2>1. rows[k] \in KeyRow /\ rows'[k] = [rows[k] EXCEPT !.revoked = TRUE]
        /\ rows'[k] \in KeyRow
    BY <1>4, RevokedRow
  <2> QED
    BY <2>1, NoneIsNoRow DEF KeyRow
<1> QED
  BY <1>1, <1>2, <1>3, <1>4, RowSteps DEF Stored, Slot

\* A handler is entered from the lookup of its own request, or was there before.
LEMMA EnteredSteps ==
    ASSUME TypeOK, [Next]_vars, NEW q \in Requests,
           pc'[q] = "handler", call'[q].op = "proxy"
    PROVE  /\ config' = config /\ call'[q] = call[q]
           /\ \/ pc[q] = "handler" /\ who'[q] = who[q]
              \/ /\ rows' = rows /\ call[q].service \in config.services
                 /\ who'[q] \in Matches(call[q].bearer)
                 /\ rows[who'[q]].service = call[q].service
<1> DEFINE Was == pc[q] = "handler" /\ who'[q] = who[q]
           Kept == config' = config /\ call'[q] = call[q]
<1>1. ASSUME NEW r \in Requests, NEW c, Arrive(r, c) PROVE Kept /\ Was
  BY <1>1 DEF Arrive, TypeOK
<1>2. ASSUME NEW r \in Requests, NEW status, NEW k, NEW p, Reply(r, status, k, p)
      PROVE  Kept /\ Was
  BY <1>2 DEF Reply, TypeOK
<1>3. ASSUME NEW r \in Requests, NEW i, Enter(r, i)
      PROVE  Kept /\ rows' = rows /\ (Was \/ (r = q /\ who'[q] = i))
  BY <1>3 DEF Enter, TypeOK, dbvars
<1>4. ASSUME NEW r \in Requests, ExtractUser(r)
      PROVE  Kept /\ Was
  BY <1>2, <1>3, <1>4 DEF ExtractUser, Refuse
<1>5. ASSUME NEW r \in Requests, Verify(r)
      PROVE  Kept /\ \/ Was
                     \/ /\ rows' = rows /\ call[q].service \in config.services
                        /\ who'[q] \in Matches(call[q].bearer)
                        /\ rows[who'[q]].service = call[q].service
  BY <1>2, <1>3, <1>5 DEF Verify, Refuse
<1>6. ASSUME NEW r \in Requests, Handle(r), ~ExtractUser(r), ~Verify(r)
      PROVE  Kept /\ Was
  BY <1>2, <1>6 DEF Handle, RejectMint, Mint, MintConflict, RejectRevoke, Revoke, Logout, Forwarded,
     DbFails, Refuse
<1>7. ASSUME NEW r \in Requests, Leave(r)
      PROVE  Kept /\ Was
  BY <1>7 DEF Leave, TypeOK
<1>8. \A cf \in Configs : ~Restart(cf)
  BY DEF Restart
<1>9. CASE config' = config /\ UNCHANGED reqvars
  BY <1>9 DEF reqvars
<1> QED
  BY <1>1, <1>4, <1>5, <1>6, <1>7, <1>8, <1>9
     DEF Next, Deliver, Drop, CreateSession, ExpireSession, vars, reqvars

\* Only a request whose key was verified for the service it asks for is ever
\* forwarded, and its key is still in the table, under the pepper and with the
\* service of this process, for as long as it is.
THEOREM ForwardsAreVerified == Spec => []ForwardsAreScoped
<1>1. Init => ForwardsAreScoped
  BY DEF Init, ForwardsAreScoped
<1>2. TypeOK /\ ForwardsAreScoped /\ [Next]_vars => ForwardsAreScoped'
  <2> SUFFICES ASSUME TypeOK, ForwardsAreScoped, [Next]_vars,
                      NEW q \in Requests, pc'[q] = "handler", call'[q].op = "proxy"
               PROVE  /\ Stored(who[q])'
                      /\ rows'[who'[q]].hash = Hash(config.pepper, call[q].bearer)'
                      /\ rows'[who'[q]].service = call'[q].service
                      /\ call'[q].service \in config'.services
    BY DEF ForwardsAreScoped
  <2>1. CASE pc[q] = "handler" /\ who'[q] = who[q]
    <3>1. config' = config /\ call'[q] = call[q]
      BY EnteredSteps
    <3>2. PICK k \in KeyIds : k = who[q]
      BY <2>1, <3>1 DEF TypeOK
    <3>3. /\ Stored(k) /\ rows[k].hash = Hash(config.pepper, call[q].bearer)
          /\ rows[k].service = call[q].service /\ call[q].service \in config.services
      BY <2>1, <3>1, <3>2 DEF ForwardsAreScoped
    <3>4. Stored(k)' /\ rows'[k].hash = rows[k].hash /\ rows'[k].service = rows[k].service
      BY <3>3, RowKept
    <3> QED
      BY <2>1, <3>1, <3>2, <3>3, <3>4 DEF Stored, Hash
  <2>2. CASE ~(pc[q] = "handler" /\ who'[q] = who[q])
    BY <2>2, EnteredSteps DEF Matches, Active, Stored, Hash
  <2> QED
    BY <2>1, <2>2
<1> QED
  BY <1>1, <1>2, TypeCorrect, PTL DEF Spec

\* A request keeps the answer it has, or is answered now: 201 or 204.
AnswerKept(q) == pc[q] = "answered" /\ answer'[q] = answer[q]
MintAnswered(q) ==
    \E k \in KeyIds, p \in Plaintexts :
        Mint(q, k, p) /\ answer'[q] = [status |-> 201, key |-> k, plaintext |-> p]
RevokeAnswered(q) ==
    /\ Revoke(q) /\ Revocable(q, call[q].key)
    /\ answer'[q] = [status |-> 204, key |-> call[q].key, plaintext |-> None]

LEMMA AnswerStatus ==
    ASSUME NEW q
    PROVE  /\ MintAnswered(q) => answer'[q].status = 201
           /\ RevokeAnswered(q) => answer'[q].status = 204
<1>1. ASSUME MintAnswered(q) PROVE answer'[q].status = 201
  <2>1. PICK k \in KeyIds, p \in Plaintexts :
            answer'[q] = [status |-> 201, key |-> k, plaintext |-> p]
    BY <1>1 DEF MintAnswered
  <2> QED
    BY <2>1
<1>2. ASSUME RevokeAnswered(q) PROVE answer'[q].status = 204
  BY <1>2 DEF RevokeAnswered
<1> QED
  BY <1>1, <1>2

\* A request is answered by its own handler; a 201 comes of its INSERT alone and
\* a 204, unless to a logout, of its UPDATE.
LEMMA AnswerSteps ==
    ASSUME TypeOK, [Next]_vars, NEW q \in Requests, pc'[q] = "answered"
    PROVE  /\ config' = config /\ call'[q] = call[q] /\ who'[q] = who[q]
           /\ \/ AnswerKept(q) \/ MintAnswered(q) \/ RevokeAnswered(q)
              \/ /\ answer'[q].status # 201
                 /\ answer'[q].status = 204 => call[q].op = "logout"
<1> DEFINE Kept  == config' = config /\ call'[q] = call[q] /\ who'[q] = who[q]
           Was   == AnswerKept(q)
           Other == /\ answer'[q].status # 201
                    /\ answer'[q].status = 204 => call[q].op = "logout"
<1> USE DEF AnswerKept
<1>1. ASSUME NEW r \in Requests, NEW c, Arrive(r, c) PROVE Kept /\ Was
  BY <1>1 DEF Arrive, TypeOK
<1>2. ASSUME NEW r \in Requests, NEW status, NEW k, NEW p, Reply(r, status, k, p)
      PROVE  Kept /\ \/ Was
                     \/ /\ r = q /\ answer'[q] = [status |-> status, key |-> k, plaintext |-> p]
                        /\ answer'[q].status = status
  BY <1>2 DEF Reply, TypeOK
<1>3. ASSUME NEW r \in Requests, NEW i, Enter(r, i) PROVE Kept /\ Was
  BY <1>3 DEF Enter, TypeOK
<1>4. ASSUME NEW r \in Requests, NEW status, Refuse(r, status), status # 201, status # 204
      PROVE  Kept /\ (Was \/ Other)
  <2>1. Reply(r, status, None, None)
    BY <1>4 DEF Refuse
  <2>2. Kept /\ (Was \/ (r = q /\ answer'[q].status = status))
    BY <1>2, <2>1
  <2> QED
    BY <1>4, <2>2
<1>5. ASSUME NEW r \in Requests, NEW k \in KeyIds, NEW p \in Plaintexts, Mint(r, k, p)
      PROVE  Kept /\ (Was \/ MintAnswered(q))
  <2>1. Reply(r, 201, k, p)
    BY <1>5 DEF Mint
  <2> QED
    <3>1. Kept /\ \/ Was
                  \/ r = q /\ answer'[q] = [status |-> 201, key |-> k, plaintext |-> p]
      BY <1>2, <2>1
    <3> QED
      BY <1>5, <3>1 DEF MintAnswered
<1>6. ASSUME NEW r \in Requests, Revoke(r)
      PROVE  Kept /\ (Was \/ RevokeAnswered(q) \/ Other)
  <2>1. \/ Revocable(r, call[r].key) /\ Reply(r, 204, call[r].key, None)
        \/ Refuse(r, 404)
    BY <1>6 DEF Revoke
  <2>2. CASE Refuse(r, 404)
    BY <1>4, <2>2
  <2>3. CASE Revocable(r, call[r].key) /\ Reply(r, 204, call[r].key, None)
    <3>1. Kept /\ \/ Was
                  \/ /\ r = q
                     /\ answer'[q] = [status |-> 204, key |-> call[r].key, plaintext |-> None]
      BY <1>2, <2>3
    <3> QED
      BY <1>6, <2>3, <3>1 DEF RevokeAnswered
  <2> QED
    BY <2>1, <2>2, <2>3
<1>7. ASSUME NEW r \in Requests, Logout(r)
      PROVE  Kept /\ (Was \/ Other)
  <2>1. call[r].op = "logout" /\ Reply(r, 204, None, None)
    BY <1>7 DEF Logout
  <2>2. Kept /\ (Was \/ (r = q /\ answer'[q].status = 204))
    BY <1>2, <2>1
  <2> QED
    BY <2>1, <2>2
<1>8. ASSUME NEW r \in Requests,
             \/ ExtractUser(r) \/ RejectMint(r) \/ MintConflict(r) \/ RejectRevoke(r) \/ Verify(r)
             \/ Forwarded(r) \/ DbFails(r)
      PROVE  Kept /\ (Was \/ Other)
  BY <1>3, <1>4, <1>8 DEF ExtractUser, RejectMint, MintConflict, RejectRevoke, Verify, Forwarded, DbFails
<1>9. ASSUME NEW r \in Requests, Leave(r) PROVE Kept /\ Was
  BY <1>9 DEF Leave, TypeOK
<1>10. ASSUME NEW r \in Requests, Handle(r)
       PROVE  Kept /\ (Was \/ MintAnswered(q) \/ RevokeAnswered(q) \/ Other)
  BY <1>5, <1>6, <1>7, <1>8, <1>10 DEF Handle
<1>11. \A cf \in Configs : ~Restart(cf)
  BY DEF Restart
<1>12. CASE config' = config /\ UNCHANGED reqvars
  BY <1>12 DEF reqvars
<1> QED
  BY <1>1, <1>9, <1>11, <1>12, <1>10
     DEF Next, Deliver, Drop, CreateSession, ExpireSession, vars, reqvars

\* The key of a 201 is one.
IssuedKeys ==
    \A r \in Requests :
        pc[r] = "answered" /\ answer[r].status = 201 => answer[r].key \in KeyIds

\* Behind every 201 a client reads is the row it speaks of, behind every 204 to
\* a revocation a revoked key of the user who asked, and two revocations of one
\* key are never both told they did it.
THEOREM AnswersAreTrue == Spec => []AnswersHold
<1> DEFINE Minted201(r) ==
              /\ Stored(answer[r].key)
              /\ Slot(answer[r].key) = <<who[r], call[r].service, call[r].label>>
              /\ rows[answer[r].key].hash = Hash(config.pepper, answer[r].plaintext)
           Revoked204(r) ==
              /\ answer[r].key = call[r].key /\ answer[r].key # None
              /\ Stored(answer[r].key) /\ rows[answer[r].key].revoked
              /\ rows[answer[r].key].user = who[r]
<1>1. Init => AnswersHold /\ IssuedKeys
  BY DEF Init, AnswersHold, IssuedKeys
<1>2. TypeOK /\ AnswersHold /\ IssuedKeys /\ [Next]_vars => AnswersHold' /\ IssuedKeys'
  <2> SUFFICES ASSUME TypeOK, AnswersHold, IssuedKeys, [Next]_vars
               PROVE  AnswersHold' /\ IssuedKeys'
    OBVIOUS
  <2>1. ASSUME NEW q \in Requests, pc'[q] = "answered", answer'[q].status = 201
        PROVE  Minted201(q)' /\ answer'[q].key \in KeyIds
    <3>1. CASE pc[q] = "answered" /\ answer'[q] = answer[q]
      <4>1. Minted201(q)
        BY <2>1, <3>1 DEF AnswersHold
      <4>2. PICK k \in KeyIds : k = answer[q].key
        BY <2>1, <3>1 DEF IssuedKeys
      <4>3. Stored(k)' /\ Slot(k)' = Slot(k) /\ rows'[k].hash = rows[k].hash
        BY <4>1, <4>2, RowKept
      <4> QED
        <5>1. config' = config /\ call'[q] = call[q] /\ who'[q] = who[q]
          BY <2>1, AnswerSteps
        <5>2. answer'[q].key = k /\ answer'[q].plaintext = answer[q].plaintext
          BY <3>1, <4>2
        <5>3. /\ Slot(k) = <<who[q], call[q].service, call[q].label>>
              /\ rows[k].hash = Hash(config.pepper, answer[q].plaintext)
          BY <4>1, <4>2
        <5> QED
          BY <4>3, <5>1, <5>2, <5>3 DEF Stored, Slot, Hash
    <3>2. ASSUME NEW k \in KeyIds, NEW p \in Plaintexts, Mint(q, k, p),
                 answer'[q] = [status |-> 201, key |-> k, plaintext |-> p]
          PROVE  Minted201(q)' /\ answer'[q].key \in KeyIds
      <4>1. rows'[k] = NewRow(q, p) /\ rows'[k] # None
        BY <3>2, MintRows, NoneIsNoRow
      <4>2. config' = config /\ call'[q] = call[q] /\ who'[q] = who[q]
        BY <2>1, AnswerSteps
      <4> QED
        BY <3>2, <4>1, <4>2 DEF NewRow, Stored, Slot, Hash
    <3>3. AnswerKept(q) \/ MintAnswered(q)
      <4>1. ~RevokeAnswered(q)
        BY <2>1, AnswerStatus
      <4> QED
        BY <2>1, <4>1, AnswerSteps
    <3> QED
      BY <3>1, <3>2, <3>3 DEF AnswerKept, MintAnswered
  <2>2. ASSUME NEW q \in Requests, pc'[q] = "answered", answer'[q].status = 204,
               call'[q].op = "revoke"
        PROVE  Revoked204(q)'
    <3>1. config' = config /\ call'[q] = call[q] /\ who'[q] = who[q]
      BY <2>2, AnswerSteps
    <3>2. call[q].key \in KeyIds \cup {None}
      <4>1. call[q] \in Call
        BY <2>2, RequestSteps DEF TypeOK, Arrives, Advances
      <4> QED
        BY <2>2, <3>1, <4>1, CallKinds DEF RevokeCall
    <3>3. CASE pc[q] = "answered" /\ answer'[q] = answer[q]
      <4>1. Revoked204(q)
        BY <2>2, <3>1, <3>3 DEF AnswersHold
      <4>2. PICK k \in KeyIds : k = answer[q].key
        BY <3>2, <4>1
      <4>3. Stored(k)' /\ rows'[k].revoked /\ rows'[k].user = rows[k].user
        BY <4>1, <4>2, RowKept
      <4> QED
        BY <3>1, <3>3, <4>1, <4>2, <4>3 DEF Stored
    <3>4. CASE /\ Revoke(q) /\ Revocable(q, call[q].key)
               /\ answer'[q] = [status |-> 204, key |-> call[q].key, plaintext |-> None]
      <4>1. PICK k \in KeyIds : k = call[q].key
        BY <3>2, <3>4 DEF Revoke
      <4>2. RevokeRow(k)
        BY <3>4, <4>1 DEF Revoke, Revocable, RevokeRow, Refuse
      <4>3. rows'[k] \in KeyRow /\ rows'[k].revoked /\ rows'[k].user = rows[k].user
        BY <4>2, RevokedRow, RowKept DEF RevokeRow, Active
      <4> QED
        BY <3>1, <3>4, <4>1, <4>3, NoneIsNoRow DEF Stored, Revocable
    <3>5. AnswerKept(q) \/ RevokeAnswered(q)
      <4>1. ~MintAnswered(q)
        BY <2>2, AnswerStatus
      <4> QED
        BY <2>2, <3>1, <4>1, AnswerSteps
    <3> QED
      BY <3>3, <3>4, <3>5 DEF AnswerKept, RevokeAnswered
  <2>3. ASSUME NEW q \in Requests, NEW r \in Requests, q # r,
               pc'[q] = "answered", call'[q].op = "revoke", answer'[q].status = 204,
               pc'[r] = "answered", call'[r].op = "revoke", answer'[r].status = 204,
               call'[q].key = call'[r].key
        PROVE  FALSE
    <3> DEFINE Before(x) == pc[x] = "answered" /\ answer'[x] = answer[x]
               Now(x) == Revoke(x) /\ Revocable(x, call[x].key)
    <3>1. call'[q] = call[q] /\ call'[r] = call[r]
      BY <2>3, AnswerSteps
    <3>2. (Before(q) \/ Now(q)) /\ (Before(r) \/ Now(r))
      <4>1. ~MintAnswered(q) /\ ~MintAnswered(r)
        BY <2>3, AnswerStatus
      <4> QED
        BY <2>3, <3>1, <4>1, AnswerSteps DEF AnswerKept, RevokeAnswered
    <3>3. ~(Before(q) /\ Before(r))
      BY <2>3, <3>1 DEF AnswersHold
    <3>4. ~(Now(q) /\ Before(r)) /\ ~(Now(r) /\ Before(q))
      BY <2>3, <3>1 DEF AnswersHold, Revocable, Active
    <3>5. ~(Now(q) /\ Now(r))
      <4> SUFFICES ASSUME Now(q), Now(r) PROVE FALSE
        OBVIOUS
      <4>1. pc[q] = "handler" /\ pc[r] = "handler"
        BY DEF Revoke
      <4>2. pc' = [pc EXCEPT ![q] = "answered"]
        BY DEF Revoke, Reply, Refuse
      <4> QED
        BY <2>3, <4>1, <4>2 DEF TypeOK
    <3> QED
      BY <3>2, <3>3, <3>4, <3>5
  <2> QED
    BY <2>1, <2>2, <2>3 DEF AnswersHold, IssuedKeys
<1> QED
  BY <1>1, <1>2, TypeCorrect, PTL DEF Spec

-----------------------------------------------------------------------------
(* The rows implement the registry                                         *)

Holds(k, s) == Active(k) /\ Slot(k) = s

\* With one active key per slot, the holder of a slot is that key.
LEMMA HolderIsKey ==
    ASSUME OneActivePerSlot, NEW s, NEW k \in KeyIds, Holds(k, s)
    PROVE  HolderOf(s) = k
  BY DEF Holds, HolderOf, OneActivePerSlot

LEMMA HolderHolds ==
    ASSUME NEW s
    PROVE  \/ HolderOf(s) \in KeyIds /\ Holds(HolderOf(s), s)
           \/ HolderOf(s) = None /\ \A k \in KeyIds : ~Holds(k, s)
  BY DEF Holds, HolderOf

\* The same two facts of the state after a step.
LEMMA NextHolderIsKey ==
    ASSUME OneActivePerSlot', NEW s, NEW k \in KeyIds, Holds(k, s)'
    PROVE  HolderOf(s)' = k
  BY DEF Holds, HolderOf, OneActivePerSlot

LEMMA NextHolderHolds ==
    ASSUME NEW s
    PROVE  \/ HolderOf(s)' \in KeyIds /\ Holds(HolderOf(s), s)'
           \/ HolderOf(s)' = None /\ \A k \in KeyIds : ~Holds(k, s)'
  BY DEF Holds, HolderOf

\* Holders carry over when the keys that hold a slot do.
LEMMA SameHolder ==
    ASSUME OneActivePerSlot, OneActivePerSlot', NEW s,
           \A k \in KeyIds : Holds(k, s) <=> Holds(k, s)'
    PROVE  HolderOf(s)' = HolderOf(s)
<1>1. CASE \E k \in KeyIds : Holds(k, s)
  BY <1>1, HolderIsKey, NextHolderIsKey
<1>2. CASE ~\E k \in KeyIds : Holds(k, s)
  BY <1>2 DEF HolderOf, Holds
<1> QED
  BY <1>1, <1>2

LEMMA MintIssues ==
    ASSUME TypeOK, OneActivePerSlot, OneActivePerSlot',
           NEW r \in Requests, NEW k \in KeyIds, NEW p \in Plaintexts, Mint(r, k, p)
    PROVE  Registry!Next
<1> DEFINE s == <<who[r], call[r].service, call[r].label>>
<1>1. s \in Slots
  <2>1. NewRow(r, p) \in KeyRow
    BY MintRows
  <2> QED
    BY <2>1 DEF NewRow, KeyRow, Slots
<1>2. /\ rows'[k] = NewRow(r, p) /\ ~Stored(k) /\ ~SlotTaken(r)
      /\ NewRow(r, p) # None /\ \A j \in KeyIds \ {k} : rows'[j] = rows[j]
  BY MintRows, NoneIsNoRow
<1>3. PICK t \in Slots : t = s
  BY <1>1
<1>4. Holds(k, t)'
  BY <1>2, <1>3 DEF Holds, Slot, Active, Stored, NewRow
<1>5. \A u : ~Holds(k, u)
  BY <1>2 DEF Holds, Active
<1>6. \A j \in KeyIds : ~Holds(j, t)
  BY <1>2, <1>3 DEF SlotTaken, Holds
<1>7. HolderOf(t) = None /\ HolderOf(t)' = k
  BY <1>4, <1>6, HolderHolds, NextHolderIsKey
<1>8. ASSUME NEW u \in Slots, u # t PROVE HolderOf(u)' = HolderOf(u)
  <2>1. ASSUME NEW j \in KeyIds PROVE Holds(j, u) <=> Holds(j, u)'
    <3>1. CASE j = k
      BY <1>4, <1>5, <1>8, <3>1 DEF Holds
    <3>2. CASE j # k
      BY <1>2, <3>2 DEF Holds, Active, Stored, Slot
    <3> QED
      BY <3>1, <3>2
  <2> QED
    BY <2>1, SameHolder
<1>9. k \notin RevokedKeys /\ RevokedKeys' = RevokedKeys
  BY <1>2 DEF RevokedKeys, Stored, NewRow
<1>10. \A u \in Slots : HolderOf(u) # k
  BY <1>5, HolderHolds, NoneIsNoRow
<1>11. Registry!Issue(t, k)
  BY <1>7, <1>8, <1>9, <1>10 DEF Registry!Issue
<1> QED
  BY <1>11 DEF Registry!Next

LEMMA RevokeRetires ==
    ASSUME TypeOK, OneActivePerSlot, OneActivePerSlot', NEW k \in KeyIds, RevokeRow(k)
    PROVE  Registry!Next
<1>1. /\ rows[k] \in KeyRow /\ rows'[k] = [rows[k] EXCEPT !.revoked = TRUE]
      /\ rows'[k].revoked /\ rows'[k] \in KeyRow
      /\ \A j \in KeyIds \ {k} : rows'[j] = rows[j]
      /\ Active(k)
  BY RevokedRow DEF RevokeRow
<1>2. PICK t \in Slots : t = Slot(k)
  BY <1>1 DEF Slot, Slots, KeyRow
<1>3. HolderOf(t) = k /\ k # None
  BY <1>1, <1>2, HolderIsKey, NoneIsNoRow DEF Holds
<1>4. \A j \in KeyIds, u \in Slots : Holds(j, u)' <=> Holds(j, u) /\ j # k
  BY <1>1 DEF Holds, Active, Stored, Slot
<1>5. HolderOf(t)' = None
  <2>1. \A j \in KeyIds : ~Holds(j, t)'
    BY <1>2, <1>4, <1>1 DEF OneActivePerSlot, Holds
  <2> QED
    BY <2>1, NextHolderHolds
<1>6. ASSUME NEW u \in Slots, u # t PROVE HolderOf(u)' = HolderOf(u)
  <2>1. \A j \in KeyIds : Holds(j, u) <=> Holds(j, u)'
    BY <1>2, <1>4, <1>6 DEF Holds
  <2> QED
    BY <2>1, SameHolder
<1>7. RevokedKeys' = RevokedKeys \cup {k}
  BY <1>1, NoneIsNoRow DEF RevokedKeys, Stored
<1>8. Registry!Retire(t)
  BY <1>3, <1>5, <1>6, <1>7 DEF Registry!Retire
<1> QED
  BY <1>8 DEF Registry!Next

\* The tables, the handlers that race over them and the restarts implement the
\* registry: each mint issues a free slot, each revoke retires its holder, and
\* no other step is visible.
THEOREM ServiceImplementsRegistry == Spec => RegistrySpec
<1>1. Init => Registry!Init
  BY NoneIsNoRow DEF Init, Registry!Init, HolderOf, RevokedKeys, Active, Stored
<1>2. TypeOK /\ OneActivePerSlot /\ OneActivePerSlot' /\ [Next]_vars
        => [Registry!Next]_(Registry!vars)
  <2> SUFFICES ASSUME TypeOK, OneActivePerSlot, OneActivePerSlot', [Next]_vars
               PROVE  Registry!Next \/ UNCHANGED Registry!vars
    OBVIOUS
  <2>1. CASE rows' = rows
    BY <2>1 DEF Registry!vars, HolderOf, RevokedKeys, Active, Stored, Slot
  <2> QED
    BY <2>1, RowSteps, MintIssues, RevokeRetires
<1> QED
  BY <1>1, <1>2, TypeCorrect, OneActiveKey, PTL DEF Spec, RegistrySpec, Registry!Spec
=============================================================================
