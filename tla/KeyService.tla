----------------------------- MODULE KeyService -----------------------------
(***************************************************************************)
(* The key service: the api_keys and sessions tables, the handlers of      *)
(* POST /api/keys, DELETE /api/keys/{id} and POST /api/auth/logout, and    *)
(* the authentication half of /proxy/{service}.                            *)
(*                                                                         *)
(* Every request runs concurrently with the others and is cut at its       *)
(* awaits: the session lookup of the extractor is one step, the handler's  *)
(* single SQL statement another, and anything may happen between the two.  *)
(* A statement is atomic (SQLite serialises writers); no handler opens a   *)
(* transaction around two of them.                                         *)
(***************************************************************************)
EXTENDS FiniteSets

CONSTANTS
    Users, Services, Labels,
    BadLabel,       \* a label the handler refuses: blank, or over 128 bytes
    KeyIds,         \* the 2^32 public ids; an id is drawn without looking
    Plaintexts,     \* the 112-bit secrets
    Sids,           \* the 128-bit session ids
    Requests,       \* requests the server may be handling at the same time
    Configs,        \* the configurations a process may be started with
    Ops,            \* what the clients of an instance ask for
    None

ASSUME BadLabelAssumption == BadLabel \notin Labels
ASSUME ConfigsAssumption ==
    /\ Configs # {}
    /\ \A cf \in Configs : DOMAIN cf = {"services", "pepper", "cookieKey"}
                             /\ cf.services \subseteq Services

Peppers    == {cf.pepper : cf \in Configs}
CookieKeys == {cf.cookieKey : cf \in Configs}

\* blake3(pepper || plaintext), which is taken to be injective.
Hash(pepper, plaintext) == <<pepper, plaintext>>

KeyRow == [user : Users, service : Services, label : Labels,
           hash : Peppers \X Plaintexts, revoked : BOOLEAN]
SessionRow == [user : Users, expired : BOOLEAN]
Cookie == [sid : Sids, signedBy : CookieKeys]

MintCall   == [op : {"mint"}, cookie : Cookie, service : Services,
               label : Labels \cup {BadLabel}]
RevokeCall == [op : {"revoke"}, cookie : Cookie, key : KeyIds \cup {None}]  \* None: malformed
LogoutCall == [op : {"logout"}, cookie : Cookie]
ProxyCall  == [op : {"proxy"}, service : Services, bearer : Plaintexts]
Call == MintCall \cup RevokeCall \cup LogoutCall \cup ProxyCall

Answer == [status : {200, 201, 204, 400, 401, 403, 404, 409, 500},
           key : KeyIds \cup {None}, plaintext : Plaintexts \cup {None}]

ASSUME NoneAssumption ==
    /\ None \notin Users \cup KeyIds \cup Plaintexts
    /\ None \notin KeyRow \cup SessionRow \cup Call \cup Answer

VARIABLES
    config,     \* the configuration the running process has loaded
    rows,       \* the api_keys table, by primary key
    sessions,   \* the sessions table, by primary key
    jar,        \* the session cookies ever handed to a browser
    wallet,     \* the plaintexts that reached a client
    pc,         \* where each request is
    call,       \* what it asked
    who,        \* whom it was authenticated as: a user, or a key
    answer,     \* what the handler returned
    late        \* history: its credential was already dead when it arrived

dbvars  == <<rows, sessions>>
reqvars == <<pc, call, who, answer, late>>
vars    == <<config, rows, sessions, jar, wallet, pc, call, who, answer, late>>

-----------------------------------------------------------------------------
(* Reading the tables                                                      *)

Stored(k) == rows[k] # None
Active(k) == Stored(k) /\ ~rows[k].revoked
Slot(k)   == <<rows[k].user, rows[k].service, rows[k].label>>

CookieVerifies(c) == c.signedBy = config.cookieKey

SessionLive(c) ==
    /\ CookieVerifies(c)
    /\ sessions[c.sid] # None
    /\ ~sessions[c.sid].expired

\* keys::verify: the active rows whose hash is the bearer's under this pepper.
Matches(bearer) ==
    {k \in KeyIds : Active(k) /\ rows[k].hash = Hash(config.pepper, bearer)}

CredentialDead(c) ==
    IF c.op = "proxy" THEN Matches(c.bearer) = {} ELSE ~SessionLive(c.cookie)

-----------------------------------------------------------------------------
Init ==
    /\ config \in Configs
    /\ rows = [k \in KeyIds |-> None]
    /\ sessions = [s \in Sids |-> None]
    /\ jar = {}
    /\ wallet = {}
    /\ pc = [r \in Requests |-> "idle"]
    /\ call = [r \in Requests |-> None]
    /\ who = [r \in Requests |-> None]
    /\ answer = [r \in Requests |-> None]
    /\ late = [r \in Requests |-> FALSE]

(* The browser and the caller.  They present what the server gave them,    *)
(* at any time, in any order, however old it is.                           *)

Sendable ==
    {c \in MintCall \cup RevokeCall \cup LogoutCall :
        c.op \in Ops /\ c.cookie \in jar}
    \cup {c \in ProxyCall : c.op \in Ops /\ c.bearer \in wallet}

Arrive(r, c) ==
    /\ pc[r] = "idle"
    /\ pc' = [pc EXCEPT ![r] = "auth"]
    /\ call' = [call EXCEPT ![r] = c]
    /\ late' = [late EXCEPT ![r] = CredentialDead(c)]
    /\ UNCHANGED <<config, dbvars, jar, wallet, who, answer>>

Reply(r, status, k, p) ==
    /\ pc' = [pc EXCEPT ![r] = "answered"]
    /\ answer' = [answer EXCEPT ![r] =
                    [status |-> status, key |-> k, plaintext |-> p]]
    /\ UNCHANGED <<config, jar, wallet, call, who, late>>

Refuse(r, status) == Reply(r, status, None, None) /\ UNCHANGED dbvars

\* Bug: the handler runs without knowing whom it runs for.
EnterAnonymous(r, identity) ==
    /\ pc' = [pc EXCEPT ![r] = "handler"]
    /\ UNCHANGED <<config, dbvars, jar, wallet, call, who, answer, late>>

Enter(r, identity) ==
    /\ pc' = [pc EXCEPT ![r] = "handler"]
    /\ who' = [who EXCEPT ![r] = identity]
    /\ UNCHANGED <<config, dbvars, jar, wallet, call, answer, late>>

Leave(r) ==
    /\ pc' = [pc EXCEPT ![r] = "idle"]
    /\ call' = [call EXCEPT ![r] = None]
    /\ who' = [who EXCEPT ![r] = None]
    /\ answer' = [answer EXCEPT ![r] = None]
    /\ late' = [late EXCEPT ![r] = FALSE]
    /\ UNCHANGED <<config, dbvars, jar>>

-----------------------------------------------------------------------------
(* The AuthenticatedUser extractor                                         *)

\* Bug: the lookup forgets expires_at > datetime('now').
ExtractUserExpired(r) ==
    /\ pc[r] = "auth"
    /\ call[r].op \in {"mint", "revoke"}
    /\ CookieVerifies(call[r].cookie) /\ sessions[call[r].cookie.sid] # None
    /\ Enter(r, sessions[call[r].cookie.sid].user)

ExtractUser(r) ==
    /\ pc[r] = "auth"
    /\ call[r].op \in {"mint", "revoke"}
    /\ \/ /\ SessionLive(call[r].cookie)
          /\ Enter(r, sessions[call[r].cookie.sid].user)
       \/ ~SessionLive(call[r].cookie) /\ Refuse(r, 401)

(* POST /api/keys                                                          *)

MintRefused(r) ==
    call[r].label = BadLabel \/ call[r].service \notin config.services

RejectMint(r) ==
    /\ pc[r] = "handler" /\ call[r].op = "mint"
    /\ MintRefused(r)
    /\ Refuse(r, 400)

NewRow(r, p) ==
    [user |-> who[r], service |-> call[r].service, label |-> call[r].label,
     hash |-> Hash(config.pepper, p), revoked |-> FALSE]

\* Bug: a migration drops the index and does not create its successor.
NoIndex(r) == FALSE

\* The partial unique index on (user_id, service_id, label).
SlotTaken(r) ==
    \E k \in KeyIds :
        Active(k) /\ Slot(k) = <<who[r], call[r].service, call[r].label>>

\* A drawn secret is in no row yet; a drawn id may well be.
Unseen(p) == \A k \in KeyIds : Stored(k) => rows[k].hash[2] # p

\* Bug: INSERT OR REPLACE.
MintReplaces(r, k, p) ==
    /\ pc[r] = "handler" /\ call[r].op = "mint"
    /\ ~MintRefused(r)
    /\ Unseen(p) /\ ~SlotTaken(r)
    /\ rows' = [rows EXCEPT ![k] = NewRow(r, p)]
    /\ Reply(r, 201, k, p)
    /\ UNCHANGED sessions

Mint(r, k, p) ==
    /\ pc[r] = "handler" /\ call[r].op = "mint"
    /\ ~MintRefused(r)
    /\ Unseen(p)
    /\ ~Stored(k) /\ ~SlotTaken(r)
    /\ rows' = [rows EXCEPT ![k] = NewRow(r, p)]
    /\ Reply(r, 201, k, p)
    /\ UNCHANGED sessions

\* Any UNIQUE failure, the slot's or the primary key's, is the same 409.
MintConflict(r) ==
    /\ pc[r] = "handler" /\ call[r].op = "mint"
    /\ ~MintRefused(r)
    /\ SlotTaken(r) \/ \E k \in KeyIds : Stored(k)
    /\ Refuse(r, 409)

(* DELETE /api/keys/{id}                                                   *)

\* Bugs: no user_id = ? in the WHERE clause; no revoked_at IS NULL.
RevocableByAnyone(r, k) == Active(k)
RevocableTwice(r, k)    == Stored(k) /\ rows[k].user = who[r]

\* The WHERE clause of the UPDATE.
Revocable(r, k) == Active(k) /\ rows[k].user = who[r]

\* Bug: a DELETE instead of the soft revoke.
RevokeDeletes(r) ==
    LET k == call[r].key IN
    /\ pc[r] = "handler" /\ call[r].op = "revoke" /\ k # None
    /\ Revocable(r, k)
    /\ rows' = [rows EXCEPT ![k] = None]
    /\ Reply(r, 204, k, None)
    /\ UNCHANGED sessions

RejectRevoke(r) ==
    /\ pc[r] = "handler" /\ call[r].op = "revoke" /\ call[r].key = None
    /\ Refuse(r, 400)

Revoke(r) ==
    LET k == call[r].key IN
    /\ pc[r] = "handler" /\ call[r].op = "revoke" /\ k # None
    /\ \/ /\ Revocable(r, k)
          /\ rows' = [rows EXCEPT ![k] = [rows[k] EXCEPT !.revoked = TRUE]]
          /\ Reply(r, 204, k, None)
          /\ UNCHANGED sessions
       \/ ~Revocable(r, k) /\ Refuse(r, 404)

(* POST /api/auth/logout: no extractor; the row goes if the cookie verifies *)

Logout(r) ==
    LET c == call[r].cookie IN
    /\ pc[r] = "auth" /\ call[r].op = "logout"
    /\ sessions' = IF CookieVerifies(c) THEN [sessions EXCEPT ![c.sid] = None]
                                        ELSE sessions
    /\ Reply(r, 204, None, None)
    /\ UNCHANGED rows

(* /proxy/{service}: service lookup, keys::verify, scope check             *)

\* Bug: the scope of the key is not compared with the service.
VerifyUnscoped(r) ==
    /\ pc[r] = "auth" /\ call[r].op = "proxy"
    /\ call[r].service \in config.services
    /\ \E k \in Matches(call[r].bearer) : Enter(r, k)

\* Bug: the point read forgets revoked_at IS NULL.
VerifyRevoked(r) ==
    /\ pc[r] = "auth" /\ call[r].op = "proxy"
    /\ call[r].service \in config.services
    /\ \E k \in KeyIds :
        /\ Stored(k) /\ rows[k].hash = Hash(config.pepper, call[r].bearer)
        /\ rows[k].service = call[r].service
        /\ Enter(r, k)

Verify(r) ==
    LET s == call[r].service
        found == Matches(call[r].bearer) IN
    /\ pc[r] = "auth" /\ call[r].op = "proxy"
    /\ \/ s \notin config.services /\ Refuse(r, 404)
       \/ s \in config.services /\ found = {} /\ Refuse(r, 401)
       \/ /\ s \in config.services
          /\ \E k \in found : \/ rows[k].service # s /\ Refuse(r, 403)
                              \/ rows[k].service = s /\ Enter(r, k)

\* The upstream has answered; what happens in between is ProxyForward's.
Forwarded(r) ==
    /\ pc[r] = "handler" /\ call[r].op = "proxy"
    /\ Refuse(r, 200)

(* Any statement may fail: pool exhausted, database busy, disk full.       *)
DbFails(r) == pc[r] \in {"auth", "handler"} /\ Refuse(r, 500)

(* The answer reaches the client, or the connection is gone first and the  *)
(* handler is dropped where it stands.                                     *)

Deliver(r) ==
    /\ pc[r] = "answered"
    /\ wallet' = IF answer[r].plaintext = None THEN wallet
                 ELSE wallet \cup {answer[r].plaintext}
    /\ Leave(r)

Drop(r) ==
    /\ pc[r] # "idle"
    /\ UNCHANGED wallet
    /\ Leave(r)

-----------------------------------------------------------------------------
(* Sessions come from the login callback and die with the clock.           *)

CreateSession(u, s) ==
    /\ \A c \in jar : c.sid # s
    /\ sessions' = [sessions EXCEPT ![s] = [user |-> u, expired |-> FALSE]]
    /\ jar' = jar \cup {[sid |-> s, signedBy |-> config.cookieKey]}
    /\ UNCHANGED <<config, rows, wallet, reqvars>>

ExpireSession(s) ==
    /\ sessions[s] # None /\ ~sessions[s].expired
    /\ sessions' = [sessions EXCEPT ![s] = [sessions[s] EXCEPT !.expired = TRUE]]
    /\ UNCHANGED <<config, rows, jar, wallet, reqvars>>

(* The process stops, however it stops, and a new one starts, with another *)
(* services list, pepper or cookie key if the operator changed them.       *)
Restart(cf) ==
    /\ config' = cf
    /\ pc' = [r \in Requests |-> "idle"]
    /\ call' = [r \in Requests |-> None]
    /\ who' = [r \in Requests |-> None]
    /\ answer' = [r \in Requests |-> None]
    /\ late' = [r \in Requests |-> FALSE]
    /\ UNCHANGED <<dbvars, jar, wallet>>

Handle(r) ==
    \/ ExtractUser(r)
    \/ RejectMint(r)
    \/ \E k \in KeyIds, p \in Plaintexts : Mint(r, k, p)
    \/ MintConflict(r)
    \/ RejectRevoke(r)
    \/ Revoke(r)
    \/ Logout(r)
    \/ Verify(r)
    \/ Forwarded(r)
    \/ DbFails(r)

Next ==
    \/ \E r \in Requests, c \in Sendable : Arrive(r, c)
    \/ \E r \in Requests : Handle(r) \/ Deliver(r) \/ Drop(r)
    \/ \E u \in Users, s \in Sids : CreateSession(u, s)
    \/ \E s \in Sids : ExpireSession(s)
    \/ \E cf \in Configs : Restart(cf)

Spec == Init /\ [][Next]_vars

-----------------------------------------------------------------------------
(* Properties                                                              *)

\* Every table, request and client holds what its type says; a request past
\* the extractor knows its user, and one past keys::verify its key.
TypeOK ==
    /\ config \in Configs
    /\ rows \in [KeyIds -> KeyRow \cup {None}]
    /\ sessions \in [Sids -> SessionRow \cup {None}]
    /\ jar \subseteq Cookie
    /\ wallet \subseteq Plaintexts
    /\ pc \in [Requests -> {"idle", "auth", "handler", "answered"}]
    /\ call \in [Requests -> Call \cup {None}]
    /\ who \in [Requests -> Users \cup KeyIds \cup {None}]
    /\ answer \in [Requests -> Answer \cup {None}]
    /\ late \in [Requests -> BOOLEAN]
    /\ \A r \in Requests :
        /\ pc[r] # "idle" => call[r] \in Call
        /\ pc[r] = "answered" => answer[r] \in Answer
        /\ pc[r] = "handler" =>
              IF call[r].op = "proxy" THEN who[r] \in KeyIds
                                      ELSE who[r] \in Users

\* However many mints race, a user never holds two active keys with one label
\* for one service.
OneActivePerSlot ==
    \A j, k \in KeyIds : Active(j) /\ Active(k) /\ Slot(j) = Slot(k) => j = k

\* Once a row is there it stays, through every request and restart: its owner,
\* scope and hash never change, and a revoked key is never active again.
RowsAreForever ==
    [][\A k \in KeyIds :
        Stored(k) => /\ Stored(k)'
                     /\ rows'[k] \in {rows[k], [rows[k] EXCEPT !.revoked = TRUE]}]_vars

\* A request that reaches the server after its session was logged out, expired
\* or orphaned by a new cookie key, or after its key was revoked, never gets
\* past authentication, whatever else is in flight.
NothingActsAfterDeath ==
    \A r \in Requests :
        late[r] /\ call[r].op # "logout" =>
            /\ pc[r] # "handler"
            /\ pc[r] = "answered" => answer[r].status \in {401, 404, 500}

\* What the handlers answer is so: behind a 201 is a row of that user with the
\* service, label and secret of the answer, and behind a 204 a revoked key of
\* the user who asked; and of several requests to revoke one key, only one is
\* told it did.
AnswersHold ==
    /\ \A r \in Requests : pc[r] = "answered" =>
        LET k == answer[r].key IN
        /\ answer[r].status = 201 =>
              /\ Stored(k)
              /\ Slot(k) = <<who[r], call[r].service, call[r].label>>
              /\ rows[k].hash = Hash(config.pepper, answer[r].plaintext)
        /\ answer[r].status = 204 /\ call[r].op = "revoke" =>
              /\ k = call[r].key /\ k # None
              /\ Stored(k) /\ rows[k].revoked /\ rows[k].user = who[r]
    /\ \A q, r \in {r \in Requests : pc[r] = "answered" /\ call[r].op = "revoke"} :
        answer[q].status = 204 /\ answer[r].status = 204 /\ call[q].key = call[r].key
            => q = r

\* What is forwarded was verified: the key exists, was minted under the pepper
\* of this process with the secret presented, and is scoped to the service
\* asked for, which this process still serves.
ForwardsAreScoped ==
    \A r \in Requests : pc[r] = "handler" /\ call[r].op = "proxy" =>
        /\ Stored(who[r])
        /\ rows[who[r]].hash = Hash(config.pepper, call[r].bearer)
        /\ rows[who[r]].service = call[r].service
        /\ call[r].service \in config.services

(* The rows, read slot by slot, are the registry.                          *)

Slots == Users \X Services \X Labels

HolderOf(s) ==
    IF \E k \in KeyIds : Active(k) /\ Slot(k) = s
    THEN CHOOSE k \in KeyIds : Active(k) /\ Slot(k) = s
    ELSE None

RevokedKeys == {k \in KeyIds : Stored(k) /\ rows[k].revoked}

Registry == INSTANCE KeyRegistry
    WITH Free <- None,
         holder <- [s \in Slots |-> HolderOf(s)],
         retired <- RevokedKeys

\* The tables and their racing handlers implement the registry.
RegistrySpec == Registry!Spec
=============================================================================
