------------------------------ MODULE AuthFlow ------------------------------
(***************************************************************************)
(* Login and logout: the /api/auth handlers, the identity provider as they *)
(* use it, and the browser whose tabs run through them side by side while  *)
(* sharing one cookie store.                                               *)
(*                                                                         *)
(* The server keeps nothing between the redirect to the provider and the   *)
(* callback: state, nonce and PKCE verifier travel in the flow cookie.     *)
(* They are drawn together and checked together, so one flow id stands for *)
(* the three.                                                              *)
(***************************************************************************)
EXTENDS Naturals

CONSTANTS
    Tabs,
    Flows,      \* (csrf, nonce, PKCE verifier) triples
    Codes,      \* authorization codes
    Sids,       \* session ids
    Subjects,   \* the provider's users
    Allowed,    \* those whose e-mail domain is in allowed_email_domains
    Name,       \* a display name; the provider may send none
    None

ASSUME AllowedAssumption == Allowed \subseteq Subjects
(* A cookie is stored under its name and path.  A Set-Cookie without a path *)
(* gets the directory of the request path, and /api/auth is not /api/auth/. *)
FlowCookie       == <<"pietro_flow", "/api/auth/">>
SessionCookie    == <<"pietro_session", "/">>
DefaultPath(c)   == <<c[1], "/api/auth">>
CookieKeys == {FlowCookie, SessionCookie, DefaultPath(FlowCookie), DefaultPath(SessionCookie)}

Grant   == [flow : Flows, sub : Subjects, name : {Name, None}, used : BOOLEAN]
Profile == [name : {Name, None}]
Session == [user : Subjects, code : Codes]

ASSUME NoneAssumption ==
    /\ None \notin Flows \cup Codes \cup Sids \cup Subjects \cup {Name}
    /\ None \notin Grant \cup Profile \cup Session

VARIABLES
    cookies,    \* the browser's store
    stage,      \* where each tab is
    flow,       \* the state parameter in its address bar
    code,       \* the code in its address bar
    sid,        \* the session its request created, or asked to log out
    grants,     \* the provider: the codes it has issued
    users,      \* the users table
    sessions,   \* the sessions table
    ended       \* history: the sessions whose logout was answered 204

tabvars == <<flow, code, sid>>
vars == <<cookies, stage, flow, code, sid, grants, users, sessions, ended>>

InServer == {"exchange", "upsert", "session", "reply", "logout", "bye"}

Goto(t, s) == stage' = [stage EXCEPT ![t] = s]

-----------------------------------------------------------------------------
Init ==
    /\ cookies = [c \in CookieKeys |-> None]
    /\ stage = [t \in Tabs |-> "app"]
    /\ flow = [t \in Tabs |-> None]
    /\ code = [t \in Tabs |-> None]
    /\ sid = [t \in Tabs |-> None]
    /\ grants = [c \in Codes |-> None]
    /\ users = [u \in Subjects |-> None]
    /\ sessions = [s \in Sids |-> None]
    /\ ended = {}

(* GET /api/auth/login: a fresh triple, the flow cookie, and off to the     *)
(* provider.  A second login overwrites the cookie of the first.            *)
Login(t, f) ==
    /\ stage[t] = "app"
    /\ \A u \in Tabs : flow[u] # f
    /\ \A c \in Codes : grants[c] # None => grants[c].flow # f
    /\ cookies' = [cookies EXCEPT ![FlowCookie] = f]
    /\ flow' = [flow EXCEPT ![t] = f]
    /\ code' = [code EXCEPT ![t] = None]
    /\ Goto(t, "idp")
    /\ UNCHANGED <<sid, grants, users, sessions, ended>>

\* The flow cookie's five minutes are over.
FlowExpires ==
    /\ cookies[FlowCookie] # None
    /\ cookies' = [cookies EXCEPT ![FlowCookie] = None]
    /\ UNCHANGED <<stage, tabvars, grants, users, sessions, ended>>

(* The provider authenticates someone and redirects with a code, or with an *)
(* error, which the callback turns into a 401 before it looks at a cookie.  *)
Authenticate(t, c, u, n) ==
    /\ stage[t] = "idp"
    /\ grants[c] = None
    /\ grants' = [grants EXCEPT ![c] = [flow |-> flow[t], sub |-> u, name |-> n, used |-> FALSE]]
    /\ code' = [code EXCEPT ![t] = c]
    /\ Goto(t, "returning")
    /\ UNCHANGED <<cookies, flow, sid, users, sessions, ended>>

IdpRefuses(t) ==
    /\ stage[t] = "idp"
    /\ Goto(t, "app")
    /\ UNCHANGED <<cookies, tabvars, grants, users, sessions, ended>>

\* The user goes back to the provider's page, or reloads the callback.
GoBack(t) ==
    /\ stage[t] = "app" /\ flow[t] # None
    /\ \/ Goto(t, "idp")
       \/ code[t] # None /\ Goto(t, "returning")
    /\ UNCHANGED <<cookies, tabvars, grants, users, sessions, ended>>

(* GET /api/auth/callback                                                   *)

\* 400 without the flow cookie, 401 with another flow's; no cookie changes.
Callback(t) ==
    /\ stage[t] = "returning"
    /\ \/ cookies[FlowCookie] # flow[t] /\ Goto(t, "app")
       \/ cookies[FlowCookie] = flow[t] /\ Goto(t, "exchange")
    /\ UNCHANGED <<cookies, tabvars, grants, users, sessions, ended>>

\* The provider's view: the code is unused, and the verifier is its flow's.
Redeemable(g, f) == g.flow = f /\ ~g.used

\* Bug: a code that was already exchanged is let through.
ExchangeAgain(t) ==
    /\ stage[t] = "exchange"
    /\ Goto(t, IF grants[code[t]].sub \in Allowed THEN "upsert" ELSE "app")
    /\ UNCHANGED <<cookies, tabvars, grants, users, sessions, ended>>

\* Bug: the e-mail allowlist is not enforced.
ExchangeAnyone(t) ==
    /\ stage[t] = "exchange"
    /\ Redeemable(grants[code[t]], flow[t])
    /\ grants' = [grants EXCEPT ![code[t]].used = TRUE]
    /\ Goto(t, "upsert")
    /\ UNCHANGED <<cookies, tabvars, users, sessions, ended>>

\* The provider takes a code once, from whoever holds its PKCE verifier; the
\* token carries the nonce.  401 on any failure, 403 for a domain not allowed.
Exchange(t) ==
    LET g == grants[code[t]] IN
    /\ stage[t] = "exchange"
    /\ \/ ~Redeemable(g, flow[t]) /\ Goto(t, "app") /\ UNCHANGED grants
       \/ /\ Redeemable(g, flow[t])
          /\ grants' = [grants EXCEPT ![code[t]].used = TRUE]
          /\ Goto(t, IF g.sub \in Allowed THEN "upsert" ELSE "app")
    /\ UNCHANGED <<cookies, tabvars, users, sessions, ended>>

\* The provider is down, or its answer is lost after it has taken the code.
ExchangeFails(t) ==
    /\ stage[t] = "exchange"
    /\ \/ UNCHANGED grants
       \/ grants' = [grants EXCEPT ![code[t]].used = TRUE]
    /\ Goto(t, "app")
    /\ UNCHANGED <<cookies, tabvars, users, sessions, ended>>

UpsertUser(t) ==
    LET g == grants[code[t]]
        known == users[g.sub] IN
    /\ stage[t] = "upsert"
    /\ users' = [users EXCEPT ![g.sub] =
                   [name |-> IF g.name = None /\ known # None THEN known.name ELSE g.name]]
    /\ Goto(t, "session")
    /\ UNCHANGED <<cookies, tabvars, grants, sessions, ended>>

\* Bug: the answer does not learn the id of the row.
CreateSessionUnsent(t, s) ==
    /\ stage[t] = "session"
    /\ sessions[s] = None /\ s \notin ended
    /\ sessions' = [sessions EXCEPT ![s] = [user |-> grants[code[t]].sub, code |-> code[t]]]
    /\ Goto(t, "reply")
    /\ UNCHANGED <<cookies, tabvars, grants, users, ended>>

CreateSession(t, s) ==
    /\ stage[t] = "session"
    /\ sessions[s] = None /\ s \notin ended /\ \A u \in Tabs : sid[u] # s
    /\ cookies[SessionCookie] # s
    /\ sessions' = [sessions EXCEPT ![s] = [user |-> grants[code[t]].sub, code |-> code[t]]]
    /\ sid' = [sid EXCEPT ![t] = s]
    /\ Goto(t, "reply")
    /\ UNCHANGED <<cookies, flow, code, grants, users, ended>>

\* The redirect home sets the session cookie; its removal of the flow cookie
\* names no path.
LoginDelivered(t) ==
    /\ stage[t] = "reply"
    /\ cookies' = [cookies EXCEPT ![SessionCookie] = sid[t],
                                  ![DefaultPath(FlowCookie)] = None]
    /\ sid' = [sid EXCEPT ![t] = None]
    /\ Goto(t, "app")
    /\ UNCHANGED <<flow, code, grants, users, sessions, ended>>

(* POST /api/auth/logout                                                    *)

\* The cookie may be gone by now: another tab has logged out.
LogoutSent(t) ==
    /\ stage[t] = "app"
    /\ sid' = [sid EXCEPT ![t] = cookies[SessionCookie]]
    /\ Goto(t, "logout")
    /\ UNCHANGED <<cookies, flow, code, grants, users, sessions, ended>>

\* Bugs: only the cookie is cleared; every session of the user is deleted.
LogoutCookieOnly(t) ==
    /\ stage[t] = "logout"
    /\ ended' = ended \cup ({sid[t]} \ {None})
    /\ Goto(t, "bye")
    /\ UNCHANGED <<cookies, tabvars, grants, users, sessions>>
LogoutEverywhere(t) ==
    /\ stage[t] = "logout"
    /\ sessions' = [s \in Sids |->
                      IF sid[t] \in Sids /\ sessions[s] # None /\ sessions[sid[t]] # None
                          /\ sessions[s].user = sessions[sid[t]].user
                      THEN None ELSE sessions[s]]
    /\ ended' = ended \cup ({sid[t]} \ {None})
    /\ Goto(t, "bye")
    /\ UNCHANGED <<cookies, tabvars, grants, users>>

Logout(t) ==
    /\ stage[t] = "logout"
    /\ sessions' = [s \in Sids |-> IF s = sid[t] THEN None ELSE sessions[s]]
    /\ ended' = ended \cup ({sid[t]} \ {None})
    /\ Goto(t, "bye")
    /\ UNCHANGED <<cookies, tabvars, grants, users>>

\* The answer clears the session cookie, whichever session it names by now.
LogoutDelivered(t) ==
    /\ stage[t] = "bye"
    /\ cookies' = [cookies EXCEPT ![SessionCookie] = None,
                                  ![DefaultPath(SessionCookie)] = None]
    /\ sid' = [sid EXCEPT ![t] = None]
    /\ Goto(t, "app")
    /\ UNCHANGED <<flow, code, grants, users, sessions, ended>>

(* A statement fails with a 500, an answer is lost, the tab is navigated    *)
(* away, the server stops: the browser learns nothing and keeps its cookies. *)
Fails(t) ==
    /\ stage[t] \in InServer \ {"exchange"}
    /\ sid' = [sid EXCEPT ![t] = None]
    /\ Goto(t, "app")
    /\ UNCHANGED <<cookies, flow, code, grants, users, sessions, ended>>

Serve(t) ==
    \/ Callback(t) \/ Exchange(t) \/ UpsertUser(t)
    \/ \E s \in Sids : CreateSession(t, s)
    \/ LoginDelivered(t)
    \/ Logout(t) \/ LogoutDelivered(t)

Next ==
    \/ FlowExpires
    \/ \E t \in Tabs :
        \/ Serve(t) \/ ExchangeFails(t) \/ Fails(t)
        \/ \E f \in Flows : Login(t, f)
        \/ \E c \in Codes, u \in Subjects, n \in {Name, None} : Authenticate(t, c, u, n)
        \/ IdpRefuses(t) \/ GoBack(t) \/ LogoutSent(t)

Spec == Init /\ [][Next]_vars

-----------------------------------------------------------------------------
(* Properties                                                              *)

\* Rows, cookies and tabs hold what their types say, and a tab in the callback
\* has a flow and a code of that flow.
TypeOK ==
    /\ cookies \in [CookieKeys -> Flows \cup Sids \cup {None}]
    /\ stage \in [Tabs -> InServer \cup {"app", "idp", "returning"}]
    /\ flow \in [Tabs -> Flows \cup {None}]
    /\ code \in [Tabs -> Codes \cup {None}]
    /\ sid \in [Tabs -> Sids \cup {None}]
    /\ grants \in [Codes -> Grant \cup {None}]
    /\ users \in [Subjects -> Profile \cup {None}]
    /\ sessions \in [Sids -> Session \cup {None}]
    /\ ended \subseteq Sids
    /\ \A t \in Tabs :
        /\ code[t] # None => grants[code[t]] # None /\ grants[code[t]].flow = flow[t]
        /\ stage[t] \in {"returning", "exchange", "upsert", "session", "reply"}
              => code[t] # None
        /\ stage[t] = "reply" => sid[t] # None

\* A session whose logout was answered is gone for good, whatever logins and
\* logouts of other tabs are under way.
LogoutIsFinal == \A s \in ended : sessions[s] = None

\* A login that is answered with a session cookie has its row, and no logout of
\* another tab takes it before the browser has the cookie; and whatever failed on
\* the way, a session belongs to a stored user whom the allowlist admits.
LoginHolds ==
    /\ \A t \in Tabs : stage[t] = "reply" => sessions[sid[t]] # None
    /\ \A s \in Sids : sessions[s] # None =>
        users[sessions[s].user] # None /\ sessions[s].user \in Allowed

\* "drop the flow cookie": when the answer to a login has arrived, the browser
\* no longer holds the cookie of that login's flow.
FlowCookieDropped ==
    [][\A t \in Tabs :
        stage[t] = "reply" /\ cookies'[SessionCookie] = sid[t]
            => cookies'[FlowCookie] # flow[t]]_vars

(* Tabs, grants and session rows, read code by code, are the ledger.       *)

Redeemed == {c \in Codes : grants[c] # None /\ grants[c].used}

\* Past the exchange and before the session's INSERT.
Owed == {code[t] : t \in {u \in Tabs : stage[u] \in {"upsert", "session"}}}

CodeOf(s) == IF sessions[s] = None THEN None ELSE sessions[s].code

Ledger == INSTANCE LoginLedger
    WITH NoCode <- None,
         redeemed <- Redeemed,
         owed <- Owed,
         live <- [s \in Sids |-> CodeOf(s)]

\* However tabs reload the callback, go back, interleave and fail, a code logs
\* in once at most, also after its session has ended, and only its own login's
\* INSERT makes a session of it; no row goes but by a logout that named it.
LedgerSpec == Ledger!Spec
=============================================================================
