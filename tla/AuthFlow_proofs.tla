---------------------------- MODULE AuthFlow_proofs ----------------------------
(***************************************************************************)
(* What login and logout guarantee for any number of tabs, flows, codes,   *)
(* sessions and users.                                                     *)
(***************************************************************************)
EXTENDS AuthFlow, TLAPS

-----------------------------------------------------------------------------
(* Types                                                                   *)

\* The four names the browser may store; none but its own touches the session's.
LEMMA CookieNames ==
    /\ {FlowCookie, SessionCookie, DefaultPath(FlowCookie), DefaultPath(SessionCookie)}
          \subseteq CookieKeys
    /\ SessionCookie \notin {FlowCookie, DefaultPath(FlowCookie), DefaultPath(SessionCookie)}
  BY DEF CookieKeys, FlowCookie, SessionCookie, DefaultPath

LEMMA NoneIsOther ==
    /\ None \notin Flows /\ None \notin Codes /\ None \notin Sids
    /\ None \notin Grant /\ None \notin Profile /\ None \notin Session
  BY NoneAssumption

\* What TypeOK needs to be inductive: the session cookie names a session, and a
\* tab at the provider carries a flow.
Typed ==
    /\ TypeOK
    /\ cookies[SessionCookie] \in Sids \cup {None}
    /\ \A t \in Tabs : stage[t] = "idp" => flow[t] # None

LEMMA UsedGrant ==
    ASSUME NEW g \in Grant
    PROVE  LET h == [g EXCEPT !.used = TRUE] IN
           h \in Grant /\ h.used /\ h.flow = g.flow /\ h.sub = g.sub
  BY DEF Grant

\* The exchange marks the code of its tab and nothing else.
LEMMA TakenCode ==
    ASSUME Typed, NEW t \in Tabs, stage[t] = "exchange",
           grants' = [grants EXCEPT ![code[t]].used = TRUE]
    PROVE  /\ code[t] \in Codes /\ grants[code[t]] \in Grant
           /\ grants'[code[t]] \in Grant /\ grants'[code[t]].used
           /\ grants'[code[t]].flow = grants[code[t]].flow
           /\ grants'[code[t]].sub = grants[code[t]].sub
           /\ \A c \in Codes \ {code[t]} : grants'[c] = grants[c]
           /\ grants' \in [Codes -> Grant \cup {None}]
<1>1. code[t] \in Codes /\ grants[code[t]] \in Grant
  BY DEF Typed, TypeOK
<1>2. grants'[code[t]] = [grants[code[t]] EXCEPT !.used = TRUE]
  BY <1>1 DEF Typed, TypeOK
<1>3. grants'[code[t]] \in Grant /\ grants'[code[t]].used
      /\ grants'[code[t]].flow = grants[code[t]].flow
      /\ grants'[code[t]].sub = grants[code[t]].sub
  BY <1>1, <1>2, UsedGrant
<1>4. \A c \in Codes \ {code[t]} : grants'[c] = grants[c]
  BY DEF Typed, TypeOK
<1>5. grants' \in [Codes -> Grant \cup {None}]
  BY <1>1, <1>3, <1>4 DEF Typed, TypeOK
<1> QED
  BY <1>1, <1>3, <1>4, <1>5

\* Changes of one tab's stage, with its data left alone.
LEMMA GotoType ==
    ASSUME Typed, NEW t \in Tabs, NEW s \in InServer \cup {"app", "idp", "returning"},
           Goto(t, s), flow' = flow, code' = code,
           sid' = sid \/ (s # "reply" /\ sid' = [sid EXCEPT ![t] = None]),
           s \in {"returning", "exchange", "upsert", "session"} => code[t] # None,
           s = "reply" => sid[t] # None /\ code[t] # None, s = "idp" => flow[t] # None
    PROVE  /\ stage' \in [Tabs -> InServer \cup {"app", "idp", "returning"}]
           /\ sid' \in [Tabs -> Sids \cup {None}]
           /\ \A u \in Tabs :
                /\ stage'[u] \in {"returning", "exchange", "upsert", "session", "reply"}
                      => code'[u] # None
                /\ stage'[u] = "reply" => sid'[u] # None
                /\ stage'[u] = "idp" => flow'[u] # None
  BY DEF Typed, TypeOK, Goto

CodesOfFlows(g) ==
    \A t \in Tabs : code[t] # None => g[code[t]] # None /\ g[code[t]].flow = flow[t]

LEMMA TakenCodeFlows ==
    ASSUME Typed, NEW t \in Tabs, stage[t] = "exchange",
           grants' = [grants EXCEPT ![code[t]].used = TRUE]
    PROVE  CodesOfFlows(grants')
<1>1. ASSUME NEW u \in Tabs, code[u] # None
      PROVE  grants'[code[u]] # None /\ grants'[code[u]].flow = flow[u]
  <2>1. code[u] \in Codes /\ grants[code[u]] # None /\ grants[code[u]].flow = flow[u]
    BY <1>1 DEF Typed, TypeOK
  <2> QED
    BY <2>1, TakenCode, NoneIsOther
<1> QED
  BY <1>1 DEF CodesOfFlows

LEMMA TypedAlways == Spec => []Typed
<1>1. Init => Typed
  BY CookieNames DEF Init, Typed, TypeOK
<1>2. Typed /\ [Next]_vars => Typed'
  <2> SUFFICES ASSUME Typed, [Next]_vars PROVE Typed'
    OBVIOUS
  <2>1. CASE UNCHANGED vars
    BY <2>1 DEF vars, tabvars, Typed, TypeOK
  <2>2. CASE FlowExpires
    BY <2>2, CookieNames DEF FlowExpires, tabvars, Typed, TypeOK
  <2>3. ASSUME NEW t \in Tabs, Callback(t) PROVE Typed'
    BY <2>3, GotoType DEF Callback, tabvars, Typed, TypeOK, InServer
  <2>4. ASSUME NEW t \in Tabs, Exchange(t) \/ ExchangeFails(t) PROVE Typed'
    <3>1. PICK s \in {"app", "upsert"} : Goto(t, s)
      BY <2>4 DEF Exchange, ExchangeFails
    <3>2. stage[t] = "exchange" /\ code[t] # None
      BY <2>4 DEF Exchange, ExchangeFails, Typed, TypeOK
    <3>3. /\ grants' \in [Codes -> Grant \cup {None}]
          /\ CodesOfFlows(grants')
      <4>1. grants' = grants \/ grants' = [grants EXCEPT ![code[t]].used = TRUE]
        BY <2>4 DEF Exchange, ExchangeFails
      <4> QED
        BY <3>2, <4>1, TakenCode, TakenCodeFlows DEF CodesOfFlows, Typed, TypeOK
    <3> QED
      BY <2>4, <3>1, <3>2, <3>3, GotoType
         DEF Exchange, ExchangeFails, tabvars, Typed, TypeOK, InServer, CodesOfFlows
  <2>5. ASSUME NEW t \in Tabs, UpsertUser(t) PROVE Typed'
    <3>1. users' \in [Subjects -> Profile \cup {None}]
      <4>1. grants[code[t]] \in Grant
        BY <2>5 DEF UpsertUser, Typed, TypeOK
      <4> QED
        BY <2>5, <4>1 DEF UpsertUser, Typed, TypeOK, Grant, Profile
    <3> QED
      BY <2>5, <3>1, GotoType DEF UpsertUser, tabvars, Typed, TypeOK, InServer
  <2>6. ASSUME NEW t \in Tabs, NEW s \in Sids, CreateSession(t, s) PROVE Typed'
    <3>1. grants[code[t]] \in Grant /\ code[t] \in Codes
      BY <2>6 DEF CreateSession, Typed, TypeOK
    <3>2. [user |-> grants[code[t]].sub, code |-> code[t]] \in Session
      BY <3>1 DEF Grant, Session
    <3>3. sessions' \in [Sids -> Session \cup {None}]
      BY <2>6, <3>2 DEF CreateSession, Typed, TypeOK
    <3> QED
      BY <2>6, <3>1, <3>3, NoneIsOther DEF CreateSession, Goto, Typed, TypeOK, InServer
  <2>7. ASSUME NEW t \in Tabs, LoginDelivered(t) PROVE Typed'
    <3>1. sid[t] \in Sids
      BY <2>7 DEF LoginDelivered, Typed, TypeOK
    <3>2. cookies' \in [CookieKeys -> Flows \cup Sids \cup {None}]
          /\ cookies'[SessionCookie] \in Sids
      BY <2>7, <3>1, CookieNames DEF LoginDelivered, Typed, TypeOK
    <3> QED
      BY <2>7, <3>2, GotoType DEF LoginDelivered, Typed, TypeOK, InServer
  <2>8. ASSUME NEW t \in Tabs, Logout(t) PROVE Typed'
    <3>1. sid[t] \in Sids \cup {None}
      BY DEF Typed, TypeOK
    <3>2. ended' \subseteq Sids /\ sessions' \in [Sids -> Session \cup {None}]
      BY <2>8, <3>1 DEF Logout, Typed, TypeOK
    <3> QED
      BY <2>8, <3>2, GotoType DEF Logout, tabvars, Typed, TypeOK, InServer
  <2>9. ASSUME NEW t \in Tabs, LogoutDelivered(t) PROVE Typed'
    <3>1. cookies' \in [CookieKeys -> Flows \cup Sids \cup {None}]
          /\ cookies'[SessionCookie] = None
      BY <2>9, CookieNames DEF LogoutDelivered, Typed, TypeOK
    <3> QED
      BY <2>9, <3>1, GotoType DEF LogoutDelivered, Typed, TypeOK, InServer
  <2>10. ASSUME NEW t \in Tabs, Fails(t) PROVE Typed'
    BY <2>10, GotoType DEF Fails, Typed, TypeOK, InServer
  <2>11. ASSUME NEW t \in Tabs, NEW f \in Flows, Login(t, f) PROVE Typed'
    BY <2>11, CookieNames, NoneIsOther DEF Login, Goto, Typed, TypeOK, InServer
  <2>12. ASSUME NEW t \in Tabs, NEW c \in Codes, NEW u \in Subjects,
                NEW n \in {Name, None}, Authenticate(t, c, u, n)
         PROVE  Typed'
    <3>1. flow[t] \in Flows
      BY <2>12 DEF Authenticate, Typed, TypeOK
    <3>2. [flow |-> flow[t], sub |-> u, name |-> n, used |-> FALSE] \in Grant
      BY <3>1 DEF Grant
    <3>3. /\ grants' \in [Codes -> Grant \cup {None}]
          /\ grants'[c] # None /\ grants'[c].flow = flow[t]
          /\ \A d \in Codes \ {c} : grants'[d] = grants[d]
      BY <2>12, <3>2, NoneIsOther DEF Authenticate, Typed, TypeOK
    <3>4. CodesOfFlows(grants)'
      <4>1. ASSUME NEW v \in Tabs, code'[v] # None
            PROVE  grants'[code'[v]] # None /\ grants'[code'[v]].flow = flow'[v]
        <5>1. CASE v = t
          BY <2>12, <3>3, <5>1 DEF Authenticate, Typed, TypeOK
        <5>2. CASE v # t
          <6>1. code'[v] = code[v] /\ code[v] \in Codes \ {c} /\ flow' = flow
            BY <2>12, <4>1, <5>2 DEF Authenticate, Typed, TypeOK
          <6> QED
            BY <3>3, <4>1, <5>2, <6>1 DEF Typed, TypeOK
        <5> QED
          BY <5>1, <5>2
      <4> QED
        BY <4>1 DEF CodesOfFlows
    <3> QED
      BY <2>12, <3>3, <3>4, NoneIsOther
         DEF Authenticate, Goto, Typed, TypeOK, InServer, CodesOfFlows
  <2>13. ASSUME NEW t \in Tabs, IdpRefuses(t) \/ GoBack(t) PROVE Typed'
    BY <2>13, GotoType DEF IdpRefuses, GoBack, tabvars, Typed, TypeOK, InServer
  <2>14. ASSUME NEW t \in Tabs, LogoutSent(t) PROVE Typed'
    BY <2>14 DEF LogoutSent, Goto, Typed, TypeOK, InServer
  <2> QED
    BY <2>1, <2>2, <2>3, <2>4, <2>5, <2>6, <2>7, <2>8, <2>9, <2>10, <2>11, <2>12,
       <2>13, <2>14 DEF Next, Serve
<1> QED
  BY <1>1, <1>2, PTL DEF Spec

\* TypeOK: what the tables, the cookies and the tabs may ever hold.
THEOREM TypeCorrect == Spec => []TypeOK
<1>1. Typed => TypeOK
  BY DEF Typed
<1> QED
  BY <1>1, TypedAlways, PTL

-----------------------------------------------------------------------------
(* Tables and grants only grow, but for the sessions                       *)

\* A code the provider has issued stays issued for the same flow and user, and
\* once redeemed it stays so.
LEMMA GrantKept ==
    ASSUME Typed, [Next]_vars, NEW c \in Codes, grants[c] # None
    PROVE  /\ grants'[c] # None /\ grants'[c].sub = grants[c].sub
           /\ grants[c].used => grants'[c].used
<1>1. CASE grants' = grants
  BY <1>1
<1>2. ASSUME NEW t \in Tabs, stage[t] = "exchange",
             grants' = [grants EXCEPT ![code[t]].used = TRUE]
      PROVE  /\ grants'[c] # None /\ grants'[c].sub = grants[c].sub
             /\ grants[c].used => grants'[c].used
  BY <1>2, TakenCode, NoneIsOther
<1>3. ASSUME NEW t \in Tabs, NEW d \in Codes, NEW u, NEW n, Authenticate(t, d, u, n)
      PROVE  grants'[c] = grants[c]
  BY <1>3 DEF Authenticate, Typed, TypeOK
<1>4. ASSUME NEW t \in Tabs, Exchange(t) \/ ExchangeFails(t)
      PROVE  /\ stage[t] = "exchange"
             /\ grants' = grants \/ grants' = [grants EXCEPT ![code[t]].used = TRUE]
  BY <1>4 DEF Exchange, ExchangeFails
<1>5. ASSUME NEW t \in Tabs, Serve(t), ~Exchange(t) PROVE grants' = grants
  BY <1>5 DEF Serve, Callback, UpsertUser, CreateSession, LoginDelivered, Logout,
     LogoutDelivered
<1>6. ASSUME NEW t \in Tabs,
             \/ Fails(t) \/ IdpRefuses(t) \/ GoBack(t) \/ LogoutSent(t)
             \/ \E f \in Flows : Login(t, f)
      PROVE  grants' = grants
  BY <1>6 DEF Fails, IdpRefuses, GoBack, LogoutSent, Login
<1>7. FlowExpires \/ UNCHANGED vars => grants' = grants
  BY DEF FlowExpires, vars
<1> QED
  BY <1>1, <1>2, <1>3, <1>4, <1>5, <1>6, <1>7 DEF Next

LEMMA UserKept ==
    ASSUME Typed, [Next]_vars, NEW u \in Subjects, users[u] # None
    PROVE  users'[u] # None
<1>1. ASSUME NEW t \in Tabs, UpsertUser(t) PROVE users'[u] # None
  <2>1. grants[code[t]] \in Grant
    BY <1>1 DEF UpsertUser, Typed, TypeOK
  <2>2. \/ users'[u] = users[u]
        \/ \E n \in {Name, None} : users'[u] = [name |-> n]
    <3>1. \A v \in Subjects : users[v] # None => users[v].name \in {Name, None}
      BY DEF Typed, TypeOK, Profile
    <3> QED
      BY <1>1, <2>1, <3>1 DEF UpsertUser, Typed, TypeOK, Grant
  <2>3. \A n \in {Name, None} : [name |-> n] \in Profile
    BY DEF Profile
  <2> QED
    BY <2>2, <2>3, NoneIsOther
<1>2. ASSUME NEW t \in Tabs, Serve(t), ~UpsertUser(t) PROVE users' = users
  BY <1>2 DEF Serve, Callback, Exchange, CreateSession, LoginDelivered, Logout,
     LogoutDelivered, tabvars
<1>3. ASSUME NEW t \in Tabs,
             \/ Fails(t) \/ ExchangeFails(t) \/ IdpRefuses(t) \/ GoBack(t) \/ LogoutSent(t)
             \/ \E f \in Flows : Login(t, f)
             \/ \E c \in Codes, v \in Subjects, n \in {Name, None} : Authenticate(t, c, v, n)
      PROVE  users' = users
  BY <1>3 DEF Fails, ExchangeFails, IdpRefuses, GoBack, LogoutSent, Login, Authenticate
<1> QED
  BY <1>1, <1>2, <1>3 DEF Next, FlowExpires, vars

-----------------------------------------------------------------------------
(* The inductive invariant                                                 *)

InLogin(t) == stage[t] \in {"upsert", "session"}

\* A tab past the exchange has redeemed its code for a user the allowlist
\* admits, and past the upsert that user is stored.
Admitted ==
    \A t \in Tabs :
        /\ InLogin(t) => grants[code[t]].used /\ grants[code[t]].sub \in Allowed
        /\ stage[t] = "session" => users[grants[code[t]].sub] # None

\* One tab alone is logging in with a code, and only until the code's session
\* is there.
OneLoginPerCode ==
    /\ \A t, u \in Tabs : InLogin(t) /\ InLogin(u) /\ code[t] = code[u] => t = u
    /\ \A t \in Tabs, s \in Sids :
        InLogin(t) /\ sessions[s] # None => sessions[s].code # code[t]

\* A session was issued for a redeemed code, to a stored user who is admitted.
SessionsAreGranted ==
    \A s \in Sids : sessions[s] # None =>
        /\ grants[sessions[s].code] # None /\ grants[sessions[s].code].used
        /\ users[sessions[s].user] # None /\ sessions[s].user \in Allowed

\* Until the answer to a login arrives, its session id is nobody else's, so no
\* logout can name it.
RepliesAreOwn ==
    \A t \in Tabs : stage[t] = "reply" =>
        /\ sessions[sid[t]] # None
        /\ cookies[SessionCookie] # sid[t]
        /\ \A u \in Tabs \ {t} : sid[u] # sid[t]

\* The stored sessions are of different codes.
CodesLogInOnce ==
    \A r, s \in Sids :
        sessions[r] # None /\ sessions[s] # None /\ sessions[r].code = sessions[s].code
            => r = s

\* What the browser or a request names is a session that is there, or one whose
\* logout was answered.
NamesAreIssued ==
    \A s \in Sids :
        cookies[SessionCookie] = s \/ (\E t \in Tabs : sid[t] = s)
            => sessions[s] # None \/ s \in ended

IInv == Admitted /\ OneLoginPerCode /\ SessionsAreGranted /\ RepliesAreOwn
            /\ CodesLogInOnce /\ LogoutIsFinal /\ NamesAreIssued

\* How a step leaves a tab in the middle of a login: there since before, or just
\* past its exchange or its upsert.
LEMMA LoginSteps ==
    ASSUME Typed, [Next]_vars, NEW t \in Tabs, InLogin(t)'
    PROVE  /\ code'[t] = code[t] /\ code[t] \in Codes /\ grants[code[t]] \in Grant
           /\ \/ InLogin(t) /\ stage'[t] = stage[t]
              \/ /\ stage[t] = "exchange" /\ stage'[t] = "upsert" /\ sessions' = sessions
                 /\ ~grants[code[t]].used
                 /\ grants'[code[t]].used /\ grants'[code[t]].sub \in Allowed
                 /\ \A u \in Tabs \ {t} : stage'[u] = stage[u] /\ code'[u] = code[u]
              \/ /\ UpsertUser(t) /\ stage'[t] = "session"
<1> DEFINE Stayed == InLogin(t) /\ stage'[t] = stage[t] /\ code'[t] = code[t]
           Exchanged == /\ stage[t] = "exchange" /\ stage'[t] = "upsert" /\ sessions' = sessions
                        /\ code'[t] = code[t] /\ ~grants[code[t]].used
                        /\ grants'[code[t]].used /\ grants'[code[t]].sub \in Allowed
                        /\ \A u \in Tabs \ {t} : stage'[u] = stage[u] /\ code'[u] = code[u]
           Upserted == UpsertUser(t) /\ stage'[t] = "session" /\ code'[t] = code[t]
<1>1. ASSUME NEW u \in Tabs, Exchange(u) PROVE Stayed \/ Exchanged
  <2>1. CASE u = t
    <3>1. /\ Redeemable(grants[code[t]], flow[t]) /\ grants[code[t]].sub \in Allowed
          /\ grants' = [grants EXCEPT ![code[t]].used = TRUE] /\ stage[t] = "exchange"
      BY <1>1, <2>1 DEF Exchange, Goto, InLogin, Typed, TypeOK
    <3> QED
      BY <1>1, <2>1, <3>1, TakenCode
         DEF Exchange, Goto, InLogin, Redeemable, tabvars, Typed, TypeOK
  <2>2. CASE u # t
    BY <1>1, <2>2 DEF Exchange, Goto, InLogin, tabvars, Typed, TypeOK
  <2> QED
    BY <2>1, <2>2
<1>2. ASSUME NEW u \in Tabs, UpsertUser(u) PROVE Stayed \/ Upserted
  BY <1>2 DEF UpsertUser, Goto, InLogin, tabvars, Typed, TypeOK
<1>3. ASSUME NEW u \in Tabs, Serve(u), ~Exchange(u), ~UpsertUser(u) PROVE Stayed
  BY <1>3 DEF Serve, Callback, CreateSession, LoginDelivered, Logout, LogoutDelivered,
     Goto, InLogin, tabvars, Typed, TypeOK
<1>4. ASSUME NEW u \in Tabs,
             \/ Fails(u) \/ ExchangeFails(u) \/ IdpRefuses(u) \/ GoBack(u) \/ LogoutSent(u)
             \/ \E f \in Flows : Login(u, f)
             \/ \E c \in Codes, v \in Subjects, n \in {Name, None} : Authenticate(u, c, v, n)
      PROVE  Stayed
  BY <1>4 DEF Fails, ExchangeFails, IdpRefuses, GoBack, LogoutSent, Login, Authenticate,
     Goto, InLogin, tabvars, Typed, TypeOK
<1>5. FlowExpires \/ UNCHANGED vars => Stayed
  BY DEF FlowExpires, vars, tabvars, InLogin
<1>6. Stayed \/ Exchanged \/ Upserted
  BY <1>1, <1>2, <1>3, <1>4, <1>5 DEF Next
<1>7. code[t] \in Codes /\ grants[code[t]] \in Grant
  BY <1>6 DEF UpsertUser, InLogin, Typed, TypeOK
<1> QED
  BY <1>6, <1>7

\* A session that is there after a step was there before it or was just made.
LEMMA SessionSteps ==
    ASSUME Typed, [Next]_vars, NEW s \in Sids, sessions'[s] # None
    PROVE  \/ sessions'[s] = sessions[s]
           \/ \E t \in Tabs : CreateSession(t, s)
<1>1. ASSUME NEW t \in Tabs, NEW r \in Sids, CreateSession(t, r), r # s
      PROVE  sessions'[s] = sessions[s]
  BY <1>1 DEF CreateSession, Typed, TypeOK
<1>2. ASSUME NEW t \in Tabs, Logout(t) PROVE sessions'[s] = sessions[s]
  BY <1>2 DEF Logout
<1>3. ASSUME NEW t \in Tabs, Serve(t), ~Logout(t), \A r \in Sids : ~CreateSession(t, r)
      PROVE  sessions'[s] = sessions[s]
  BY <1>3 DEF Serve, Callback, Exchange, UpsertUser, LoginDelivered, LogoutDelivered
<1>4. ASSUME NEW t \in Tabs,
             \/ Fails(t) \/ ExchangeFails(t) \/ IdpRefuses(t) \/ GoBack(t) \/ LogoutSent(t)
             \/ \E f \in Flows : Login(t, f)
             \/ \E c \in Codes, v \in Subjects, n \in {Name, None} : Authenticate(t, c, v, n)
      PROVE  sessions'[s] = sessions[s]
  BY <1>4 DEF Fails, ExchangeFails, IdpRefuses, GoBack, LogoutSent, Login, Authenticate
<1> QED
  BY <1>1, <1>2, <1>3, <1>4 DEF Next, Serve, FlowExpires, vars

\* The session a login creates.
LEMMA NewSession ==
    ASSUME Typed, NEW t \in Tabs, NEW s \in Sids, CreateSession(t, s)
    PROVE  /\ code[t] \in Codes /\ grants[code[t]] \in Grant /\ stage[t] = "session"
           /\ sessions[s] = None
           /\ sessions'[s].user = grants[code[t]].sub /\ sessions'[s].code = code[t]
           /\ sessions'[s] \in Session
           /\ \A r \in Sids \ {s} : sessions'[r] = sessions[r]
           /\ grants' = grants /\ users' = users /\ ended' = ended /\ code' = code
           /\ stage'[t] = "reply" /\ s \notin ended
<1>1. code[t] \in Codes /\ grants[code[t]] \in Grant /\ stage[t] = "session"
  BY DEF CreateSession, Typed, TypeOK
<1>2. [user |-> grants[code[t]].sub, code |-> code[t]] \in Session
  BY <1>1 DEF Grant, Session
<1>3. sessions'[s] = [user |-> grants[code[t]].sub, code |-> code[t]]
  BY DEF CreateSession, Typed, TypeOK
<1>4. sessions'[s].user = grants[code[t]].sub /\ sessions'[s].code = code[t]
  BY <1>3
<1> QED
  BY <1>1, <1>2, <1>3, <1>4 DEF CreateSession, Goto, Typed, TypeOK

-----------------------------------------------------------------------------
(* Every step keeps the invariant                                          *)

LEMMA AdmittedSteps == ASSUME Typed, IInv, [Next]_vars PROVE Admitted'
<1> SUFFICES ASSUME NEW t \in Tabs, InLogin(t)'
             PROVE  /\ grants'[code'[t]].used /\ grants'[code'[t]].sub \in Allowed
                    /\ stage'[t] = "session" => users'[grants'[code'[t]].sub] # None
  BY DEF Admitted, InLogin
<1>1. code'[t] = code[t] /\ code[t] \in Codes /\ grants[code[t]] \in Grant
  BY LoginSteps
<1>2. grants[code[t]] # None /\ grants[code[t]].sub \in Subjects
  BY <1>1, NoneIsOther DEF Grant
<1>3. CASE InLogin(t) /\ stage'[t] = stage[t]
  <2>1. grants[code[t]].used /\ grants[code[t]].sub \in Allowed
        /\ (stage[t] = "session" => users[grants[code[t]].sub] # None)
    BY <1>3 DEF IInv, Admitted
  <2>2. grants'[code[t]].used /\ grants'[code[t]].sub = grants[code[t]].sub
    BY <1>1, <1>2, <2>1, GrantKept
  <2>3. stage[t] = "session" => users'[grants[code[t]].sub] # None
    BY <1>2, <2>1, UserKept
  <2> QED
    BY <1>1, <1>3, <2>1, <2>2, <2>3
<1>4. CASE stage'[t] = "upsert" /\ grants'[code[t]].used /\ grants'[code[t]].sub \in Allowed
  BY <1>1, <1>4
<1>5. CASE UpsertUser(t) /\ stage'[t] = "session"
  <2>1. InLogin(t) /\ grants' = grants
    BY <1>5 DEF UpsertUser, InLogin
  <2>2. grants[code[t]].used /\ grants[code[t]].sub \in Allowed
    BY <2>1 DEF IInv, Admitted
  <2>3. users'[grants[code[t]].sub] \in Profile
    <3>1. \A v \in Subjects : users[v] # None => users[v].name \in {Name, None}
      BY DEF Typed, TypeOK, Profile
    <3>2. PICK n \in {Name, None} : users'[grants[code[t]].sub] = [name |-> n]
      BY <1>1, <1>2, <1>5, <3>1 DEF UpsertUser, Typed, TypeOK, Grant
    <3> QED
      BY <3>2 DEF Profile
  <2> QED
    BY <1>1, <2>1, <2>2, <2>3, NoneIsOther
<1> QED
  BY <1>3, <1>4, <1>5, LoginSteps

LEMMA OneLoginPerCodeSteps == ASSUME Typed, IInv, [Next]_vars PROVE OneLoginPerCode'
<1>1. ASSUME NEW t \in Tabs, InLogin(t)' PROVE InLogin(t) \/ ~grants[code[t]].used
  BY <1>1, LoginSteps DEF UpsertUser, InLogin
<1>2. ASSUME NEW t \in Tabs, NEW u \in Tabs, t # u,
             InLogin(t)', InLogin(u)', code'[t] = code'[u]
      PROVE  FALSE
  <2>1. code'[t] = code[t] /\ code'[u] = code[u]
    BY <1>2, LoginSteps
  <2>2. ~(InLogin(t) /\ InLogin(u))
    BY <1>2, <2>1 DEF IInv, OneLoginPerCode
  <2>3. InLogin(t) \/ InLogin(u)
    BY <1>2, LoginSteps DEF UpsertUser, InLogin
  <2>4. CASE InLogin(t) /\ ~InLogin(u)
    BY <1>1, <1>2, <2>1, <2>4 DEF IInv, Admitted
  <2>5. CASE InLogin(u) /\ ~InLogin(t)
    BY <1>1, <1>2, <2>1, <2>5 DEF IInv, Admitted
  <2> QED
    BY <2>2, <2>3, <2>4, <2>5
<1>3. ASSUME NEW t \in Tabs, NEW s \in Sids, InLogin(t)', sessions'[s] # None
      PROVE  sessions'[s].code # code'[t]
  <2>1. code'[t] = code[t]
    BY <1>3, LoginSteps
  <2>2. CASE sessions'[s] = sessions[s]
    <3>1. CASE InLogin(t)
      BY <1>3, <2>1, <2>2, <3>1 DEF IInv, OneLoginPerCode
    <3>2. CASE ~grants[code[t]].used
      BY <1>3, <2>1, <2>2, <3>2 DEF IInv, SessionsAreGranted
    <3> QED
      BY <1>1, <1>3, <3>1, <3>2
  <2>3. ASSUME NEW u \in Tabs, CreateSession(u, s) PROVE sessions'[s].code # code'[t]
    <3>1. sessions'[s].code = code[u] /\ InLogin(u) /\ stage'[u] = "reply" /\ grants' = grants
      BY <2>3, NewSession DEF InLogin
    <3>2. u # t /\ InLogin(t)
      BY <1>3, <2>3, <3>1, LoginSteps DEF InLogin, CreateSession, Goto, Typed, TypeOK
    <3> QED
      BY <2>1, <3>1, <3>2 DEF IInv, OneLoginPerCode
  <2> QED
    BY <1>3, <2>2, <2>3, SessionSteps
<1> QED
  BY <1>2, <1>3 DEF OneLoginPerCode, InLogin

LEMMA SessionsAreGrantedSteps == ASSUME Typed, IInv, [Next]_vars PROVE SessionsAreGranted'
<1> SUFFICES ASSUME NEW s \in Sids, sessions'[s] # None
             PROVE  /\ grants'[sessions'[s].code] # None /\ grants'[sessions'[s].code].used
                    /\ users'[sessions'[s].user] # None /\ sessions'[s].user \in Allowed
  BY DEF SessionsAreGranted
<1>1. CASE sessions'[s] = sessions[s]
  <2>1. sessions[s].code \in Codes /\ sessions[s].user \in Subjects
    BY <1>1 DEF Typed, TypeOK, Session
  <2>2. /\ grants[sessions[s].code] # None /\ grants[sessions[s].code].used
        /\ users[sessions[s].user] # None /\ sessions[s].user \in Allowed
    BY <1>1 DEF IInv, SessionsAreGranted
  <2> QED
    BY <1>1, <2>1, <2>2, GrantKept, UserKept
<1>2. ASSUME NEW t \in Tabs, CreateSession(t, s)
      PROVE  /\ grants'[sessions'[s].code] # None /\ grants'[sessions'[s].code].used
             /\ users'[sessions'[s].user] # None /\ sessions'[s].user \in Allowed
  <2>1. /\ sessions'[s].code = code[t] /\ sessions'[s].user = grants[code[t]].sub
        /\ stage[t] = "session" /\ grants' = grants /\ users' = users
        /\ grants[code[t]] # None
    BY <1>2, NewSession, NoneIsOther
  <2> QED
    BY <2>1 DEF IInv, Admitted, InLogin
<1> QED
  BY <1>1, <1>2, SessionSteps

LEMMA CodesLogInOnceSteps == ASSUME Typed, IInv, [Next]_vars PROVE CodesLogInOnce'
<1> SUFFICES ASSUME NEW r \in Sids, NEW s \in Sids, sessions'[r] # None, sessions'[s] # None,
                    sessions'[r].code = sessions'[s].code, r # s
             PROVE  FALSE
  BY DEF CodesLogInOnce
<1>1. ASSUME NEW t \in Tabs, NEW q \in Sids, NEW o \in Sids, o # q, CreateSession(t, q),
             sessions'[o] # None, sessions'[o].code = sessions'[q].code
      PROVE  FALSE
  <2>1. sessions'[q].code = code[t] /\ InLogin(t) /\ sessions'[o] = sessions[o]
    BY <1>1, NewSession DEF InLogin
  <2> QED
    BY <1>1, <2>1 DEF IInv, OneLoginPerCode
<1>2. CASE sessions'[r] = sessions[r] /\ sessions'[s] = sessions[s]
  BY <1>2 DEF IInv, CodesLogInOnce
<1> QED
  BY <1>1, <1>2, SessionSteps

LEMMA LogoutIsFinalSteps == ASSUME Typed, IInv, [Next]_vars PROVE LogoutIsFinal'
<1> SUFFICES ASSUME NEW s \in ended', sessions'[s] # None PROVE FALSE
  BY DEF LogoutIsFinal
<1>1. ASSUME NEW t \in Tabs, Logout(t) PROVE FALSE
  <2>1. s \in ended \/ s = sid[t]
    BY <1>1 DEF Logout
  <2>2. s \in Sids
    BY <1>1, <2>1 DEF Logout, Typed, TypeOK
  <2>3. s # sid[t] /\ sessions'[s] = sessions[s]
    BY <1>1, <2>2 DEF Logout
  <2> QED
    BY <2>1, <2>3 DEF IInv, LogoutIsFinal
<1>2. CASE ~\E t \in Tabs : Logout(t)
  <2>1. ended' = ended
    <3>1. ASSUME NEW t \in Tabs, Serve(t) PROVE ended' = ended
      BY <1>2, <3>1 DEF Serve, Callback, Exchange, UpsertUser, CreateSession,
         LoginDelivered, LogoutDelivered
    <3>2. ASSUME NEW t \in Tabs,
             \/ Fails(t) \/ ExchangeFails(t) \/ IdpRefuses(t) \/ GoBack(t) \/ LogoutSent(t)
             \/ \E f \in Flows : Login(t, f)
             \/ \E c \in Codes, v \in Subjects, n \in {Name, None} : Authenticate(t, c, v, n)
          PROVE  ended' = ended
      BY <3>2 DEF Fails, ExchangeFails, IdpRefuses, GoBack, LogoutSent, Login, Authenticate
    <3> QED
      BY <3>1, <3>2 DEF Next, FlowExpires, vars
  <2>2. s \in Sids /\ s \in ended
    BY <2>1 DEF Typed, TypeOK
  <2>3. sessions[s] = None
    BY <2>2 DEF IInv, LogoutIsFinal
  <2>4. \A t \in Tabs : ~CreateSession(t, s)
    BY <2>2 DEF CreateSession
  <2> QED
    BY <2>2, <2>3, <2>4, SessionSteps
<1> QED
  BY <1>1, <1>2

\* What stands between a login's answer and the browser.
LEMMA RepliesAreOwnSteps == ASSUME Typed, IInv, [Next]_vars PROVE RepliesAreOwn'
<1> SUFFICES ASSUME NEW t \in Tabs, stage'[t] = "reply"
             PROVE  /\ sessions'[sid'[t]] # None
                    /\ cookies'[SessionCookie] # sid'[t]
                    /\ \A u \in Tabs \ {t} : sid'[u] # sid'[t]
  BY DEF RepliesAreOwn
<1> DEFINE Own == /\ sessions'[sid'[t]] # None
                  /\ cookies'[SessionCookie] # sid'[t]
                  /\ \A u \in Tabs \ {t} : sid'[u] # sid'[t]
<1> DEFINE Was == /\ stage[t] = "reply" /\ sid[t] \in Sids
                  /\ sessions[sid[t]] # None /\ cookies[SessionCookie] # sid[t]
                  /\ \A u \in Tabs \ {t} : sid[u] # sid[t]
<1>1. stage[t] = "reply" => Was
  BY DEF IInv, RepliesAreOwn, Typed, TypeOK
<1>2. ASSUME NEW v \in Tabs, NEW s \in Sids, CreateSession(v, s) PROVE Own
  <2>1. CASE v = t
    <3>1. sid'[t] = s /\ cookies' = cookies /\ \A u \in Tabs \ {t} : sid'[u] = sid[u]
      BY <1>2, <2>1 DEF CreateSession, Typed, TypeOK
    <3>2. sessions'[s] # None
      BY <1>2, NewSession, NoneIsOther
    <3> QED
      BY <1>2, <3>1, <3>2 DEF CreateSession
  <2>2. CASE v # t
    <3>1. Was /\ sid'[t] = sid[t] /\ sid'[v] = s
          /\ \A u \in Tabs \ {v} : sid'[u] = sid[u]
      BY <1>1, <1>2, <2>2 DEF CreateSession, Goto, Typed, TypeOK
    <3>2. s # sid[t] /\ cookies' = cookies
      BY <1>2 DEF CreateSession
    <3>3. sessions'[sid[t]] = sessions[sid[t]]
      BY <1>2, <3>1, <3>2, NewSession
    <3> QED
      BY <3>1, <3>2, <3>3
  <2> QED
    BY <2>1, <2>2
<1>3. ASSUME NEW v \in Tabs, LoginDelivered(v) PROVE Own
  <2>1. v # t
    BY <1>3 DEF LoginDelivered, Goto, Typed, TypeOK
  <2>2. Was /\ sid'[t] = sid[t] /\ sessions' = sessions /\ sid'[v] = None
        /\ \A u \in Tabs \ {v} : sid'[u] = sid[u]
    BY <1>1, <1>3, <2>1 DEF LoginDelivered, Goto, Typed, TypeOK
  <2>3. cookies'[SessionCookie] = sid[v]
    BY <1>3, CookieNames DEF LoginDelivered, Typed, TypeOK
  <2> QED
    BY <2>1, <2>2, <2>3, NoneIsOther
<1>4. ASSUME NEW v \in Tabs, LogoutSent(v) PROVE Own
  <2>1. v # t
    BY <1>4 DEF LogoutSent, Goto, Typed, TypeOK
  <2> QED
    BY <1>1, <1>4, <2>1 DEF LogoutSent, Goto, Typed, TypeOK
<1>5. ASSUME NEW v \in Tabs, Logout(v) PROVE Own
  <2>1. v # t
    BY <1>5 DEF Logout, Goto, Typed, TypeOK
  <2> QED
    BY <1>1, <1>5, <2>1 DEF Logout, Goto, tabvars, Typed, TypeOK
<1>6. ASSUME NEW v \in Tabs, LogoutDelivered(v) PROVE Own
  <2>1. v # t
    BY <1>6 DEF LogoutDelivered, Goto, Typed, TypeOK
  <2>2. Was /\ sid'[t] = sid[t] /\ sessions' = sessions /\ sid'[v] = None
        /\ \A u \in Tabs \ {v} : sid'[u] = sid[u]
    BY <1>1, <1>6, <2>1 DEF LogoutDelivered, Goto, Typed, TypeOK
  <2>3. cookies'[SessionCookie] = None
    BY <1>6, CookieNames DEF LogoutDelivered, Typed, TypeOK
  <2> QED
    BY <2>2, <2>3, NoneIsOther
<1>7. ASSUME NEW v \in Tabs, Fails(v) PROVE Own
  <2>1. v # t
    BY <1>7 DEF Fails, Goto, Typed, TypeOK
  <2>2. Was /\ sid'[t] = sid[t] /\ sessions' = sessions /\ sid'[v] = None
        /\ cookies' = cookies /\ \A u \in Tabs \ {v} : sid'[u] = sid[u]
    BY <1>1, <1>7, <2>1 DEF Fails, Goto, Typed, TypeOK
  <2> QED
    BY <2>2, NoneIsOther
<1>8. CASE /\ stage[t] = "reply" /\ sid' = sid /\ sessions' = sessions
           /\ cookies'[SessionCookie] = cookies[SessionCookie]
  BY <1>1, <1>8
<1>9. ASSUME NEW v \in Tabs,
             \/ Callback(v) \/ Exchange(v) \/ UpsertUser(v) \/ ExchangeFails(v)
             \/ IdpRefuses(v) \/ GoBack(v)
             \/ \E c \in Codes, u \in Subjects, n \in {Name, None} : Authenticate(v, c, u, n)
      PROVE  /\ stage[t] = "reply" /\ sid' = sid /\ sessions' = sessions
             /\ cookies'[SessionCookie] = cookies[SessionCookie]
  BY <1>9 DEF Callback, Exchange, UpsertUser, ExchangeFails, IdpRefuses, GoBack,
     Authenticate, Goto, tabvars, Typed, TypeOK
<1>10. ASSUME NEW v \in Tabs, NEW f \in Flows, Login(v, f)
       PROVE  /\ stage[t] = "reply" /\ sid' = sid /\ sessions' = sessions
              /\ cookies'[SessionCookie] = cookies[SessionCookie]
  BY <1>10, CookieNames DEF Login, Goto, Typed, TypeOK
<1>11. CASE FlowExpires \/ UNCHANGED vars
  BY <1>8, <1>11, CookieNames DEF FlowExpires, vars, tabvars, Typed, TypeOK
<1> QED
  BY <1>2, <1>3, <1>4, <1>5, <1>6, <1>7, <1>8, <1>9, <1>10, <1>11 DEF Next, Serve

\* A session goes only to a logout, which ends it; a new name is a new session's
\* or that of the cookie or the request it was copied from.
LEMMA NamesAreIssuedSteps == ASSUME Typed, IInv, [Next]_vars PROVE NamesAreIssued'
<1> SUFFICES ASSUME NEW s \in Sids,
                    cookies'[SessionCookie] = s \/ \E t \in Tabs : sid'[t] = s
             PROVE  sessions'[s] # None \/ s \in ended'
  BY DEF NamesAreIssued
<1> DEFINE Named == cookies[SessionCookie] = s \/ \E t \in Tabs : sid[t] = s
           Issued == sessions[s] # None \/ s \in ended
<1>1. Named => Issued
  BY DEF IInv, NamesAreIssued
<1>2. ASSUME NEW t \in Tabs, NEW r \in Sids, CreateSession(t, r)
      PROVE  sessions'[s] # None \/ s \in ended'
  <2>1. CASE r = s
    BY <1>2, <2>1, NewSession, NoneIsOther
  <2>2. CASE r # s
    <3>1. Named
      BY <1>2, <2>2 DEF CreateSession, Typed, TypeOK
    <3> QED
      BY <1>1, <1>2, <2>2, <3>1, NewSession
  <2> QED
    BY <2>1, <2>2
<1>3. ASSUME NEW t \in Tabs, Logout(t) PROVE sessions'[s] # None \/ s \in ended'
  <2>1. Named
    BY <1>3 DEF Logout, tabvars
  <2>2. s # sid[t] => sessions'[s] = sessions[s]
    BY <1>3 DEF Logout
  <2> QED
    BY <1>1, <1>3, <2>1, <2>2, NoneIsOther DEF Logout
<1>4. ASSUME sessions' = sessions, ended' = ended, Named
      PROVE  sessions'[s] # None \/ s \in ended'
  BY <1>1, <1>4
<1>5. ASSUME NEW t \in Tabs, LoginDelivered(t) \/ LogoutDelivered(t)
      PROVE  sessions' = sessions /\ ended' = ended /\ Named
  <2>1. CASE LoginDelivered(t)
    <3>1. cookies'[SessionCookie] = sid[t]
      BY <2>1, CookieNames DEF LoginDelivered, Typed, TypeOK
    <3> QED
      BY <2>1, <3>1, NoneIsOther DEF LoginDelivered, Typed, TypeOK
  <2>2. CASE LogoutDelivered(t)
    <3>1. cookies'[SessionCookie] = None
      BY <2>2, CookieNames DEF LogoutDelivered, Typed, TypeOK
    <3> QED
      BY <2>2, <3>1, NoneIsOther DEF LogoutDelivered, Typed, TypeOK
  <2> QED
    BY <1>5, <2>1, <2>2
<1>6. ASSUME NEW t \in Tabs, LogoutSent(t) \/ Fails(t)
      PROVE  sessions' = sessions /\ ended' = ended /\ Named
  BY <1>6, NoneIsOther DEF LogoutSent, Fails, Typed, TypeOK
<1>7. ASSUME NEW t \in Tabs,
             \/ Callback(t) \/ Exchange(t) \/ UpsertUser(t) \/ ExchangeFails(t)
             \/ IdpRefuses(t) \/ GoBack(t)
             \/ \E c \in Codes, u \in Subjects, n \in {Name, None} : Authenticate(t, c, u, n)
      PROVE  sessions' = sessions /\ ended' = ended /\ Named
  BY <1>7 DEF Callback, Exchange, UpsertUser, ExchangeFails, IdpRefuses, GoBack,
     Authenticate, tabvars
<1>8. ASSUME NEW t \in Tabs, NEW f \in Flows, Login(t, f)
      PROVE  sessions' = sessions /\ ended' = ended /\ Named
  BY <1>8, CookieNames DEF Login, Typed, TypeOK
<1>9. CASE FlowExpires \/ UNCHANGED vars
  <2>1. sessions' = sessions /\ ended' = ended /\ Named
    BY <1>9, CookieNames DEF FlowExpires, vars, tabvars, Typed, TypeOK
  <2> QED
    BY <1>4, <2>1
<1> QED
  BY <1>2, <1>3, <1>4, <1>5, <1>6, <1>7, <1>8, <1>9 DEF Next, Serve

LEMMA Inductive == Spec => []IInv
<1>1. Init => IInv
  <2>1. Init => NamesAreIssued
    BY CookieNames, NoneIsOther DEF Init, NamesAreIssued
  <2> QED
    BY <2>1 DEF Init, IInv, Admitted, InLogin, OneLoginPerCode, SessionsAreGranted,
       RepliesAreOwn, CodesLogInOnce, LogoutIsFinal
<1>2. Typed /\ IInv /\ [Next]_vars => IInv'
  BY AdmittedSteps, OneLoginPerCodeSteps, SessionsAreGrantedSteps, RepliesAreOwnSteps,
     CodesLogInOnceSteps, LogoutIsFinalSteps, NamesAreIssuedSteps DEF IInv
<1> QED
  BY <1>1, <1>2, TypedAlways, PTL DEF Spec

-----------------------------------------------------------------------------
\* However many tabs replay a callback, a code becomes one session at most.
THEOREM OneSessionPerCode == Spec => []CodesLogInOnce
<1>1. IInv => CodesLogInOnce
  BY DEF IInv
<1> QED
  BY <1>1, Inductive, PTL

\* No login, logout or failure brings back a session whose logout was answered.
THEOREM EndedStayEnded == Spec => []LogoutIsFinal
<1>1. IInv => LogoutIsFinal
  BY DEF IInv
<1> QED
  BY <1>1, Inductive, PTL

\* A login whose answer is on its way has its session row, whatever the other
\* tabs do; and every session is an admitted user's who is in the users table.
THEOREM LoginsHold == Spec => []LoginHolds
<1>1. IInv => LoginHolds
  BY DEF IInv, LoginHolds, RepliesAreOwn, SessionsAreGranted
<1> QED
  BY <1>1, Inductive, PTL

-----------------------------------------------------------------------------
(* The ledger of codes and sessions                                        *)

Live == [s \in Sids |-> CodeOf(s)]

\* Tabs that stay in or out of their logins, with their codes, are owed the same.
LEMMA OwedSame ==
    ASSUME \A t \in Tabs : InLogin(t)' <=> InLogin(t),
           \A t \in Tabs : InLogin(t) => code'[t] = code[t]
    PROVE  Owed' = Owed
  BY DEF Owed, InLogin

\* A tab that enters a login adds its code.
LEMMA OwedMore ==
    ASSUME NEW t \in Tabs, InLogin(t)', code'[t] = code[t],
           \A u \in Tabs \ {t} : InLogin(u)' <=> InLogin(u),
           \A u \in Tabs \ {t} : InLogin(u) => code'[u] = code[u],
           ~InLogin(t)
    PROVE  Owed' = Owed \cup {code[t]}
  BY DEF Owed, InLogin

\* A tab that leaves one takes it away, being alone with it.
LEMMA OwedLess ==
    ASSUME OneLoginPerCode, NEW t \in Tabs, InLogin(t), ~InLogin(t)',
           \A u \in Tabs \ {t} : InLogin(u)' <=> InLogin(u),
           \A u \in Tabs \ {t} : InLogin(u) => code'[u] = code[u]
    PROVE  code[t] \in Owed /\ Owed' = Owed \ {code[t]}
<1>1. \A u \in Tabs \ {t} : InLogin(u) => code[u] # code[t]
  BY DEF OneLoginPerCode
<1> QED
  BY <1>1 DEF Owed, InLogin

\* The step spends the code of its tab, which may have been spent before.
LEMMA Spends ==
    ASSUME Typed, NEW t \in Tabs, stage[t] = "exchange",
           grants' = [grants EXCEPT ![code[t]].used = TRUE]
    PROVE  Redeemed' = Redeemed \cup {code[t]}
<1>1. code[t] \in Codes /\ grants'[code[t]].used /\ grants'[code[t]] # None
  BY TakenCode, NoneIsOther
<1>2. \A c \in Codes \ {code[t]} : grants'[c] = grants[c]
  BY TakenCode
<1> QED
  BY <1>1, <1>2 DEF Redeemed

\* What most steps are to the ledger: nothing.
Silent ==
    Redeemed' = Redeemed /\ Owed' = Owed /\ Live' = Live /\ ended' = ended

LEMMA SilentSteps ==
    ASSUME Typed,
           \/ FlowExpires \/ UNCHANGED vars
           \/ \E t \in Tabs :
               \/ Callback(t) \/ UpsertUser(t) \/ LoginDelivered(t) \/ LogoutDelivered(t)
               \/ IdpRefuses(t) \/ GoBack(t) \/ LogoutSent(t)
               \/ \E f \in Flows : Login(t, f)
               \/ \E c \in Codes, u \in Subjects, n \in {Name, None} :
                      Authenticate(t, c, u, n)
    PROVE  Silent
<1>1. /\ sessions' = sessions /\ ended' = ended
      /\ \A t \in Tabs : InLogin(t)' <=> InLogin(t)
      /\ \A t \in Tabs : InLogin(t) => code'[t] = code[t]
  <2>1. CASE \E t \in Tabs : Callback(t) \/ UpsertUser(t) \/ IdpRefuses(t) \/ GoBack(t)
    BY <2>1 DEF Callback, UpsertUser, IdpRefuses, GoBack, Goto, InLogin, tabvars,
       Typed, TypeOK
  <2>2. CASE \E t \in Tabs : LoginDelivered(t) \/ LogoutDelivered(t) \/ LogoutSent(t)
    BY <2>2 DEF LoginDelivered, LogoutDelivered, LogoutSent, Goto, InLogin, Typed, TypeOK
  <2>3. CASE \E t \in Tabs, f \in Flows : Login(t, f)
    BY <2>3 DEF Login, Goto, InLogin, Typed, TypeOK
  <2>4. CASE \E t \in Tabs, c \in Codes, u \in Subjects, n \in {Name, None} :
                Authenticate(t, c, u, n)
    BY <2>4 DEF Authenticate, Goto, InLogin, Typed, TypeOK
  <2>5. CASE FlowExpires \/ UNCHANGED vars
    BY <2>5 DEF FlowExpires, vars, tabvars, InLogin
  <2> QED
    BY <2>1, <2>2, <2>3, <2>4, <2>5
<1>2. Redeemed' = Redeemed
  <2>1. ASSUME NEW t \in Tabs, NEW c \in Codes, NEW u \in Subjects, NEW n \in {Name, None},
               Authenticate(t, c, u, n)
        PROVE  Redeemed' = Redeemed
    <3>1. grants[c] = None /\ ~grants'[c].used
      BY <2>1 DEF Authenticate, Typed, TypeOK
    <3>2. \A d \in Codes \ {c} : grants'[d] = grants[d]
      BY <2>1 DEF Authenticate, Typed, TypeOK
    <3> QED
      BY <3>1, <3>2 DEF Redeemed
  <2>2. CASE grants' = grants
    BY <2>2 DEF Redeemed
  <2> QED
    BY <2>1, <2>2 DEF FlowExpires, vars, Callback, UpsertUser, LoginDelivered,
       LogoutDelivered, IdpRefuses, GoBack, LogoutSent, Login
<1> QED
  BY <1>1, <1>2, OwedSame DEF Silent, Live, CodeOf

\* The exchange redeems the code, whatever becomes of the login.
LEMMA ExchangeRedeems ==
    ASSUME Typed, NEW t \in Tabs, Exchange(t) \/ ExchangeFails(t)
    PROVE  Silent \/ (Ledger!Redeem(code[t]) /\ code[t] \in Codes)
<1> DEFINE Rest == Live' = Live /\ ended' = ended
<1>1. stage[t] = "exchange" /\ code'[t] = code[t] /\ code[t] \in Codes /\ Rest
  BY DEF Exchange, ExchangeFails, tabvars, Typed, TypeOK, Live, CodeOf
<1>2. /\ ~InLogin(t)
      /\ \A u \in Tabs \ {t} : InLogin(u)' <=> InLogin(u)
      /\ \A u \in Tabs : InLogin(u) => code'[u] = code[u]
  BY DEF Exchange, ExchangeFails, Goto, InLogin, tabvars, Typed, TypeOK
<1>3. Owed' = Owed \/ Owed' = Owed \cup {code[t]}
  <2>1. CASE InLogin(t)'
    BY <1>1, <1>2, <2>1, OwedMore
  <2>2. CASE ~InLogin(t)'
    BY <1>2, <2>2, OwedSame
  <2> QED
    BY <2>1, <2>2
<1>4. CASE grants' = grants
  <2>1. ~InLogin(t)'
    <3>1. CASE Exchange(t) /\ grants' = [grants EXCEPT ![code[t]].used = TRUE]
      <4>1. grants[code[t]].used
        BY <1>1, <1>4, <3>1, TakenCode
      <4> QED
        BY <3>1, <4>1 DEF Exchange, Redeemable, Goto, InLogin, Typed, TypeOK
    <3> QED
      BY <3>1 DEF Exchange, ExchangeFails, Goto, InLogin, Typed, TypeOK
  <2> QED
    BY <1>1, <1>2, <1>4, <2>1, OwedSame DEF Silent, Redeemed
<1>5. CASE grants' = [grants EXCEPT ![code[t]].used = TRUE] /\ code[t] \notin Redeemed
  <2>1. Redeemed' = Redeemed \cup {code[t]}
    BY <1>1, <1>5, Spends
  <2> QED
    BY <1>1, <1>3, <1>5, <2>1 DEF Ledger!Redeem, Live
<1>6. CASE /\ grants' = [grants EXCEPT ![code[t]].used = TRUE]
           /\ ExchangeFails(t) /\ code[t] \in Redeemed
  <2>1. Redeemed' = Redeemed
    BY <1>1, <1>6, Spends
  <2>2. Owed' = Owed
    BY <1>2, <1>6, OwedSame DEF ExchangeFails, Goto, InLogin, Typed, TypeOK
  <2> QED
    BY <1>1, <2>1, <2>2 DEF Silent
<1>7. CASE Exchange(t) /\ grants' # grants
  BY <1>5, <1>7 DEF Exchange, Redeemable, Redeemed
<1> QED
  BY <1>4, <1>5, <1>6, <1>7 DEF Exchange, ExchangeFails

\* Only the login that is owed a session begins it.
LEMMA CreateBegins ==
    ASSUME Typed, IInv, NEW t \in Tabs, NEW s \in Sids, CreateSession(t, s)
    PROVE  Ledger!Begin(code[t], s) /\ code[t] \in Codes
<1>1. /\ code[t] \in Codes /\ sessions[s] = None /\ s \notin ended
      /\ ended' = ended /\ Redeemed' = Redeemed
  BY NewSession DEF Redeemed
<1>2. code[t] \in Owed /\ Owed' = Owed \ {code[t]}
  BY OwedLess DEF CreateSession, Goto, InLogin, IInv, Typed, TypeOK
<1>3. Live' = [Live EXCEPT ![s] = code[t]]
  <2>1. sessions'[s] # None /\ sessions'[s].code = code[t]
    BY NewSession, NoneIsOther
  <2>2. \A r \in Sids \ {s} : sessions'[r] = sessions[r]
    BY NewSession
  <2> QED
    BY <2>1, <2>2 DEF Live, CodeOf
<1> QED
  BY <1>1, <1>2, <1>3 DEF Ledger!Begin, Live, CodeOf

\* A logout ends the session it names, or names one that has ended, or none.
LEMMA LogoutEnds ==
    ASSUME Typed, IInv, NEW t \in Tabs, Logout(t)
    PROVE  Silent \/ \E s \in Sids : Ledger!End(s)
<1>1. Redeemed' = Redeemed /\ Owed' = Owed
  <2>1. /\ \A u \in Tabs : InLogin(u)' <=> InLogin(u)
        /\ \A u \in Tabs : InLogin(u) => code'[u] = code[u]
    BY DEF Logout, Goto, InLogin, tabvars, Typed, TypeOK
  <2> QED
    BY <2>1, OwedSame DEF Logout, Redeemed
<1>2. CASE sid[t] = None
  <2>1. ended' = ended
    BY <1>2 DEF Logout
  <2>2. \A s \in Sids : sessions'[s] = sessions[s]
    BY <1>2, NoneIsOther DEF Logout
  <2> QED
    BY <1>1, <2>1, <2>2 DEF Silent, Live, CodeOf
<1>3. CASE sid[t] \in Sids /\ sessions[sid[t]] = None
  <2>1. sid[t] \in ended
    BY <1>3 DEF IInv, NamesAreIssued
  <2>2. ended' = ended
    BY <2>1 DEF Logout
  <2>3. \A s \in Sids : sessions'[s] = sessions[s]
    BY <1>3 DEF Logout
  <2> QED
    BY <1>1, <2>2, <2>3 DEF Silent, Live, CodeOf
<1>4. CASE sid[t] \in Sids /\ sessions[sid[t]] # None
  <2>1. Live[sid[t]] \in Codes
    BY <1>4 DEF Live, CodeOf, Typed, TypeOK, Session
  <2>2. Live' = [Live EXCEPT ![sid[t]] = None]
    <3>1. \A s \in Sids : sessions'[s] = IF s = sid[t] THEN None ELSE sessions[s]
      BY DEF Logout
    <3> QED
      BY <1>4, <3>1 DEF Live, CodeOf
  <2>3. ended' = ended \cup {sid[t]}
    BY <1>4, NoneIsOther DEF Logout
  <2> QED
    BY <1>1, <1>4, <2>1, <2>2, <2>3, NoneIsOther DEF Ledger!End, Live
<1> QED
  BY <1>2, <1>3, <1>4 DEF Typed, TypeOK

\* A request that fails before its session is there drops the login; any other
\* failure is nothing to the ledger.
LEMMA FailureDrops ==
    ASSUME Typed, IInv, NEW t \in Tabs, Fails(t)
    PROVE  Silent \/ (Ledger!Drop(code[t]) /\ code[t] \in Codes)
<1>1. Redeemed' = Redeemed /\ Live' = Live /\ ended' = ended /\ code' = code
  BY DEF Fails, Redeemed, Live, CodeOf
<1>2. ~InLogin(t)' /\ \A u \in Tabs \ {t} : InLogin(u)' <=> InLogin(u)
  BY DEF Fails, Goto, InLogin, Typed, TypeOK
<1>3. CASE InLogin(t)
  <2>1. code[t] \in Owed /\ Owed' = Owed \ {code[t]}
    BY <1>1, <1>2, <1>3, OwedLess DEF IInv
  <2>2. code[t] \in Codes
    BY <1>3 DEF InLogin, Typed, TypeOK
  <2> QED
    BY <1>1, <2>1, <2>2 DEF Ledger!Drop, Live
<1>4. CASE ~InLogin(t)
  <2>1. /\ \A u \in Tabs : InLogin(u)' <=> InLogin(u)
        /\ \A u \in Tabs : InLogin(u) => code'[u] = code[u]
    BY <1>1, <1>2, <1>4
  <2> QED
    BY <1>1, <2>1, OwedSame DEF Silent
<1> QED
  BY <1>3, <1>4

\* The handlers, however tabs drive them, implement the ledger: a code logs in
\* once at most, also after its session has ended.
THEOREM LoginImplementsLedger == Spec => LedgerSpec
<1>1. Init => Ledger!Init
  BY NoneIsOther DEF Init, Ledger!Init, Redeemed, Owed, CodeOf
<1>2. Typed /\ IInv /\ [Next]_vars => [Ledger!Next]_(Ledger!vars)
  <2> SUFFICES ASSUME Typed, IInv, [Next]_vars
               PROVE  Ledger!Next \/ UNCHANGED Ledger!vars
    OBVIOUS
  <2>1. Silent => UNCHANGED Ledger!vars
    BY DEF Silent, Ledger!vars, Live
  <2>2. ASSUME NEW t \in Tabs, Exchange(t) \/ ExchangeFails(t)
        PROVE  Silent \/ Ledger!Next
    BY <2>2, ExchangeRedeems DEF Ledger!Next
  <2>3. ASSUME NEW t \in Tabs, NEW s \in Sids, CreateSession(t, s) PROVE Ledger!Next
    BY <2>3, CreateBegins DEF Ledger!Next
  <2>4. ASSUME NEW t \in Tabs, Logout(t) PROVE Silent \/ Ledger!Next
    BY <2>4, LogoutEnds DEF Ledger!Next
  <2>5. ASSUME NEW t \in Tabs, Fails(t) PROVE Silent \/ Ledger!Next
    BY <2>5, FailureDrops DEF Ledger!Next
  <2> QED
    BY <2>1, <2>2, <2>3, <2>4, <2>5, SilentSteps DEF Next, Serve
<1> QED
  BY <1>1, <1>2, TypedAlways, Inductive, PTL DEF Spec, LedgerSpec, Ledger!Spec
=============================================================================
