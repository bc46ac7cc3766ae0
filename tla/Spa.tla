-------------------------------- MODULE Spa ---------------------------------
(***************************************************************************)
(* The web application in one tab, from the index page to the form that    *)
(* mints a key: what App, Login and NewKey do while servers are restarted  *)
(* and replaced, answers get lost, and the user walks away from pages with *)
(* calls in flight.  Dashboard models the list and its revokes.            *)
(*                                                                         *)
(* One key is followed: that of one service and label.  The form may also  *)
(* be submitted for others, and without a label.                           *)
(***************************************************************************)
EXTENDS Router

CONSTANTS
    Acts,       \* bound: mints and logouts in flight at one time
    Paths       \* bound: the paths on which the router is looked at

VARIABLES
    running,    \* the build that serves, or None
    session,    \* whether the browser's session is alive
    key,        \* None; the call that minted it and is not back; "told" or "lost"
    late,       \* whether the server may still run a mint of it that was given up on
    html,       \* the build whose index page the tab has loaded, or None
    script,     \* what it runs: None yet, a build, or "blank" for nothing
    at,         \* the route that react-router shows
    probe,      \* App's session: loading, in or out
    form,       \* NewKey's state
    calls,      \* slot -> a request in flight, or None
    left,       \* history: since the mint was answered or given up on the user has left
                \* the form, gone on in it, or revoked the key
    excuse      \* history: the login page was asked for, or a call failed

page == <<html, script, at, probe, form>>
marks == <<left, late>>
vars == <<running, session, key, page, calls, marks, excuse>>

Slots == {"me", "load"} \cup Acts

\* mount: the page that called is there, was left, or went with its document.
Call ==
    [kind : {"me", "load", "mint", "other", "logout"},
     reply : {"none", "200", "401", "409", "failed"},
     mount : {"here", "left", "gone"}]

\* A mint of key, and one of another service or label.
Minting == {"mint", "other"}

ASSUME ActsAssumption == Acts \cap {"me", "load", "told", "lost"} = {}
ASSUME NoneAssumption ==
    None \notin Call \cup Slots \cup Builds \cup {"told", "lost", "blank"}
ASSUME ScriptAssumption == "blank" \notin Builds
ASSUME PathsAssumption == Paths \subseteq Seq(STRING)

NewCall(kind) == [kind |-> kind, reply |-> "none", mount |-> "here"]

Blank == [ready |-> FALSE, submitting |-> FALSE, error |-> FALSE, minted |-> FALSE]

Alive == script \in Builds

Other(s) == calls[s] # None /\ calls[s].kind = "other"

\* A call that only reads ends with its page; a mint or a logout goes on.  (So does
\* an other mint, but nothing here depends on it once its document is gone.)
Abandoned(mount) ==
    [s \in Slots |->
        IF s = "load" \/ (mount = "gone" /\ (s = "me" \/ Other(s))) THEN None
        ELSE IF s \in Acts /\ calls[s] # None /\ calls[s].mount # "gone"
        THEN [calls[s] EXCEPT !.mount = mount]
        ELSE calls[s]]

\* The key's plaintext was shown, or there is none.
Seen == key \in {None, "told"}

Leaves == left' = (late \/ ~Seen) /\ UNCHANGED late

-----------------------------------------------------------------------------
Init ==
    /\ running \in Released
    /\ session \in BOOLEAN /\ key = None /\ late = FALSE
    /\ html = None /\ script = None
    /\ at = "/" /\ probe = "loading" /\ form = Blank
    /\ calls = [s \in Slots |-> None]
    /\ left = FALSE /\ excuse = FALSE

(* Loading the document                                                    *)

Path(r) == CASE r = "/" -> <<Empty>> [] r = "/new" -> <<"new">> [] r = "/login" -> <<"login">>

\* A new document: nothing of the old one goes on in the browser.
Load(r) ==
    /\ html' = IF running # None /\ Served("GET", Path(r), running) = "page"
               THEN running ELSE None
    /\ script' = None
    /\ at' = r /\ probe' = "loading" /\ form' = Blank
    /\ calls' = Abandoned("gone")
    /\ excuse' = (r = "/login")
    /\ Leaves

\* The user types a URL, follows one, or reloads.
Visit(r) == Load(r) /\ UNCHANGED <<running, session, key>>

\* The script the page names, from whichever build serves by now; it starts
\* with the probe.
LoadScript ==
    /\ html # None /\ script = None
    /\ LET got == IF running = None THEN "nothing"
                  ELSE Served("GET", <<"assets", html>>, running)
       IN  /\ script' = CASE got = "file" -> running [] got = "page" -> "page" [] OTHER -> "blank"
           /\ calls' = IF got = "file" THEN [calls EXCEPT !["me"] = NewCall("me")] ELSE calls
    /\ UNCHANGED <<running, session, key, html, at, probe, form, marks, excuse>>

(* Requests                                                                *)

Replies(c, r) == calls' = [calls EXCEPT ![c].reply = r]

\* The server's side, each a single statement apart from the extractor.
Handle(c) ==
    /\ running # None /\ calls[c] # None /\ calls[c].reply = "none"
    /\ LET kind == calls[c].kind IN
        \/ /\ kind = "me" \/ (kind = "load" /\ at = "/")
           /\ \E db \in BOOLEAN : Replies(c, me(db, session))
           /\ UNCHANGED <<session, key, marks>>
        \/ /\ kind = "load" /\ at = "/new"
           /\ \E db \in BOOLEAN : Replies(c, list_services(db, session))
           /\ UNCHANGED <<session, key, marks>>
        \/ /\ kind = "logout"
           /\ session' = FALSE
           /\ Replies(c, "200")
           /\ UNCHANGED <<key, marks>>
        \/ /\ kind = "mint" /\ (~session \/ key # None)
           /\ Replies(c, IF session THEN "409" ELSE "401")
           /\ UNCHANGED <<session, key, marks>>
        \/ /\ kind = "mint" /\ session /\ key = None
           /\ key' = c /\ left' = (calls[c].mount # "here")
           /\ Replies(c, "200")
           /\ UNCHANGED <<session, late>>
        \/ /\ kind = "other"
           /\ \E r \in IF session THEN {"200", "409"} ELSE {"401"} : Replies(c, r)
           /\ UNCHANGED <<session, key, marks>>
    /\ UNCHANGED <<running, page, excuse>>

\* An error, no connection, or an answer that is lost on its way.  A server that
\* has the request may still run a statement nobody waits for (of a logout this is
\* a SessionEnds).  Bound: one such mint at a time.
Fails(c) ==
    /\ calls[c] # None /\ calls[c].reply # "failed"
    /\ Replies(c, "failed")
    /\ IF running # None /\ calls[c].kind = "mint" /\ calls[c].reply = "none"
       THEN late' = TRUE /\ left' = IF key = None THEN calls[c].mount # "here" ELSE left
       ELSE UNCHANGED marks
    /\ UNCHANGED <<running, session, key, page, excuse>>

\* The INSERT of a mint that the page has given up on.
LateMint ==
    /\ late /\ late' = FALSE
    /\ key' = IF key = None THEN "lost" ELSE key
    /\ left' = (left /\ key # "told")
    /\ UNCHANGED <<running, session, page, calls, excuse>>

Back(c, kind) == calls[c] # None /\ calls[c].kind = kind /\ calls[c].reply # "none"
Reply(c) == calls[c].reply
Done(c) == calls' = [calls EXCEPT ![c] = None]

\* Bug: the form outlives its page.
ToLoginWithForm(c) ==
    /\ at' = "/login" /\ UNCHANGED form
    /\ calls' = [Abandoned("left") EXCEPT ![c] = None]
    /\ Leaves

\* react-router goes to the login page, and the page it leaves is unmounted.
ToLogin(c) ==
    /\ at' = "/login" /\ form' = Blank
    /\ calls' = [Abandoned("left") EXCEPT ![c] = None]
    /\ Leaves

(* App                                                                     *)

\* Bug: only a 401 ends the loading.
ProbedStrictly(c) ==
    /\ Back(c, "me")
    /\ IF Reply(c) = "401" /\ at # "/login" THEN ToLogin(c) /\ probe' = "out"
       ELSE /\ probe' = IF Reply(c) = "200" THEN "in" ELSE IF Reply(c) = "401" THEN "out" ELSE probe
            /\ calls' = [calls EXCEPT ![c] = None,
                             !["load"] = IF Reply(c) = "200" /\ at # "/login" THEN NewCall("load") ELSE None]
            /\ UNCHANGED <<at, form, marks>>
    /\ UNCHANGED <<running, session, key, html, script, excuse>>

\* Any failure is taken for signed out.  The page behind RequireAuth mounts
\* when the probe says in, and starts with its own load.
Probed(c) ==
    /\ Back(c, "me")
    /\ IF Reply(c) = "200"
       THEN /\ probe' = "in"
            /\ calls' = [calls EXCEPT ![c] = None,
                             !["load"] = IF at = "/login" THEN None ELSE NewCall("load")]
            /\ UNCHANGED <<at, form, marks, excuse>>
       ELSE /\ probe' = "out"
            /\ IF at = "/login" THEN Done(c) /\ UNCHANGED <<at, form, marks>> ELSE ToLogin(c)
            /\ excuse' = (excuse \/ Reply(c) = "failed")
    /\ UNCHANGED <<running, session, key, html, script>>

\* A link, or the browser's own history.
Goto(r) ==
    /\ Alive /\ probe = "in" /\ at # r
    /\ at' = r /\ form' = Blank
    /\ calls' = [Abandoned("left") EXCEPT
                     !["load"] = IF r = "/login" THEN None ELSE NewCall("load")]
    /\ excuse' = (r = "/login")
    /\ Leaves
    /\ UNCHANGED <<running, session, key, html, script, probe>>

(* Dashboard and NewKey: the first load                                    *)

\* Bug: whatever goes wrong, the user is taken to be signed out.
AnyFailureIsSignedOut(c) ==
    /\ Back(c, "load")
    /\ IF Reply(c) # "200"
       THEN ToLogin(c)
       ELSE form' = [form EXCEPT !.ready = TRUE] /\ Done(c) /\ UNCHANGED <<at, marks>>
    /\ UNCHANGED <<running, session, key, html, script, probe, excuse>>

\* A 401 leads to the login page, another failure to a message.
PageLoaded(c) ==
    /\ Back(c, "load")
    /\ IF Reply(c) = "401"
       THEN ToLogin(c)
       ELSE /\ form' = IF Reply(c) = "200" THEN [form EXCEPT !.ready = TRUE]
                       ELSE [form EXCEPT !.error = TRUE]
            /\ Done(c) /\ UNCHANGED <<at, marks>>
    /\ UNCHANGED <<running, session, key, html, script, probe, excuse>>

(* NewKey                                                                  *)

Submittable ==
    /\ Alive /\ probe = "in" /\ at = "/new"
    /\ form.ready /\ ~form.submitting /\ ~form.minted

\* The message of an earlier submit goes, whatever it was about.
Submit(c, kind) ==
    /\ Submittable /\ calls[c] = None
    /\ form' = [form EXCEPT !.submitting = TRUE, !.error = FALSE]
    /\ calls' = [calls EXCEPT ![c] = NewCall(kind)]
    /\ IF kind = "mint" THEN UNCHANGED marks ELSE Leaves
    /\ UNCHANGED <<running, session, key, html, script, at, probe, excuse>>

\* A blank label is answered on the page, in place of any earlier message.
SubmitBlank ==
    /\ Submittable
    /\ form' = [form EXCEPT !.error = TRUE]
    /\ Leaves
    /\ UNCHANGED <<running, session, key, html, script, at, probe, calls, excuse>>

Lost(c) == key' = IF key = c THEN "lost" ELSE key

\* Bug: only the server's own errors are shown.
SubmittedQuietly(c) ==
    /\ \E kind \in Minting : Back(c, kind)
    /\ calls[c].mount = "here" /\ Reply(c) # "401"
    /\ form' = [form EXCEPT !.submitting = FALSE, !.minted = Reply(c) = "200",
                            !.error = Reply(c) = "409"]
    /\ IF Reply(c) = "200" THEN key' = IF key = c THEN "told" ELSE key ELSE Lost(c)
    /\ Done(c)
    /\ UNCHANGED <<running, session, html, script, at, probe, marks, excuse>>

\* The plaintext is shown, or a message is; the form can be submitted again.
Submitted(c) ==
    /\ \E kind \in Minting : Back(c, kind)
    /\ calls[c].mount = "here" /\ Reply(c) # "401"
    /\ form' = [form EXCEPT !.submitting = FALSE, !.minted = Reply(c) = "200",
                            !.error = Reply(c) # "200"]
    /\ IF Reply(c) = "200" THEN key' = IF key = c THEN "told" ELSE key ELSE Lost(c)
    /\ Done(c)
    /\ UNCHANGED <<running, session, html, script, at, probe, marks, excuse>>

\* A page that was left shows nothing of it, but a 401 navigates all the same.
SubmittedLate(c) ==
    /\ \E kind \in Minting : Back(c, kind)
    /\ (calls[c].mount # "here" \/ Reply(c) = "401")
    /\ IF Reply(c) = "401" /\ calls[c].mount # "gone"
       THEN ToLogin(c)
       ELSE Done(c) /\ UNCHANGED <<at, form, marks>>
    /\ Lost(c)
    /\ UNCHANGED <<running, session, html, script, probe, excuse>>

(* Signing out and in                                                      *)

SignOut(c) ==
    /\ Alive /\ probe = "in" /\ at = "/" /\ calls[c] = None
    /\ calls' = [calls EXCEPT ![c] = NewCall("logout")]
    /\ UNCHANGED <<running, session, key, page, marks, excuse>>

\* The finally of onLogout, on a page that may have been left.
SignedOut(c) ==
    /\ Back(c, "logout")
    /\ IF calls[c].mount = "gone"
       THEN Done(c) /\ UNCHANGED <<at, form, marks, excuse>>
       ELSE ToLogin(c) /\ excuse' = (excuse \/ Reply(c) = "failed")
    /\ UNCHANGED <<running, session, key, html, script, probe>>

\* The link of the login page, and what AuthFlow models behind it.
SignIn ==
    /\ Alive /\ at = "/login" /\ running # None
    /\ session' = TRUE
    /\ Load("/")
    /\ UNCHANGED <<running, key>>

(* Elsewhere                                                               *)

SessionEnds ==
    /\ session /\ session' = FALSE
    /\ UNCHANGED <<running, key, page, calls, marks, excuse>>

\* The key is revoked on the dashboard.
Revoke ==
    /\ key # None /\ key' = None /\ left' = late
    /\ UNCHANGED <<running, session, page, calls, late, excuse>>

\* The server stops, and with it what it still runs, or one of some build starts.
Deploy ==
    /\ running' \in IF running = None THEN Released ELSE {None}
    /\ late' = FALSE /\ left' = (left /\ ~Seen)
    /\ UNCHANGED <<session, key, page, calls, excuse>>

Receive(c) ==
    \/ Probed(c) \/ PageLoaded(c) \/ Submitted(c) \/ SubmittedLate(c) \/ SignedOut(c)

Answer(c) == calls[c] # None /\ calls[c].reply = "none" /\ (Handle(c) \/ Fails(c))

Next ==
    \/ \E r \in {"/", "/new", "/login"} : Visit(r) \/ Goto(r)
    \/ LoadScript
    \/ \E c \in Slots : Handle(c) \/ Fails(c) \/ Receive(c)
    \/ \E c \in Acts : SignOut(c) \/ \E kind \in Minting : Submit(c, kind)
    \/ SubmitBlank \/ LateMint
    \/ SignIn \/ SessionEnds \/ Revoke \/ Deploy

\* Requests are answered or fail, and answers that arrive are dealt with.
Spec ==
    /\ Init /\ [][Next]_vars
    /\ \A c \in Slots : WF_vars(Answer(c)) /\ WF_vars(Receive(c))

-----------------------------------------------------------------------------
(* Properties                                                              *)

\* Whatever the page shows as under way is under way: no loading, of the session or
\* of a list, and no form waits for the answer of a call that is not out.
WaitsHaveCalls ==
    /\ Alive /\ probe = "loading" => calls["me"] # None
    /\ Alive /\ probe = "in" /\ at # "/login" =>
            form.ready \/ form.error \/ calls["load"] # None
    /\ form.submitting =>
            \E c \in Acts : calls[c] # None /\ calls[c].kind \in Minting /\ calls[c].mount = "here"

\* Everything has its type, who is signed out is on the login page, and nothing is
\* shown as under way that is not.
TypeOK ==
    /\ running \in Released \cup {None} /\ session \in BOOLEAN
    /\ key \in Acts \cup {None, "told", "lost"}
    /\ html \in Builds \cup {None}
    /\ script \in Builds \cup {None, "blank"}
    /\ at \in {"/", "/new", "/login"} /\ probe \in {"loading", "in", "out"}
    /\ form \in [{"ready", "submitting", "error", "minted"} -> BOOLEAN]
    /\ calls \in [Slots -> Call \cup {None}]
    /\ late \in BOOLEAN /\ left \in BOOLEAN /\ excuse \in BOOLEAN
    /\ probe = "out" => at = "/login"
    /\ WaitsHaveCalls

\* What no build may do, whatever the method: answer a path of the API, of the
\* proxy or of a missing asset with a page, or keep a call from the proxy.
RoutesAreKept ==
    \A b \in Released, m \in Methods, path \in Paths :
        LET under(top) == path[1] = top /\ Len(path) > 1 IN
        /\ under("api") \/ under("proxy") => Served(m, path, b) \notin {"page", "notice", "file"}
        /\ under("assets") /\ path # <<"assets", Empty>> => Served(m, path, b) # "page"
        /\ under("proxy") /\ path[2] # Empty => Handler(m, path) \in {"forward", "forward_bare"}

\* A tab never runs the script of another build than that of its page, nor a page
\* for a script, when the server is replaced between the two requests; and no
\* path of programs is ever answered with a page.
PagesAreWhole == script \in {None, "blank", html} /\ RoutesAreKept

\* Who sees the login page with a live session has asked for it, or the probe or
\* the logout of this document failed; no other failure looks like signed out.
LoginIsEarned == Alive /\ at = "/login" /\ session => excuse

\* An active key whose plaintext nobody has seen is not kept from a user who stays
\* with its label: whether the answer was lost or the INSERT came after the failure,
\* and however often the form is submitted again, a mint of it is under way or a
\* message is on the page.
LostKeysAreTold ==
    key = "lost" =>
        \/ left \/ form.error
        \/ \E c \in Acts : calls[c] # None /\ calls[c].kind = "mint" /\ calls[c].mount = "here"

\* "Render something rather than spin forever" (App.tsx:48): the probe ends, and
\* so does the waiting of a form, which only a page past its probe has.
NothingSpins ==
    LET spins == (Alive /\ probe = "loading") \/ form.submitting
    IN  spins ~> ~spins
=============================================================================
