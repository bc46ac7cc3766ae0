------------------------------- MODULE Router -------------------------------
(***************************************************************************)
(* build_router and the two handlers of spa.rs: which handler a request    *)
(* comes to, and what of the embedded bundle it is answered with.          *)
(*                                                                         *)
(* A path is the sequence of its segments, with a last, empty one where it *)
(* ends in a slash: <<Empty>> is /, <<"api", Empty>> is /api/.             *)
(***************************************************************************)
EXTENDS Naturals, Sequences

CONSTANTS
    Builds,     \* builds of the program, by the hash in their script's name
    Debug,      \* those built with debug_assertions
    HasIndex,   \* those for which frontend/dist/index.html was there
    None

\* build.rs stops a release build without the bundle.
Released == {b \in Builds : b \in Debug \/ b \in HasIndex}

Empty == ""

\* A hash is not empty.
ASSUME BuildsAssumption == Empty \notin Builds

\* {id} takes one segment that is not empty, {*path} a rest that is not.
AnySegment == "{id}"
AnyRest == "{*path}"

Methods == {"GET", "HEAD", "POST", "DELETE", "PUT"}

Get(pattern, to) == [pattern |-> pattern, on |-> {"GET", "HEAD"}, to |-> to]
Every(pattern, to) == [pattern |-> pattern, on |-> Methods, to |-> to]

build_router ==
    {Get(<<"healthz">>, "healthz"),
     Get(<<"api", "me">>, "me"),
     Get(<<"api", "services">>, "list_services"),
     Get(<<"api", "keys">>, "list_keys"),
     [pattern |-> <<"api", "keys">>, on |-> {"POST"}, to |-> "mint_key"],
     [pattern |-> <<"api", "keys", AnySegment>>, on |-> {"DELETE"}, to |-> "revoke_key"],
     Get(<<"api", "auth", "login">>, "login"),
     Get(<<"api", "auth", "callback">>, "callback"),
     [pattern |-> <<"api", "auth", "logout">>, on |-> {"POST"}, to |-> "logout"],
     Every(<<"proxy", AnySegment>>, "forward_bare"),
     Every(<<"proxy", AnySegment, Empty>>, "forward_bare"),
     Every(<<"proxy", AnySegment, AnyRest>>, "forward"),
     Get(<<"assets", AnyRest>>, "serve_asset")}

Segment(pattern, path, i) ==
    pattern[i] = path[i] \/ (pattern[i] = AnySegment /\ path[i] # Empty)

Matches(pattern, path) ==
    LET n == Len(pattern) IN
    IF pattern[n] = AnyRest
    THEN /\ Len(path) >= n /\ SubSeq(path, n, Len(path)) # <<Empty>>
         /\ \A i \in 1..(n - 1) : Segment(pattern, path, i)
    ELSE Len(path) = n /\ \A i \in 1..n : Segment(pattern, path, i)

\* A path that is routed, with a method that is not, is answered 405.
Handler(method, path) ==
    LET routed == {r \in build_router : Matches(r.pattern, path)}
        taking == {r \in routed : method \in r.on}
    IN  IF routed = {} THEN "fallback"
        ELSE IF taking = {} THEN "method_not_allowed"
        ELSE (CHOOSE r \in taking : TRUE).to

is_api_or_proxy_path(path) == Len(path) > 1 /\ path[1] \in {"api", "proxy"}

\* The embedded files: index.html, and a script named after the build.
Embeds(b, path) == path = <<"index.html">> \/ path = <<"assets", b>>

serve_embedded(path, b) ==
    IF ~Embeds(b, path) THEN "json_not_found"
    ELSE IF path = <<"index.html">> THEN "page" ELSE "file"

\* Bug: a miss falls back to the page, as other paths do.
AssetOrPage(path, b) ==
    IF b \in Debug THEN "notice"
    ELSE IF Embeds(b, path) THEN "file" ELSE "page"

serve_asset(path, b) == IF b \in Debug THEN "notice" ELSE serve_embedded(path, b)

fallback(path, b) ==
    IF is_api_or_proxy_path(path) THEN "json_not_found"
    ELSE IF b \in Debug THEN "notice" ELSE serve_embedded(<<"index.html">>, b)

\* What build b answers: something of its bundle, or a handler's own answer.
Served(method, path, b) ==
    LET h == Handler(method, path)
    IN  CASE h = "serve_asset" -> serve_asset(path, b)
          [] h = "fallback" -> fallback(path, b)
          [] OTHER -> h

-----------------------------------------------------------------------------
(* The handlers that only read: their status, by whether statements succeed *)
(* (db) and whether the session is alive.                                   *)

AuthenticatedUser(db, session) == IF ~db THEN "failed" ELSE IF session THEN "200" ELSE "401"

\* The user of a session is there: users are never deleted.
me(db, session) == AuthenticatedUser(db, session)

list_services(db, session) == AuthenticatedUser(db, session)
=============================================================================
