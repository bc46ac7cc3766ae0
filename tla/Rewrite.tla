------------------------------- MODULE Rewrite -------------------------------
(***************************************************************************)
(* What Pietro makes of a request and of its answer: steps 4 to 7 and 9 of *)
(* forward_inner.  The caller has been authenticated by its first          *)
(* Authorization line; now hop-by-hop lines, the caller's credentials and  *)
(* the session cookie are taken out, the operator's credential is put in,  *)
(* and the peer is added to X-Forwarded-For.                               *)
(*                                                                         *)
(* A HeaderMap is, per lower-case name, the sequence of its values; a value*)
(* is cut at its commas or semicolons into parts, and may hold bytes that  *)
(* to_str refuses.  A cookie is its name, a query its pairs.  How the path *)
(* is joined, and how text is trimmed and encoded, is left out.            *)
(***************************************************************************)
EXTENDS Naturals, SequencesExt

CONSTANTS
    Names,      \* header names, as strings
    Lines,      \* lines a caller may send besides its bearer token
    Replies,    \* header maps an upstream may answer with
    Auths,      \* the auth: blocks of services
    Queries,    \* queries of callers and of upstream_url, None for no "?"
    MaxLines,   \* bound: those lines in one request
    CallerKey, Operator, Peer, None

Xff == "x-forwarded-for"

is_hop_by_hop ==
    {"connection", "keep-alive", "proxy-authenticate", "proxy-authorization",
     "te", "trailer", "transfer-encoding", "upgrade"}

Part == STRING \cup {CallerKey, Operator, Peer}

\* No value a caller sends, or Pietro writes, is empty.
Value == [parts : Seq(Part) \ {<<>>}, ascii : BOOLEAN]
Text(parts) == [parts |-> parts, ascii |-> TRUE]
Opaque == [parts : Seq(Part) \ {<<>>}, ascii : {FALSE}]

Headers == [Names -> Seq(Value)]

\* The pairs of a query with these names.
Pairs(names) == [param : names, value : STRING \cup {Operator}]

ASSUME NamesAssumption ==
    is_hop_by_hop \cup {"authorization", "cookie", "host", Xff} \subseteq Names
ASSUME MaxLinesAssumption == MaxLines \in Nat
ASSUME SecretsAssumption ==
    /\ CallerKey \notin {Operator, Peer, "pietro_session"}
    /\ "pietro_session" \notin {Operator, Peer}
ASSUME NoneAssumption == None \notin Seq(Part) \cup Seq(Pairs(STRING))

\* A caller's key is sent to Pietro as a credential, its session as a cookie.
ASSUME LinesAssumption ==
    /\ Lines \subseteq [name : Names, value : Value]
    /\ \A l \in Lines :
        /\ l.name # "authorization" => CallerKey \notin ToSet(l.value.parts)
        /\ l.name \notin {"authorization", "cookie"} =>
                "pietro_session" \notin ToSet(l.value.parts)
ASSUME RepliesAssumption == Replies \subseteq Headers
ASSUME QueriesAssumption == Queries \subseteq {None} \cup Seq(Pairs(STRING))

\* The names HTTP allows are names, and a parameter is text.
ASSUME AuthsAssumption ==
    \A auth \in Auths :
        /\ auth.kind \in {"bearer", "header"} /\ auth.valid => auth.name \in Names
        /\ auth.kind = "query" => auth.name \in STRING

\* headers.get(name), as text: the first value, if to_str accepts it.
FirstText(headers, n) ==
    IF headers[n] # <<>> /\ headers[n][1].ascii THEN headers[n][1].parts ELSE None

\* HeaderMap::insert replaces every value the name had.
Insert(headers, n, parts) == [headers EXCEPT ![n] = <<Text(parts)>>]

\* What a filter leaves of a sequence: all that is not in S, in its order.
Without(seq, S) ==
    LET kept[i \in 0..Len(seq)] ==
            IF i = 0 THEN <<>>
            ELSE IF seq[i] \in S THEN kept[i - 1]
            ELSE Append(kept[i - 1], seq[i])
    IN  kept[Len(seq)]

Collect(lines) ==
    [n \in Names |->
        LET of == Without(lines, [name : Names \ {n}, value : Value])
        IN  [i \in DOMAIN of |-> of[i].value]]

VARIABLES
    stage,      \* received, sent, answered
    request,    \* the caller's headers and query
    service,    \* its auth: block and the query of its upstream_url
    outgoing,   \* what the upstream gets
    reply,      \* the headers the upstream answers with
    answer      \* the headers the caller gets

vars == <<stage, request, service, outgoing, reply, answer>>

Nothing == [n \in Names |-> <<>>]
BearerLine == [name |-> "authorization", value |-> Text(<<CallerKey>>)]

Init ==
    /\ stage = "received"
    /\ \E n \in 0..MaxLines, q \in Queries :
         \E lines \in [1..n -> Lines] :
            request = [headers |-> Collect(<<BearerLine>> \o lines), query |-> q]
    /\ service \in [auth : Auths, query : Queries]
    /\ outgoing = [headers |-> Nothing, query |-> None]
    /\ reply = Nothing
    /\ answer = Nothing

-----------------------------------------------------------------------------
\* Bug: nothing is read from the Connection header.
ConnectionIgnored(headers) == {}

\* The names listed in the first Connection line.
connection_named(headers) ==
    LET text == FirstText(headers, "connection")
    IN  IF text = None THEN {} ELSE ToSet(text)

\* Bug: a line that is not text is passed on as it is.
FilterUnlessOpaque(v) ==
    IF v.ascii
    THEN Text(Without(v.parts, {"pietro_session"}))
    ELSE v

\* What is left of one Cookie line; nothing is left of one that is not text.
filter_session_cookie(v) ==
    IF v.ascii
    THEN Text(Without(v.parts, {"pietro_session"}))
    ELSE Text(<<>>)

\* Bug: a line with the session in it is dropped whole.
CookieLinesWithout(values) ==
    Without(values, {v \in Value : ~v.ascii \/ Contains(v.parts, "pietro_session")})

\* Bug: a line of which nothing is left is sent all the same.
CookieLinesEvenEmpty(values) ==
    [i \in DOMAIN values |-> filter_session_cookie(values[i])]

\* The Cookie lines that go on: filtered, and not empty.
CookieLines(values) ==
    Without([i \in DOMAIN values |-> filter_session_cookie(values[i])], {Text(<<>>)})

Dropped(headers) ==
    is_hop_by_hop \cup connection_named(headers) \cup {"authorization", "host"}

\* Bug: insert for append, so only the last value of a name is left.
FilterInserting(headers) ==
    [n \in Names |->
        IF n \in Dropped(headers) \/ headers[n] = <<>> THEN <<>>
        ELSE IF n = "cookie" THEN CookieLines(headers[n])
        ELSE <<Last(headers[n])>>]

filter_request_headers(headers) ==
    [n \in Names |->
        IF n \in Dropped(headers) THEN <<>>
        ELSE IF n = "cookie" THEN CookieLines(headers[n])
        ELSE headers[n]]

\* A bearer or header credential; one that HTTP does not allow is skipped.
InjectHeader(auth, headers) ==
    IF auth.kind \in {"bearer", "header"} /\ auth.valid
    THEN Insert(headers, auth.name, <<Operator>>)
    ELSE headers

\* The caller's query stands for the one of upstream_url, even an empty one.
UpstreamQuery == IF request.query = None THEN service.query ELSE request.query

PairsOf(query) == IF query = None THEN <<>> ELSE query

\* A query credential: other pairs keep their order, it comes last.
InjectQuery(auth, query) ==
    IF auth.kind = "query"
    THEN Without(PairsOf(query), Pairs({auth.name}))
            \o <<[param |-> auth.name, value |-> Operator]>>
    ELSE query

\* Bug: the chain of the caller is overwritten.
XffOverwritten(headers) == Insert(headers, Xff, <<Peer>>)

\* The chain is the first line, the peer is added, and other lines are lost.
add_xff_entry(headers) ==
    LET chain == FirstText(headers, Xff)
    IN  Insert(headers, Xff, (IF chain = None THEN <<>> ELSE chain) \o <<Peer>>)

\* Bug: the credential is put in before the filter runs.
RewriteInjectingFirst ==
    [headers |-> add_xff_entry(
                    filter_request_headers(
                        InjectHeader(service.auth, request.headers))),
     query |-> InjectQuery(service.auth, UpstreamQuery)]

\* Steps 5 to 7, in the order of the code, and the query of step 4.
RewriteRequest ==
    [headers |-> add_xff_entry(
                    InjectHeader(service.auth,
                        filter_request_headers(request.headers))),
     query |-> InjectQuery(service.auth, UpstreamQuery)]

Send ==
    /\ stage = "received"
    /\ stage' = "sent"
    /\ outgoing' = RewriteRequest
    /\ UNCHANGED <<request, service, reply, answer>>

\* Step 9: what an answer lists in a Connection line of its own is kept.
Answer ==
    /\ stage = "sent"
    /\ stage' = "answered"
    /\ reply' \in Replies
    /\ answer' = [n \in Names |-> IF n \in is_hop_by_hop THEN <<>> ELSE reply'[n]]
    /\ UNCHANGED <<request, service, outgoing>>

Next == Send \/ Answer
Spec == Init /\ [][Next]_vars

-----------------------------------------------------------------------------
TypeOK ==
    /\ stage \in {"received", "sent", "answered"}
    /\ {request.headers, outgoing.headers, reply, answer} \subseteq Headers
    /\ service \in [auth : Auths, query : Queries]
    /\ request.query \in Queries

Sent == stage # "received"

\* The header the operator's credential is put under, if one is.
CredentialName ==
    IF service.auth.kind \in {"bearer", "header"} /\ service.auth.valid
    THEN {service.auth.name}
    ELSE {}

\* The parts of all values of a name, in order.
Parts(values) == FlattenSeq([i \in DOMAIN values |-> values[i].parts])

NamedInLine(i) ==
    IF i \in DOMAIN request.headers["connection"]
    THEN ToSet(request.headers["connection"][i].parts) \cap Names
    ELSE {}
NamedInSomeLine == UNION {NamedInLine(i) : i \in DOMAIN request.headers["connection"]}

\* Neither the key nor the session a caller has with Pietro is seen by an
\* upstream, whatever lines they come in and whatever else is in them.
SecretsStay ==
    \A n \in Names : \A i \in DOMAIN outgoing.headers[n] :
        ToSet(outgoing.headers[n][i].parts) \cap {CallerKey, "pietro_session"} = {}

\* A usable credential reaches the upstream, once, and in the place of whatever
\* the caller had sent there: under its name, or as the only value of its
\* parameter with the rest of the query as it was.
CredentialArrives ==
    Sent =>
    /\ \A n \in CredentialName :
          /\ Len(outgoing.headers[n]) = 1
          /\ outgoing.headers[n][1].parts[1] = Operator
    /\ service.auth.kind = "query" =>
          LET own == {service.auth.name}
              before == IF request.query = None THEN service.query
                        ELSE request.query
          IN  /\ Without(outgoing.query, Pairs(own)) = Without(PairsOf(before), Pairs(own))
              /\ Without(outgoing.query, Pairs(STRING \ own))
                    = <<[param |-> service.auth.name, value |-> Operator]>>

\* Hop-by-hop lines pass in neither direction, nor does the caller's Host, nor
\* what the first Connection line lists, unless it is Pietro who writes it.
HopsStay ==
    /\ Sent =>
         \A n \in (is_hop_by_hop \cup {"host"} \cup
                     (IF FirstText(request.headers, "connection") = None
                      THEN {} ELSE NamedInLine(1)))
                  \ (CredentialName \cup {Xff}) :
            outgoing.headers[n] = <<>>
    /\ \A n \in is_hop_by_hop : answer[n] = <<>>

\* Every value and in their order; only what a Connection line lists is missing.
OtherLinesPass ==
    \A n \in Names \ (is_hop_by_hop \cup CredentialName
                         \cup {"authorization", "host", "cookie", Xff}) :
        \/ outgoing.headers[n] = request.headers[n]
        \/ n \in NamedInSomeLine /\ outgoing.headers[n] = <<>>

\* Taking the session out costs no other cookie that came as text.
CookiesSurvive ==
    "cookie" \notin NamedInSomeLine \cup CredentialName =>
        Parts(outgoing.headers["cookie"])
            = Without(Parts(Without(request.headers["cookie"], Opaque)), {"pietro_session"})

\* There is one X-Forwarded-For line.  It ends with the peer, and what stands
\* before is the first line of the caller, or the operator's own value.
PeerIsLast ==
    LET line == outgoing.headers[Xff]
        came == FirstText(request.headers, Xff)
        kept == Xff \notin NamedInSomeLine /\ came # None
    IN  /\ Len(line) = 1
        /\ Last(line[1].parts) = Peer
        /\ Xff \notin CredentialName /\ kept => Front(line[1].parts) = came

\* What Pietro has no business with goes on as it came, cookies next to the
\* session's included, and the peer is added to the way the request took.
RestIsUntouched == Sent => OtherLinesPass /\ CookiesSurvive /\ PeerIsLast
=============================================================================
