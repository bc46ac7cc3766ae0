---------------------------- MODULE ProxyForward ----------------------------
(***************************************************************************)
(* One proxied request, from its arrival to the last piece of its body,    *)
(* cut at the awaits of forward_inner: the SELECT of keys::verify, the     *)
(* send() of the HTTP client, the lock of UsageBatcher::touch, and the     *)
(* pieces of a response body that is polled after the handler has returned.*)
(* Upstreams and callers do as they please: they answer late, break off,   *)
(* stall or go away at any point.                                          *)
(*                                                                         *)
(* A body goes over two HTTP/1 connections, each with a framing of its own *)
(* that tells the reader where it ends: a declared length, chunks, or the  *)
(* close of the connection.  What an upstream chose is not what the caller *)
(* gets, since Transfer-Encoding is hop-by-hop and Content-Length is not.  *)
(*                                                                         *)
(* Which headers, URL and credential are sent is left out here, and so is  *)
(* the content of a piece; what touch records is UsageBatcher's.  Every    *)
(* request has an HTTP client of its own, so requests share nothing but    *)
(* the keys they come with.                                                *)
(***************************************************************************)
EXTENDS Naturals

CONSTANTS
    Requests,
    Keys,
    Services,
    Served,     \* the services in the configuration
    Scope,      \* the service each key was minted for
    MaxPieces,  \* bound: pieces of a response body
    None

ASSUME ServedAssumption == Served \subseteq Services
ASSUME ScopeAssumption == Scope \in [Keys -> Services]
ASSUME MaxPiecesAssumption == MaxPieces \in Nat

\* A bearer token that is missing, or of no key, is None.
Call == [service : Services, key : Keys \cup {None}, version : {"1.0", "1.1"}]

\* The framing of an upstream's answer, and the pieces it declares.
Frame ==
    [by : {"length"}, pieces : 0..MaxPieces] \cup [by : {"chunked", "close"}, pieces : {0}]

ASSUME NoneAssumption == None \notin Keys \cup Frame /\ None \notin {200, 401, 403, 404, 500}

Refusals == {401, 403, 404, 500}
Relayed  == 200     \* stands for whatever status the upstream gave
Statuses == Refusals \cup {Relayed, 502, 504, None}

VARIABLES
    stage,      \* where the handler of each request is
    call,       \* what it asks for
    status,     \* the status line handed to the caller
    line,       \* the body's way to the caller: open, ended as it should, or closed
    relayed,    \* pieces of it handed on
    stalled,    \* requests whose caller has stopped reading
    upstream,   \* the other side: none, got, answering, ended, closed early, broken
    frame,      \* how it frames its answer
    sent,       \* pieces it has sent
    reached,    \* history: how often the request has reached it
    revoked,    \* the keys revoked so far
    late        \* history: requests that arrived after the revoke of their key

caller == <<status, line, relayed, stalled>>
other == <<upstream, frame, sent, reached>>
vars == <<stage, call, caller, other, revoked, late>>

Stages == {"idle", "arrived", "sending", "touching", "streaming", "done"}

Goto(r, s) == stage' = [stage EXCEPT ![r] = s]
Finish(r, code) == Goto(r, "done") /\ status' = [status EXCEPT ![r] = code]
EndBody(r, how) == Goto(r, "done") /\ line' = [line EXCEPT ![r] = how]

\* Whether one who has got so many pieces takes the body for whole when its
\* connection is as it is.
LooksWhole(by, declared, got, end) ==
    CASE by = "length" -> got = declared
      [] by = "chunked" -> end = "ended"
      [] by = "close" -> end \in {"ended", "closed"}

\* A declared length is passed on; of anything else hyper makes chunks, unless the
\* caller speaks HTTP/1.0, which has none.
OutBy(r) ==
    IF frame[r].by = "length" THEN "length"
    ELSE IF call[r].version = "1.1" THEN "chunked" ELSE "close"

-----------------------------------------------------------------------------
Init ==
    /\ stage = [r \in Requests |-> "idle"]
    /\ call \in [Requests -> Call]
    /\ status = [r \in Requests |-> None]
    /\ line = [r \in Requests |-> "open"]
    /\ relayed = [r \in Requests |-> 0]
    /\ stalled = {}
    /\ upstream = [r \in Requests |-> "none"]
    /\ frame = [r \in Requests |-> None]
    /\ sent = [r \in Requests |-> 0]
    /\ reached = [r \in Requests |-> 0]
    /\ revoked = {}
    /\ late = {}

Revoke(k) ==
    /\ k \notin revoked
    /\ revoked' = revoked \cup {k}
    /\ UNCHANGED <<stage, call, caller, other, late>>

\* Steps 1 and 2: the service, then the bearer token, both without an await.
Arrive(r) ==
    LET c == call[r] IN
    /\ stage[r] = "idle"
    /\ \/ c.service \notin Served /\ Finish(r, 404)
       \/ c.service \in Served /\ c.key = None /\ Finish(r, 401)
       \/ /\ c.service \in Served /\ c.key # None
          /\ Goto(r, "arrived") /\ UNCHANGED status
    /\ late' = IF c.key \in revoked THEN late \cup {r} ELSE late
    /\ UNCHANGED <<call, line, relayed, stalled, other, revoked>>

\* Bug: a row found by its hash is taken for an active key.
VerifyRevoked(r) ==
    /\ stage[r] = "arrived"
    /\ \/ Scope[call[r].key] # call[r].service /\ Finish(r, 403)
       \/ Scope[call[r].key] = call[r].service /\ Goto(r, "sending") /\ UNCHANGED status
    /\ UNCHANGED <<call, line, relayed, stalled, other, revoked, late>>

\* The SELECT of keys::verify answers, or fails with a 500; then step 3.  The 500
\* stands also for an HTTP client that cannot be built (step 8), after no other await.
Verify(r) ==
    LET k == call[r].key IN
    /\ stage[r] = "arrived"
    /\ \/ Finish(r, 500)
       \/ k \in revoked /\ Finish(r, 401)
       \/ k \notin revoked /\ Scope[k] # call[r].service /\ Finish(r, 403)
       \/ /\ k \notin revoked /\ Scope[k] = call[r].service
          /\ Goto(r, "sending") /\ UNCHANGED status
    /\ UNCHANGED <<call, line, relayed, stalled, other, revoked, late>>

(* Step 8: connect and send, streaming the inbound body.                   *)

Reach(r) ==
    /\ stage[r] = "sending" /\ upstream[r] = "none"
    /\ upstream' = [upstream EXCEPT ![r] = "got"]
    /\ reached' = [reached EXCEPT ![r] = @ + 1]
    /\ UNCHANGED <<stage, call, caller, frame, sent, revoked, late>>

\* Connecting fails, the connection breaks before there is an answer, or the
\* caller's upload does.
SendFails(r) ==
    /\ stage[r] = "sending"
    /\ Finish(r, 502)
    /\ UNCHANGED <<call, line, relayed, stalled, other, revoked, late>>

\* The upstream's headers are here; its body is still to come.
Answer(r) ==
    /\ stage[r] = "sending" /\ upstream[r] = "got"
    /\ upstream' = [upstream EXCEPT ![r] = "answering"]
    /\ \E f \in Frame : frame' = [frame EXCEPT ![r] = f]
    /\ Goto(r, "touching")
    /\ UNCHANGED <<call, caller, sent, reached, revoked, late>>

\* Step 10: the lock of the usage buffer, for which the answer waits; then the
\* handler returns.
Touch(r) ==
    /\ stage[r] = "touching"
    /\ Goto(r, "streaming")
    /\ status' = [status EXCEPT ![r] = Relayed]
    /\ UNCHANGED <<call, line, relayed, stalled, other, revoked, late>>

(* The body, polled by the server whenever the caller takes more of it.  The *)
(* upstream's connection goes with the handler or the body it belongs to.    *)

Answering(r) == upstream[r] = "answering" /\ stage[r] \in {"touching", "streaming"}

SendPiece(r) ==
    /\ Answering(r)
    /\ sent[r] < IF frame[r].by = "length" THEN frame[r].pieces ELSE MaxPieces
    /\ sent' = [sent EXCEPT ![r] = @ + 1]
    /\ UNCHANGED <<stage, call, caller, upstream, frame, reached, revoked, late>>

\* The upstream has said all, and says so as its framing lets it.
UpstreamEnds(r) ==
    /\ Answering(r)
    /\ frame[r].by = "length" => sent[r] = frame[r].pieces
    /\ upstream' = [upstream EXCEPT ![r] = "ended"]
    /\ UNCHANGED <<stage, call, caller, frame, sent, reached, revoked, late>>

\* The connection is closed or reset before that, by the upstream, or by the HTTP
\* client when the caller's upload breaks.
UpstreamBreaks(r) ==
    /\ Answering(r) \/ (upstream[r] = "got" /\ stage[r] = "sending")
    /\ \E how \in {"closed", "broken"} : upstream' = [upstream EXCEPT ![r] = how]
    /\ UNCHANGED <<stage, call, caller, frame, sent, reached, revoked, late>>

Polled(r) == stage[r] = "streaming" /\ r \notin stalled

\* Bug: a piece is handed on again.
RelayAgain(r) ==
    /\ Polled(r) /\ sent[r] > 0 /\ relayed[r] <= sent[r]
    /\ relayed' = [relayed EXCEPT ![r] = @ + 1]
    /\ UNCHANGED <<stage, call, status, line, stalled, other, revoked, late>>

RelayPiece(r) ==
    /\ Polled(r) /\ relayed[r] < sent[r]
    /\ relayed' = [relayed EXCEPT ![r] = @ + 1]
    /\ UNCHANGED <<stage, call, status, line, stalled, other, revoked, late>>

\* Whether the stream of the HTTP client has come to its end.
Read(r) ==
    /\ frame[r].by = "length" \/ relayed[r] = sent[r]
    /\ LooksWhole(frame[r].by, frame[r].pieces, relayed[r], upstream[r])

RelayEnd(r) ==
    /\ Polled(r) /\ Read(r)
    /\ EndBody(r, "ended")
    /\ UNCHANGED <<call, status, relayed, stalled, other, revoked, late>>

\* Bug: an error of the stream is taken for its end.
RelayErrorAsEnd(r) ==
    /\ Polled(r) /\ ~Read(r)
    /\ upstream[r] = "broken" \/ (upstream[r] = "closed" /\ relayed[r] = sent[r])
    /\ EndBody(r, "ended")
    /\ UNCHANGED <<call, status, relayed, stalled, other, revoked, late>>

\* An error of the stream: the caller's connection is closed, and nothing else.
RelayError(r) ==
    /\ Polled(r) /\ ~Read(r)
    /\ upstream[r] = "broken" \/ (upstream[r] = "closed" /\ relayed[r] = sent[r])
    /\ EndBody(r, "closed")
    /\ UNCHANGED <<call, status, relayed, stalled, other, revoked, late>>

\* Bug: the timeout is over when the headers are here.
TimesOutOnHeaders(r) ==
    /\ stage[r] = "sending" /\ Finish(r, 504) /\ UNCHANGED line
    /\ UNCHANGED <<call, relayed, stalled, other, revoked, late>>

\* The client's timeout runs from the connect to the end of the body.  Within
\* send() it is a 504; after that it is one more error of the stream.
TimesOut(r) ==
    /\ \/ stage[r] = "sending" /\ Finish(r, 504) /\ UNCHANGED line
       \/ Polled(r) /\ EndBody(r, "closed") /\ UNCHANGED status
    /\ UNCHANGED <<call, relayed, stalled, other, revoked, late>>

(* The caller.                                                             *)

\* hyper drops the handler, or the body, and with it the upstream's connection.
CallerGone(r) ==
    /\ stage[r] \notin {"idle", "done"}
    /\ IF stage[r] = "streaming" THEN EndBody(r, "closed") ELSE Goto(r, "done") /\ UNCHANGED line
    /\ UNCHANGED <<call, status, relayed, stalled, other, revoked, late>>

CallerStalls(r) ==
    /\ stage[r] = "streaming"
    /\ stalled' = IF r \in stalled THEN stalled \ {r} ELSE stalled \cup {r}
    /\ UNCHANGED <<stage, call, status, line, relayed, other, revoked, late>>

Next ==
    \/ \E k \in Keys : Revoke(k)
    \/ \E r \in Requests :
        \/ Arrive(r) \/ Verify(r) \/ Touch(r)
        \/ Reach(r) \/ SendFails(r) \/ Answer(r)
        \/ SendPiece(r) \/ UpstreamEnds(r) \/ UpstreamBreaks(r)
        \/ RelayPiece(r) \/ RelayEnd(r) \/ RelayError(r)
        \/ TimesOut(r) \/ CallerGone(r) \/ CallerStalls(r)

Spec == Init /\ [][Next]_vars

(* Queries are answered (busy_timeout), the lock of the buffer is held for  *)
(* one drain, and timers fire.  Nothing is assumed of upstreams or callers. *)
FairSpec ==
    /\ Spec
    /\ \A r \in Requests : WF_vars(Verify(r)) /\ WF_vars(Touch(r)) /\ WF_vars(TimesOut(r))

-----------------------------------------------------------------------------
(* Properties                                                              *)

\* Everything has its type, and no piece is relayed that was not sent.
TypeOK ==
    /\ stage \in [Requests -> Stages]
    /\ call \in [Requests -> Call]
    /\ status \in [Requests -> Statuses]
    /\ line \in [Requests -> {"open", "ended", "closed"}]
    /\ relayed \in [Requests -> Nat]
    /\ stalled \subseteq Requests
    /\ upstream \in [Requests -> {"none", "got", "answering", "ended", "closed", "broken"}]
    /\ frame \in [Requests -> Frame \cup {None}]
    /\ sent \in [Requests -> Nat]
    /\ reached \in [Requests -> Nat]
    /\ revoked \subseteq Keys
    /\ late \subseteq Requests
    /\ \A r \in Requests : relayed[r] <= sent[r]

\* A request that Pietro refuses, or that arrives after the revoke of its key,
\* never reaches an upstream, however its steps and the revoke interleave; and
\* whatever times out or breaks, an upstream sees any other at most once.
RefusedNeverReach ==
    \A r \in Requests :
        reached[r] <= IF r \in late \/ status[r] \in Refusals THEN 0 ELSE 1

\* Pietro adds no truncation that cannot be seen: whatever breaks or times out, a body
\* that its caller takes for whole has every piece that was sent, and a client of the
\* upstream itself would take it for whole too.  Not so for a caller that speaks
\* HTTP/1.0 and gets no length: to it every end looks like a whole body.
WholeIsWhole ==
    \A r \in Requests :
        LET f == frame[r] IN
        f # None /\ OutBy(r) # "close" /\ LooksWhole(OutBy(r), f.pieces, relayed[r], line[r])
            => relayed[r] = sent[r] /\ LooksWhole(f.by, f.pieces, sent[r], upstream[r])

\* A request that has arrived ends, whatever its upstream does, unless its own
\* caller keeps stopping to read the answer.
Ends ==
    \A r \in Requests : stage[r] # "idle" ~> stage[r] = "done" \/ r \in stalled

=============================================================================
