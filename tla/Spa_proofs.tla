------------------------------ MODULE Spa_proofs ------------------------------
(***************************************************************************)
(* What the application tells its user, for any number of calls in flight  *)
(* and whatever the builds and their routes.                               *)
(***************************************************************************)
EXTENDS Spa, SequenceTheorems, TLAPS

-----------------------------------------------------------------------------
(* The routes                                                              *)

LEMMA SegmentsDiffer ==
    /\ AnySegment # "healthz" /\ AnySegment # "api" /\ AnySegment # "proxy"
    /\ AnySegment # "assets" /\ AnySegment # Empty
    /\ AnyRest # "healthz" /\ AnyRest # AnySegment /\ AnyRest # Empty
<1>1. AnySegment # "healthz" /\ AnySegment # "api" /\ AnySegment # "proxy"
      /\ AnySegment # "assets" /\ AnySegment # Empty
  BY Zenon DEF AnySegment, Empty
<1>2. AnyRest # "healthz" /\ AnyRest # AnySegment /\ AnyRest # Empty
  BY Zenon DEF AnySegment, AnyRest, Empty
<1> QED
  BY <1>1, <1>2

\* A pattern's first segment, never a parameter, is that of a path it matches.
LEMMA FirstSegment ==
    ASSUME NEW path, NEW p, Len(p) \in Nat \ {0}, p[1] # AnySegment,
           Len(p) # 1 \/ p[1] # AnyRest, Matches(p, path)
    PROVE  path[1] = p[1]
<1> DEFINE n == Len(p)
<1>1. CASE p[n] = AnyRest
  <2>1. 1 \in 1..(n - 1)
    <3>1. n # 1 /\ n \in Nat \ {0}
      BY <1>1
    <3> HIDE DEF n
    <3> QED
      BY <3>1
  <2>2. \A i \in 1..(n - 1) : Segment(p, path, i)
    BY <1>1 DEF Matches
  <2>3. Segment(p, path, 1)
    BY <2>1, <2>2
  <2> QED
    BY <2>3 DEF Segment
<1>2. CASE p[n] # AnyRest
  <2>1. 1 \in 1..n
    OBVIOUS
  <2>2. \A i \in 1..n : Segment(p, path, i)
    BY <1>2 DEF Matches
  <2>3. Segment(p, path, 1)
    BY <2>1, <2>2
  <2> QED
    BY <2>3 DEF Segment
<1> QED
  BY <1>1, <1>2

LEMMA FirstOfOne ==
    ASSUME NEW path, NEW a, a \notin {AnySegment, AnyRest}, Matches(<<a>>, path)
    PROVE  path[1] = a
<1> DEFINE p == <<a>>
<1>1. Len(p) \in Nat \ {0} /\ p[1] # AnyRest /\ p[1] # AnySegment /\ p[1] = a /\ Matches(p, path)
  OBVIOUS
<1> HIDE DEF p
<1> QED
  BY <1>1, FirstSegment

LEMMA FirstOfTwo ==
    ASSUME NEW path, NEW a, NEW b, a # AnySegment, Matches(<<a, b>>, path)
    PROVE  path[1] = a
<1> DEFINE p == <<a, b>>
<1>1. Len(p) \in Nat \ {0} /\ Len(p) # 1 /\ p[1] # AnySegment /\ p[1] = a /\ Matches(p, path)
  OBVIOUS
<1> HIDE DEF p
<1> QED
  BY <1>1, FirstSegment

LEMMA FirstOfThree ==
    ASSUME NEW path, NEW a, NEW b, NEW c, a # AnySegment, Matches(<<a, b, c>>, path)
    PROVE  path[1] = a
<1> DEFINE p == <<a, b, c>>
<1>1. Len(p) \in Nat \ {0} /\ Len(p) # 1 /\ p[1] # AnySegment /\ p[1] = a /\ Matches(p, path)
  OBVIOUS
<1> HIDE DEF p
<1> QED
  BY <1>1, FirstSegment

\* What a path's first segment says of a route it comes to.
LEMMA RoutesOfPaths ==
    ASSUME NEW path, NEW r \in build_router, Matches(r.pattern, path)
    PROVE  /\ path[1] \in {"healthz", "api", "proxy", "assets"}
           /\ path[1] = "assets" <=> r.to = "serve_asset"
           /\ path[1] = "proxy" => r.to \in {"forward", "forward_bare"}
           /\ r.to \notin {"fallback", "method_not_allowed", "page", "notice", "file"}
<1>1. CASE r = Get(<<"healthz">>, "healthz")
  <2>1. path[1] = "healthz"
    BY <1>1, FirstOfOne, SegmentsDiffer DEF Get
  <2> QED
    BY <1>1, <2>1 DEF Get
<1>2. CASE \E b, on, to :
          /\ r = [pattern |-> <<"api", b>>, on |-> on, to |-> to]
          /\ to \in {"me", "list_services", "list_keys", "mint_key"}
  <2>1. PICK b : r.pattern = <<"api", b>>
    BY <1>2
  <2>2. path[1] = "api"
    BY <2>1, FirstOfTwo, SegmentsDiffer
  <2> QED
    BY <1>2, <2>2
<1>3. CASE \E b, c, on, to :
          /\ r = [pattern |-> <<"api", b, c>>, on |-> on, to |-> to]
          /\ to \in {"revoke_key", "login", "callback", "logout"}
  <2>1. PICK b, c : r.pattern = <<"api", b, c>>
    BY <1>3
  <2>2. path[1] = "api"
    BY <2>1, FirstOfThree, SegmentsDiffer
  <2> QED
    BY <1>3, <2>2
<1>4. CASE r = Every(<<"proxy", AnySegment>>, "forward_bare")
  <2>1. path[1] = "proxy"
    BY <1>4, FirstOfTwo, SegmentsDiffer DEF Every
  <2> QED
    BY <1>4, <2>1 DEF Every
<1>5. CASE r = Every(<<"proxy", AnySegment, Empty>>, "forward_bare")
  <2>1. path[1] = "proxy"
    BY <1>5, FirstOfThree, SegmentsDiffer DEF Every
  <2> QED
    BY <1>5, <2>1 DEF Every
<1>6. CASE r = Every(<<"proxy", AnySegment, AnyRest>>, "forward")
  <2>1. path[1] = "proxy"
    BY <1>6, FirstOfThree, SegmentsDiffer DEF Every
  <2> QED
    BY <1>6, <2>1 DEF Every
<1>7. CASE r = Get(<<"assets", AnyRest>>, "serve_asset")
  <2>1. path[1] = "assets"
    BY <1>7, FirstOfTwo, SegmentsDiffer DEF Get
  <2> QED
    BY <1>7, <2>1 DEF Get
<1> QED
  BY <1>1, <1>2, <1>3, <1>4, <1>5, <1>6, <1>7 DEF build_router, Get

\* A path comes to a route it matches, if there is one.
LEMMA HandlerIsRouted ==
    ASSUME NEW m, NEW path
    PROVE  \/ /\ Handler(m, path) = "fallback"
              /\ \A r \in build_router : ~Matches(r.pattern, path)
           \/ /\ Handler(m, path) = "method_not_allowed"
              /\ \A r \in build_router : Matches(r.pattern, path) => m \notin r.on
           \/ \E r \in build_router : Handler(m, path) = r.to /\ Matches(r.pattern, path)
<1> DEFINE routed == {r \in build_router : Matches(r.pattern, path)}
           taking == {r \in routed : m \in r.on}
<1>1. Handler(m, path) = IF routed = {} THEN "fallback"
                         ELSE IF taking = {} THEN "method_not_allowed"
                         ELSE (CHOOSE r \in taking : TRUE).to
  BY DEF Handler
<1>2. taking # {} => (CHOOSE r \in taking : TRUE) \in taking
  OBVIOUS
<1> QED
  BY <1>1, <1>2

LEMMA RestIsNotEmpty ==
    ASSUME NEW S, NEW path \in Seq(S), NEW n \in Nat \ {0}, Len(path) >= n,
           Len(path) > n \/ path[n] # Empty
    PROVE  SubSeq(path, n, Len(path)) # <<Empty>>
<1> DEFINE m == Len(path)
           rest == SubSeq(path, n, m)
<1>1. m \in Nat /\ n \in 1..m /\ m - n + 1 \in Nat
  BY LenProperties
<1>2. /\ Len(rest) = m - n + 1
      /\ \A i \in 1..(m - n + 1) : rest[i] = path[n + i - 1]
  BY <1>1, SubSeqProperties
<1>3. rest[1] = path[n]
  BY <1>1, <1>2
<1> HIDE DEF rest
<1>4. rest = <<Empty>> => Len(rest) = 1 /\ rest[1] = Empty
  OBVIOUS
<1>5. Len(path) > n => Len(rest) # 1
  <2>1. m > n => m - n + 1 # 1
    <3> HIDE DEF m
    <3> QED
      BY <1>1
  <2> QED
    BY <1>2, <2>1
<1>6. rest # <<Empty>>
  BY <1>3, <1>4, <1>5
<1> QED
  BY <1>6 DEF rest

LEMMA AssetsMatch ==
    ASSUME NEW S, NEW path \in Seq(S), Len(path) > 1, path[1] = "assets",
           Len(path) > 2 \/ path[2] # Empty
    PROVE  \E r \in build_router : Matches(r.pattern, path)
<1> DEFINE p == <<"assets", AnyRest>>
<1>1. Len(p) = 2 /\ p[1] = "assets" /\ p[2] = AnyRest /\ Len(path) \in Nat
  BY LenProperties
<1>2. Get(p, "serve_asset") \in build_router
  BY DEF build_router
<1>3. Get(p, "serve_asset").pattern = p
  BY DEF Get
<1> HIDE DEF p
<1>4. SubSeq(path, 2, Len(path)) # <<Empty>>
  BY RestIsNotEmpty
<1>5. Len(path) >= 2 /\ \A i \in 1..(2 - 1) : Segment(p, path, i)
  BY <1>1 DEF Segment
<1>6. Matches(p, path)
  BY <1>1, <1>4, <1>5 DEF Matches
<1> QED
  BY <1>2, <1>3, <1>6

LEMMA ProxyMatches ==
    ASSUME NEW S, NEW path \in Seq(S), Len(path) > 1, path[1] = "proxy", path[2] # Empty,
           NEW m \in Methods
    PROVE  \E r \in build_router : Matches(r.pattern, path) /\ m \in r.on
<1>0. Len(path) \in Nat
  BY LenProperties
<1>1. CASE Len(path) = 2
  <2> DEFINE p == <<"proxy", AnySegment>>
  <2>1. Len(p) = 2 /\ p[1] = "proxy" /\ p[2] = AnySegment /\ AnySegment # AnyRest
    BY SegmentsDiffer
  <2>2. /\ Every(p, "forward_bare") \in build_router
        /\ Every(p, "forward_bare").pattern = p /\ m \in Every(p, "forward_bare").on
    BY DEF build_router, Every
  <2> HIDE DEF p
  <2>3. \A i \in 1..2 : Segment(p, path, i)
    BY <2>1 DEF Segment
  <2>4. Matches(p, path)
    BY <1>1, <2>1, <2>3 DEF Matches
  <2> QED
    BY <2>2, <2>4
<1>2. CASE Len(path) = 3 /\ path[3] = Empty
  <2> DEFINE p == <<"proxy", AnySegment, Empty>>
  <2>1. Len(p) = 3 /\ p[1] = "proxy" /\ p[2] = AnySegment /\ p[3] = Empty /\ Empty # AnyRest
    BY SegmentsDiffer
  <2>2. /\ Every(p, "forward_bare") \in build_router
        /\ Every(p, "forward_bare").pattern = p /\ m \in Every(p, "forward_bare").on
    BY DEF build_router, Every
  <2> HIDE DEF p
  <2>3. \A i \in 1..3 : Segment(p, path, i)
    BY <1>2, <2>1 DEF Segment
  <2>4. Matches(p, path)
    BY <1>2, <2>1, <2>3 DEF Matches
  <2> QED
    BY <2>2, <2>4
<1>3. CASE Len(path) > 3 \/ (Len(path) = 3 /\ path[3] # Empty)
  <2> DEFINE p == <<"proxy", AnySegment, AnyRest>>
  <2>1. Len(p) = 3 /\ p[1] = "proxy" /\ p[2] = AnySegment /\ p[3] = AnyRest
    OBVIOUS
  <2>2. /\ Every(p, "forward") \in build_router
        /\ Every(p, "forward").pattern = p /\ m \in Every(p, "forward").on
    BY DEF build_router, Every
  <2> HIDE DEF p
  <2>3. Len(path) >= 3 /\ SubSeq(path, 3, Len(path)) # <<Empty>>
    BY <1>0, <1>3, RestIsNotEmpty
  <2>4. \A i \in 1..(3 - 1) : Segment(p, path, i)
    BY <2>1 DEF Segment
  <2>5. Matches(p, path)
    BY <2>1, <2>3, <2>4 DEF Matches
  <2> QED
    BY <2>2, <2>5
<1>4. Len(path) = 2 \/ Len(path) = 3 \/ Len(path) > 3
  <2> DEFINE n == Len(path)
  <2>1. n \in Nat /\ n > 1
    BY <1>0
  <2> HIDE DEF n
  <2>2. n = 2 \/ n = 3 \/ n > 3
    BY <2>1
  <2> QED
    BY <2>2 DEF n
<1> QED
  BY <1>1, <1>2, <1>3, <1>4, Zenon

\* A path below /assets/ is never answered with the page.
LEMMA AssetsAreNoPages ==
    ASSUME NEW S, NEW path \in Seq(S), Len(path) > 1, path[1] = "assets",
           Len(path) > 2 \/ path[2] # Empty, NEW m, NEW b
    PROVE  /\ Handler(m, path) \in {"serve_asset", "method_not_allowed"}
           /\ Served(m, path, b) # "page"
<1>1. Handler(m, path) \in {"serve_asset", "method_not_allowed"}
  BY AssetsMatch, HandlerIsRouted, RoutesOfPaths
<1>2. path # <<"index.html">>
  <2>1. <<"index.html">>[1] = "index.html"
    OBVIOUS
  <2> QED
    BY <2>1
<1>3. serve_asset(path, b) # "page"
  BY <1>2 DEF serve_asset, serve_embedded
<1> QED
  BY <1>1, <1>3 DEF Served

LEMMA RoutesKept == RoutesAreKept
<1> SUFFICES ASSUME NEW b \in Released, NEW m \in Methods, NEW path \in Paths, Len(path) > 1
    PROVE  /\ path[1] \in {"api", "proxy"} => Served(m, path, b) \notin {"page", "notice", "file"}
           /\ path[1] = "assets" /\ path # <<"assets", Empty>> => Served(m, path, b) # "page"
           /\ path[1] = "proxy" /\ path[2] # Empty => Handler(m, path) \in {"forward", "forward_bare"}
  BY DEF RoutesAreKept
<1>1. path \in Seq(STRING) /\ Len(path) \in Nat
  BY PathsAssumption, LenProperties
<1>2. ASSUME path[1] \in {"api", "proxy"}
      PROVE  Served(m, path, b) \notin {"page", "notice", "file"}
  <2>1. /\ Handler(m, path) # "serve_asset"
        /\ Handler(m, path) \notin {"page", "notice", "file"}
    BY <1>2, HandlerIsRouted, RoutesOfPaths
  <2>2. fallback(path, b) = "json_not_found"
    BY <1>2 DEF fallback, is_api_or_proxy_path
  <2> QED
    BY <2>1, <2>2 DEF Served
<1>3. ASSUME path[1] = "assets", path # <<"assets", Empty>>
      PROVE  Served(m, path, b) # "page"
  <2>1. Len(path) > 2 \/ path[2] # Empty
    <3> DEFINE n == Len(path)
               t == <<"assets", path[2]>>
    <3>1. n = 2 \/ n > 2
      <4> HIDE DEF n
      <4>1. n \in Nat /\ n > 1
        BY <1>1 DEF n
      <4> QED
        BY <4>1
    <3>2. ASSUME n = 2, path[2] = Empty PROVE FALSE
      <4> DEFINE T == STRING \cup {"assets"}
      <4>1. path \in Seq(T) /\ path[2] \in T /\ "assets" \in T
        <5>1. path[2] \in STRING
          BY <1>1, <3>2
        <5> QED
          BY <1>1, <5>1, SeqMonotonic
      <4> HIDE DEF T
      <4>2. t \in Seq(T) /\ Len(t) = 2 /\ t[1] = "assets" /\ t[2] = path[2]
        BY <4>1
      <4> HIDE DEF t
      <4>3. \A i \in 1..2 : path[i] = t[i]
        BY <1>3, <4>2
      <4>4. path = t
        BY <3>2, <4>1, <4>2, <4>3, SeqEqual
      <4> QED
        BY <1>3, <3>2, <4>4 DEF t
    <3> QED
      BY <3>1, <3>2
  <2> QED
    BY <1>1, <1>3, <2>1, AssetsAreNoPages
<1>4. ASSUME path[1] = "proxy", path[2] # Empty
      PROVE  Handler(m, path) \in {"forward", "forward_bare"}
  BY <1>1, <1>4, ProxyMatches, HandlerIsRouted, RoutesOfPaths
<1> QED
  BY <1>2, <1>3, <1>4

-----------------------------------------------------------------------------
LEMMA NoneIsOther == None \notin Call /\ None \notin Slots /\ None \notin {"told", "lost"}
  BY NoneAssumption

LEMMA ActsAreOther ==
    /\ Slots = {"me", "load"} \cup Acts
    /\ \A c \in Acts : c \notin {"me", "load", "told", "lost", None}
  BY ActsAssumption, NoneAssumption DEF Slots

-----------------------------------------------------------------------------
(* Calls                                                                   *)

Form == [ready : BOOLEAN, submitting : BOOLEAN, error : BOOLEAN, minted : BOOLEAN]

\* What the properties rest on: each slot holds calls of its own kinds, and those
\* that only read are the page's own.
Typed ==
    /\ session \in BOOLEAN /\ left \in BOOLEAN /\ late \in BOOLEAN /\ excuse \in BOOLEAN
    /\ key \in Acts \cup {None, "told", "lost"}
    /\ form \in Form
    /\ calls \in [Slots -> Call \cup {None}]
    /\ \A c \in Slots : calls[c] # None =>
        IF c \in Acts THEN calls[c].kind \in {"mint", "other", "logout"}
        ELSE calls[c].kind = c /\ calls[c].mount = "here"

KindFits(c, d) ==
    \/ d = None
    \/ IF c \in Acts THEN d.kind \in {"mint", "other", "logout"} ELSE d.kind = c /\ d.mount = "here"

LEMMA NewCallType ==
    ASSUME NEW kind \in {"me", "load", "mint", "other", "logout"}
    PROVE  /\ NewCall(kind) \in Call /\ NewCall(kind).kind = kind
           /\ NewCall(kind).reply = "none" /\ NewCall(kind).mount = "here"
  BY DEF NewCall, Call

\* An answer changes one call, and of it only the reply.
LEMMA RepliedCall ==
    ASSUME Typed, NEW c \in Slots, calls[c] # None,
           NEW r \in {"none", "200", "401", "409", "failed"}, Replies(c, r)
    PROVE  /\ calls'[c] \in Call /\ calls'[c].reply = r
           /\ calls'[c].kind = calls[c].kind /\ calls'[c].mount = calls[c].mount
           /\ \A d \in Slots \ {c} : calls'[d] = calls[d]
           /\ calls' \in [Slots -> Call \cup {None}]
<1>1. calls[c] \in Call /\ calls'[c] = [calls[c] EXCEPT !.reply = r]
      /\ \A d \in Slots \ {c} : calls'[d] = calls[d]
  BY DEF Typed, Replies
<1>2. /\ calls'[c] \in Call /\ calls'[c].reply = r
      /\ calls'[c].kind = calls[c].kind /\ calls'[c].mount = calls[c].mount
  BY <1>1 DEF Call
<1> QED
  BY <1>1, <1>2 DEF Typed, Replies

\* Leaving a page ends its reads; its mints and logouts go on without it.
LEMMA AbandonedCall ==
    ASSUME Typed, NEW m \in {"left", "gone"}, NEW s \in Slots, calls[s] # None
    PROVE  /\ Abandoned(m)[s] \in Call \cup {None}
           /\ s \in Acts /\ calls[s].kind # "other" => Abandoned(m)[s] # None
           /\ s \in Acts /\ Abandoned(m)[s] # None => Abandoned(m)[s].mount # "here"
           /\ s \notin Acts => Abandoned(m)[s] \in {None, calls[s]}
           /\ Abandoned(m)[s] # None =>
                /\ Abandoned(m)[s].kind = calls[s].kind
                /\ Abandoned(m)[s].reply = calls[s].reply
                /\ calls[s].mount = "gone" => Abandoned(m)[s].mount = "gone"
                /\ m = "gone" => Abandoned(m)[s].mount = "gone"
<1>1. calls[s] \in Call
  BY DEF Typed
<1>0. CASE m = "gone" /\ Other(s)
  BY <1>0 DEF Abandoned, Other
<1>2. CASE s \in Acts /\ calls[s].mount # "gone" /\ ~(m = "gone" /\ Other(s))
  <2>1. Abandoned(m)[s] = [calls[s] EXCEPT !.mount = m]
    BY <1>2, ActsAreOther DEF Abandoned
  <2>2. /\ Abandoned(m)[s] \in Call /\ Abandoned(m)[s].mount = m
        /\ Abandoned(m)[s].kind = calls[s].kind /\ Abandoned(m)[s].reply = calls[s].reply
    BY <1>1, <2>1 DEF Call
  <2> QED
    BY <1>2, <2>2, NoneIsOther, ActsAreOther
<1>3. CASE s \in Acts /\ calls[s].mount = "gone" /\ ~(m = "gone" /\ Other(s))
  BY <1>1, <1>3, ActsAreOther, NoneIsOther DEF Abandoned
<1>4. CASE s \notin Acts
  BY <1>1, <1>4, ActsAreOther DEF Abandoned
<1> QED
  BY <1>0, <1>2, <1>3, <1>4

LEMMA AbandonedType ==
    ASSUME Typed, NEW m \in {"left", "gone"}
    PROVE  /\ Abandoned(m) \in [Slots -> Call \cup {None}]
           /\ \A s \in Slots : KindFits(s, Abandoned(m)[s])
           /\ \A s \in Slots : calls[s] = None => Abandoned(m)[s] = None
<1>1. \A s \in Slots : calls[s] = None => Abandoned(m)[s] = None
  BY DEF Abandoned, Other
<1>2. ASSUME NEW s \in Slots
      PROVE  Abandoned(m)[s] \in Call \cup {None} /\ KindFits(s, Abandoned(m)[s])
  BY <1>1, AbandonedCall DEF Typed, KindFits
<1>3. Abandoned(m) = [s \in Slots |-> Abandoned(m)[s]]
  BY DEF Abandoned
<1> QED
  BY <1>1, <1>2, <1>3

CallsType(f) ==
    /\ f \in [Slots -> Call \cup {None}]
    /\ \A s \in Slots : KindFits(s, f[s])

LEMMA UpdatedType ==
    ASSUME NEW f, CallsType(f), NEW c \in Slots, NEW d \in Call \cup {None}, KindFits(c, d)
    PROVE  CallsType([f EXCEPT ![c] = d])
  BY DEF CallsType

LEMMA CurrentType == ASSUME Typed PROVE CallsType(calls)
  BY DEF Typed, CallsType, KindFits

LEMMA EndedType == ASSUME NEW f, CallsType(f), NEW c \in Slots PROVE CallsType([f EXCEPT ![c] = None])
  BY UpdatedType DEF KindFits

LEMMA FormType == Blank \in Form /\ Blank.submitting = FALSE /\ Blank.error = FALSE
  BY DEF Blank, Form

\* The calls after each kind of step.
LEMMA CallsSteps == ASSUME Typed, [Next]_vars PROVE CallsType(calls)'
<1>1. CASE calls' = calls
  BY <1>1, CurrentType
<1>2. ASSUME NEW c \in Slots, Done(c) PROVE CallsType(calls)'
  BY <1>2, CurrentType, EndedType DEF Done
<1>3. ASSUME NEW c \in Slots, ToLogin(c) PROVE CallsType(calls)'
  <2>1. CallsType(Abandoned("left"))
    BY AbandonedType DEF CallsType
  <2> QED
    BY <1>3, <2>1, EndedType DEF ToLogin
<1>4. ASSUME NEW r, Load(r) PROVE CallsType(calls)'
  BY <1>4, AbandonedType DEF Load, CallsType
<1>5. ASSUME NEW c \in Slots, NEW r \in {"none", "200", "401", "409", "failed"},
             calls[c] # None, Replies(c, r)
      PROVE  CallsType(calls)'
  BY <1>5, RepliedCall, CurrentType DEF CallsType, KindFits
<1>6. ASSUME NEW c \in Slots, Handle(c) \/ Fails(c) PROVE CallsType(calls)'
  <2>1. calls[c] # None /\ \E r \in {"200", "401", "409", "failed"} : Replies(c, r)
    BY <1>6 DEF Handle, Fails, me, list_services, AuthenticatedUser
  <2> QED
    BY <1>5, <2>1
<1>7. ASSUME NEW r \in {"/", "/new", "/login"}, Goto(r) PROVE CallsType(calls)'
  <2>1. CallsType(Abandoned("left")) /\ "load" \in Slots
    BY AbandonedType, ActsAreOther DEF CallsType
  <2>2. KindFits("load", NewCall("load")) /\ NewCall("load") \in Call /\ KindFits("load", None)
    BY NewCallType, ActsAreOther DEF KindFits
  <2> QED
    BY <1>7, <2>1, <2>2, UpdatedType DEF Goto
<1>8. CASE LoadScript
  <2>1. KindFits("me", NewCall("me")) /\ NewCall("me") \in Call /\ "me" \in Slots
    BY NewCallType, ActsAreOther DEF KindFits
  <2>2. calls' = calls \/ calls' = [calls EXCEPT !["me"] = NewCall("me")]
    BY <1>8 DEF LoadScript
  <2> QED
    BY <2>1, <2>2, CurrentType, UpdatedType
<1>9. ASSUME NEW c \in Slots, Probed(c) PROVE CallsType(calls)'
  <2>1. KindFits("load", NewCall("load")) /\ NewCall("load") \in Call /\ "load" \in Slots
        /\ KindFits("load", None)
    BY NewCallType, ActsAreOther DEF KindFits
  <2>2. CallsType([calls EXCEPT ![c] = None])
    BY CurrentType, EndedType
  <2>3. \A d \in {None, NewCall("load")} : CallsType([[calls EXCEPT ![c] = None] EXCEPT !["load"] = d])
    BY <2>1, <2>2, UpdatedType
  <2>4. \/ \E d \in {None, NewCall("load")} : calls' = [calls EXCEPT ![c] = None, !["load"] = d]
        \/ Done(c) \/ ToLogin(c)
    BY <1>9 DEF Probed
  <2> QED
    BY <1>2, <1>3, <2>3, <2>4
<1>10. ASSUME NEW c \in Acts, SignOut(c) \/ \E kind \in Minting : Submit(c, kind)
       PROVE  CallsType(calls)'
  <2>1. PICK kind \in {"mint", "other", "logout"} : calls' = [calls EXCEPT ![c] = NewCall(kind)]
    BY <1>10 DEF Submit, SignOut, Minting
  <2>2. KindFits(c, NewCall(kind)) /\ NewCall(kind) \in Call /\ c \in Slots
    BY NewCallType, ActsAreOther DEF KindFits
  <2> QED
    BY <2>1, <2>2, CurrentType, UpdatedType
<1>11. ASSUME NEW c \in Slots, PageLoaded(c) \/ Submitted(c) \/ SubmittedLate(c) \/ SignedOut(c)
       PROVE  CallsType(calls)'
  <2>1. Done(c) \/ ToLogin(c)
    BY <1>11 DEF PageLoaded, Submitted, SubmittedLate, SignedOut
  <2> QED
    BY <1>2, <1>3, <2>1
<1> QED
  BY <1>1, <1>4, <1>6, <1>7, <1>8, <1>9, <1>10, <1>11
     DEF Next, Receive, Visit, SignIn, SessionEnds, SubmitBlank, LateMint, Revoke, Deploy, vars

LEMMA TypedSteps == ASSUME Typed, [Next]_vars PROVE Typed'
<1> DEFINE Rest == /\ session' \in BOOLEAN /\ left' \in BOOLEAN /\ late' \in BOOLEAN
                   /\ excuse' \in BOOLEAN
                   /\ key' \in Acts \cup {None, "told", "lost"}
                   /\ form' \in Form
<1>1. ASSUME NEW c \in Slots, Receive(c) PROVE Rest
  <2>1. /\ [form EXCEPT !.ready = TRUE] \in Form /\ [form EXCEPT !.error = TRUE] \in Form
        /\ [form EXCEPT !.submitting = FALSE, !.minted = Reply(c) = "200",
                        !.error = Reply(c) # "200"] \in Form
    BY DEF Typed, Form
  <2>2. CASE Probed(c) \/ PageLoaded(c)
    BY <2>1, <2>2, FormType DEF Probed, PageLoaded, ToLogin, Leaves, Done, marks, Typed
  <2>3. CASE Submitted(c) \/ SubmittedLate(c) \/ SignedOut(c)
    BY <2>1, <2>3, FormType DEF Submitted, SubmittedLate, SignedOut, ToLogin, Leaves, Done,
       Lost, marks, Typed
  <2> QED
    BY <1>1, <2>2, <2>3 DEF Receive
<1>2. ASSUME NEW c \in Slots, Handle(c) PROVE Rest
  <2>1. calls[c] # None /\ (c \in Acts \/ calls[c].kind # "mint")
    BY <1>2, ActsAreOther DEF Handle, Typed
  <2> QED
    BY <1>2, <2>1 DEF Handle, page, marks, Typed
<1>3. ASSUME NEW c \in Slots, Fails(c) PROVE Rest
  BY <1>3 DEF Fails, page, marks, Typed
<1>4. ASSUME NEW c \in Acts, SignOut(c) \/ \E kind \in Minting : Submit(c, kind) PROVE Rest
  <2>1. form' \in Form
    BY <1>4 DEF Submit, SignOut, page, Typed, Form
  <2>2. /\ session' = session /\ key' = key /\ excuse' = excuse
        /\ UNCHANGED marks \/ Leaves
    BY <1>4 DEF Submit, SignOut, page
  <2>3. left' \in BOOLEAN /\ late' \in BOOLEAN
    BY <2>2 DEF Leaves, marks, Typed
  <2> QED
    BY <2>1, <2>2, <2>3 DEF Typed
<1>5. ASSUME NEW r, Load(r) \/ Goto(r)
      PROVE  left' \in BOOLEAN /\ late' \in BOOLEAN /\ excuse' \in BOOLEAN /\ form' \in Form
  <2>1. /\ form' = Blank /\ late' = late /\ late \in BOOLEAN
        /\ left' = (late \/ ~Seen) /\ excuse' = (r = "/login")
    BY <1>5 DEF Load, Goto, Leaves, Typed
  <2>2. left' \in BOOLEAN /\ excuse' \in BOOLEAN
    BY <2>1, Zenon
  <2> QED
    BY <2>1, <2>2, FormType
<1>6. ASSUME NEW r, Visit(r) \/ Goto(r) PROVE Rest
  <2>1. session' = session /\ key' = key /\ (Load(r) \/ Goto(r))
    BY <1>6 DEF Visit, Goto
  <2> QED
    BY <1>5, <2>1 DEF Typed
<1>7. ASSUME SignIn PROVE Rest
  BY <1>5, <1>7 DEF SignIn, Typed
<1>8. ASSUME \/ LoadScript \/ SubmitBlank \/ LateMint \/ SessionEnds \/ Revoke \/ Deploy
             \/ UNCHANGED vars
      PROVE  Rest
  <2>1. [form EXCEPT !.error = TRUE] \in Form
    BY DEF Typed, Form
  <2> QED
    BY <1>8, <2>1 DEF LoadScript, SubmitBlank, LateMint, SessionEnds, Revoke, Deploy, Leaves, page,
       marks, vars, Typed
<1>9. Rest
  BY <1>1, <1>2, <1>3, <1>4, <1>6, <1>7, <1>8 DEF Next
<1>10. CallsType(calls)'
  BY CallsSteps
<1> QED
  BY <1>9, <1>10 DEF Typed, CallsType, KindFits

-----------------------------------------------------------------------------
(* The login page                                                          *)

\* An answer that takes its page to the login page is true of the session until
\* a new document is loaded, which is how a session begins.
AnswerFits(d) ==
    d # None /\ d.mount # "gone" =>
        /\ d.reply = "401" \/ (d.kind = "logout" /\ d.reply = "200") => ~session
        /\ d.reply = "409" => d.kind \in Minting
        /\ d.reply = "401" => d.kind # "logout"

LoginInv ==
    /\ at = "/login" /\ session => excuse
    /\ \A s \in Slots : AnswerFits(calls[s])

LEMMA AbandonedFits ==
    ASSUME Typed, NEW m \in {"left", "gone"}, NEW s \in Slots, AnswerFits(calls[s])
    PROVE  /\ AnswerFits(Abandoned(m)[s])
           /\ m = "gone" => Abandoned(m)[s] = None \/ Abandoned(m)[s].mount = "gone"
<1>1. CASE calls[s] = None
  BY <1>1, AbandonedType DEF AnswerFits
<1>2. CASE calls[s] # None
  BY <1>2, AbandonedCall DEF AnswerFits
<1> QED
  BY <1>1, <1>2

LEMMA NewFits == \A kind \in {"me", "load", "mint", "other", "logout"} : AnswerFits(NewCall(kind))
  BY NewCallType DEF AnswerFits

LEMMA NoneFits == AnswerFits(None)
  BY DEF AnswerFits

\* The calls in flight after each kind of step.
LEMMA FitsSteps ==
    ASSUME Typed, \A s \in Slots : AnswerFits(calls[s]), [Next]_vars
    PROVE  \A s \in Slots : AnswerFits(calls[s])'
<1> DEFINE Fits == \A s \in Slots : AnswerFits(calls[s])'
<1>0. calls \in [Slots -> Call \cup {None}]
  BY DEF Typed
<1>1. ASSUME calls' = calls, session' = session \/ session' = FALSE PROVE Fits
  BY <1>1 DEF AnswerFits
<1>2. ASSUME NEW c \in Slots, Done(c), session' = session PROVE Fits
  BY <1>0, <1>2 DEF Done, AnswerFits
<1>3. ASSUME NEW c \in Slots, ToLogin(c), session' = session PROVE Fits
  <2>1. \A s \in Slots : calls'[s] = None \/ calls'[s] = Abandoned("left")[s]
    BY <1>3, AbandonedType DEF ToLogin
  <2>2. \A s \in Slots : AnswerFits(Abandoned("left")[s])
    BY AbandonedFits
  <2> QED
    BY <1>3, <2>1, <2>2 DEF AnswerFits
<1>4. ASSUME NEW r, Load(r) PROVE Fits
  <2>1. \A s \in Slots : calls'[s] = None \/ calls'[s].mount = "gone"
    BY <1>4, AbandonedFits DEF Load
  <2> QED
    BY <2>1 DEF AnswerFits
<1>5. ASSUME NEW c \in Slots, Handle(c) PROVE Fits
  <2>1. PICK r \in {"200", "401", "409", "failed"} :
          /\ Replies(c, r) /\ calls[c] # None
          /\ session' = session \/ session' = FALSE
          /\ r = "401" => ~session' /\ calls[c].kind # "logout"
          /\ calls[c].kind = "logout" => ~session'
          /\ r = "409" => calls[c].kind \in Minting
    BY <1>5 DEF Handle, me, list_services, AuthenticatedUser, Minting
  <2>2. /\ calls'[c].reply = r /\ calls'[c].kind = calls[c].kind
        /\ \A d \in Slots \ {c} : calls'[d] = calls[d]
    BY <2>1, RepliedCall
  <2>3. AnswerFits(calls[c])'
    BY <2>1, <2>2 DEF AnswerFits
  <2>4. \A d \in Slots \ {c} : AnswerFits(calls[d])'
    BY <2>1, <2>2 DEF AnswerFits
  <2> QED
    BY <2>3, <2>4
<1>6. ASSUME NEW c \in Slots, Fails(c) PROVE Fits
  <2>1. /\ calls'[c].reply = "failed" /\ session' = session
        /\ \A d \in Slots \ {c} : calls'[d] = calls[d]
    BY <1>6, RepliedCall DEF Fails
  <2> QED
    BY <2>1 DEF AnswerFits
<1>7. ASSUME NEW r \in {"/", "/new", "/login"}, Goto(r) PROVE Fits
  <2>1. \A s \in Slots : calls'[s] \in {None, NewCall("load"), Abandoned("left")[s]}
    BY <1>7, AbandonedType DEF Goto
  <2>2. \A s \in Slots : AnswerFits(calls'[s])
    BY <2>1, AbandonedFits, NewFits, NoneFits
  <2> QED
    BY <1>7, <2>2 DEF Goto, AnswerFits
<1>8. ASSUME NEW c \in Slots, NEW kind \in {"me", "load", "mint", "other", "logout"},
             \A s \in Slots : calls'[s] \in {None, calls[s], NewCall(kind)}, session' = session
      PROVE  Fits
  <2>1. \A s \in Slots : AnswerFits(calls'[s])
    BY <1>8, NewFits, NoneFits
  <2> QED
    BY <1>8, <2>1 DEF AnswerFits
<1>9. ASSUME LoadScript PROVE Fits
  <2>1. \A s \in Slots : calls'[s] \in {None, calls[s], NewCall("me")}
    BY <1>0, <1>9 DEF LoadScript
  <2> QED
    BY <1>8, <1>9, <2>1, ActsAreOther DEF LoadScript
<1>10. ASSUME NEW c \in Slots, Probed(c) PROVE Fits
  <2>1. CASE Reply(c) = "200"
    <3>1. \A s \in Slots : calls'[s] \in {None, calls[s], NewCall("load")}
      BY <1>0, <1>10, <2>1 DEF Probed
    <3> QED
      BY <1>8, <1>10, <3>1 DEF Probed
  <2>2. CASE Reply(c) # "200"
    BY <1>2, <1>3, <1>10, <2>2 DEF Probed
  <2> QED
    BY <2>1, <2>2
<1>11. ASSUME NEW c \in Acts, SignOut(c) \/ \E kind \in Minting : Submit(c, kind) PROVE Fits
  <2>1. PICK kind \in {"mint", "other", "logout"} :
          \A s \in Slots : calls'[s] \in {None, calls[s], NewCall(kind)}
    BY <1>0, <1>11 DEF Submit, SignOut, Minting
  <2> QED
    BY <1>8, <1>11, <2>1, ActsAreOther DEF Submit, SignOut
<1>12. ASSUME NEW c \in Slots, PageLoaded(c) \/ Submitted(c) \/ SubmittedLate(c) \/ SignedOut(c)
       PROVE  Fits
  BY <1>2, <1>3, <1>12 DEF PageLoaded, Submitted, SubmittedLate, SignedOut
<1>13. ASSUME SubmitBlank \/ LateMint \/ SessionEnds \/ Revoke \/ Deploy \/ UNCHANGED vars PROVE Fits
  BY <1>1, <1>13 DEF SubmitBlank, LateMint, SessionEnds, Revoke, Deploy, vars
<1> QED
  BY <1>4, <1>5, <1>6, <1>7, <1>9, <1>10, <1>11, <1>12, <1>13
     DEF Next, Receive, Visit, SignIn

LEMMA LoginSteps == ASSUME Typed, LoginInv, [Next]_vars PROVE LoginInv'
<1> DEFINE Earned == at' = "/login" /\ session' => excuse'
<1>1. \A s \in Slots : AnswerFits(calls[s])'
  BY FitsSteps DEF LoginInv
<1>2. ASSUME at' = at, excuse' = excuse, session' = session \/ session' = FALSE PROVE Earned
  BY <1>2 DEF LoginInv
<1>3. ASSUME NEW r \in {"/", "/new", "/login"}, Load(r) \/ Goto(r) PROVE Earned
  BY <1>3 DEF Load, Goto
<1>4. ASSUME NEW c \in Slots, calls[c] # None, calls[c].mount # "gone",
             Reply(c) = "401" \/ (calls[c].kind = "logout" /\ Reply(c) = "200")
      PROVE  ~session
  BY <1>4 DEF LoginInv, AnswerFits, Reply
<1>5. ASSUME NEW c \in Slots, Receive(c) PROVE Earned
  <2>0. /\ calls[c] # None =>
             /\ calls[c] \in Call
             /\ Reply(c) = "409" => calls[c].mount = "gone" \/ calls[c].kind \in Minting
        /\ calls[c] # None /\ Reply(c) = "401" /\ calls[c].mount # "gone" =>
             calls[c].kind # "logout"
    BY DEF LoginInv, AnswerFits, Typed, Reply
  <2>1. ASSUME Probed(c) PROVE Earned
    <3>1. calls[c] # None /\ calls[c].kind = "me" /\ calls[c].mount = "here" /\ calls[c] \in Call
      BY <2>1, ActsAreOther DEF Probed, Back, Typed
    <3>2. Reply(c) \in {"200", "401", "failed"}
      BY <2>0, <2>1, <3>1 DEF Probed, Back, Reply, Call, Minting
    <3>3. CASE Reply(c) = "200"
      BY <1>2, <2>1, <3>3 DEF Probed
    <3>4. CASE Reply(c) = "401"
      BY <1>4, <2>1, <3>1, <3>4 DEF Probed
    <3>5. CASE Reply(c) = "failed"
      BY <2>1, <3>5 DEF Probed
    <3> QED
      BY <3>2, <3>3, <3>4, <3>5
  <2>2. ASSUME PageLoaded(c) PROVE Earned
    <3>1. calls[c] # None /\ calls[c].mount = "here"
      BY <2>2, ActsAreOther DEF PageLoaded, Back, Typed
    <3> QED
      BY <1>2, <1>4, <2>2, <3>1 DEF PageLoaded
  <2>3. ASSUME Submitted(c) \/ SubmittedLate(c) PROVE Earned
    BY <1>2, <1>4, <2>3 DEF Submitted, SubmittedLate, Back
  <2>4. ASSUME SignedOut(c) PROVE Earned
    <3>1. calls[c] \in Call /\ calls[c].kind = "logout" /\ Reply(c) # "none" /\ calls[c] # None
      BY <2>0, <2>4 DEF SignedOut, Back, Reply
    <3>2. CASE calls[c].mount = "gone"
      BY <1>2, <2>4, <3>2 DEF SignedOut
    <3>3. CASE calls[c].mount # "gone" /\ Reply(c) = "failed"
      BY <2>4, <3>3 DEF SignedOut
    <3>4. CASE calls[c].mount # "gone" /\ Reply(c) # "failed"
      <4>1. Reply(c) = "200"
        BY <2>0, <3>1, <3>4 DEF Call, Reply, Minting
      <4> QED
        BY <1>4, <2>4, <3>1, <3>4, <4>1 DEF SignedOut
    <3> QED
      BY <3>2, <3>3, <3>4
  <2> QED
    BY <1>5, <2>1, <2>2, <2>3, <2>4 DEF Receive
<1>6. ASSUME NEW c \in Slots, Handle(c) \/ Fails(c) PROVE Earned
  BY <1>2, <1>6 DEF Handle, Fails, page
<1>7. ASSUME NEW c \in Acts, SignOut(c) \/ \E kind \in Minting : Submit(c, kind) PROVE Earned
  BY <1>2, <1>7 DEF Submit, SignOut, page
<1>8. ASSUME \/ LoadScript \/ SubmitBlank \/ LateMint \/ SessionEnds \/ Revoke \/ Deploy
             \/ UNCHANGED vars
      PROVE  Earned
  BY <1>2, <1>8 DEF LoadScript, SubmitBlank, LateMint, SessionEnds, Revoke, Deploy, page, vars
<1>9. Earned
  BY <1>3, <1>5, <1>6, <1>7, <1>8 DEF Next, Visit, SignIn
<1> QED
  BY <1>1, <1>9 DEF LoginInv

-----------------------------------------------------------------------------
(* The key                                                                 *)

Mint(s) == calls[s] # None /\ calls[s].kind \in Minting

\* A mint whose form is still on the page.
Here(s) == Mint(s) /\ calls[s].mount = "here"

OneMintHere ==
    /\ \A s, t \in Slots : Here(s) /\ Here(t) => s = t
    /\ \A s \in Slots : Here(s) => form.submitting

MinterIsOut ==
    key \in Acts =>
        /\ Mint(key) /\ calls[key].kind = "mint"
        /\ calls[key].reply \in {"200", "failed"}
        /\ left \/ calls[key].mount = "here"

\* A key nobody has seen, or one that a mint given up on may still become.
Untold == key = "lost" \/ (late /\ key = None)

\* No form that is out while there is one is for another key, or has minted one.
LostInv ==
    Untold /\ ~left =>
        /\ form.error \/ \E s \in Slots : Here(s)
        /\ \A s \in Slots : Here(s) => calls[s].kind = "mint" /\ calls[s].reply # "200"

MintInv == OneMintHere /\ MinterIsOut /\ LostInv

\* A step that leaves the mints, their form and the key alone.
LEMMA NothingMinted ==
    ASSUME Typed, MintInv,
           \A s \in Slots : calls'[s] = calls[s] \/ (~Mint(s) /\ ~Mint(s)'),
           key' = key, UNCHANGED marks, form'.submitting = form.submitting,
           form.error => form'.error
    PROVE  MintInv'
<1>1. \A s \in Slots : /\ Mint(s)' => Mint(s) /\ calls'[s] = calls[s]
                       /\ Mint(s) => Mint(s)' /\ calls'[s] = calls[s]
  BY DEF Mint
<1>2. \A s \in Slots : Here(s)' <=> Here(s)
  BY <1>1 DEF Here
<1>3. OneMintHere'
  BY <1>2 DEF MintInv, OneMintHere
<1>4. MinterIsOut'
  BY <1>1, ActsAreOther DEF MintInv, MinterIsOut, marks
<1>5. LostInv'
  BY <1>1, <1>2 DEF MintInv, LostInv, Untold, Here, marks
<1> QED
  BY <1>3, <1>4, <1>5 DEF MintInv

\* Whatever is untold is left by a user who moves on.
LEMMA LeftBehind ==
    ASSUME Typed, Leaves, key' = key
    PROVE  /\ late' = late
           /\ key \in Acts => left'
           /\ Untold' => left'
<1>1. key \in Acts \cup {"lost"} => ~Seen
  BY NoneIsOther, ActsAreOther DEF Seen
<1> QED
  BY <1>1 DEF Leaves, Untold

\* A step that takes the user away from the page: what is not told is left.
LEMMA MintsLeft ==
    ASSUME Typed, MintInv, NEW m \in {"left", "gone"}, Leaves, key' = key,
           \A s \in Slots : \/ calls'[s] = Abandoned(m)[s]
                            \/ key # s /\ ~Mint(s)'
    PROVE  MintInv'
<1>1. \A s \in Slots : ~Here(s)'
  <2> SUFFICES ASSUME NEW s \in Slots, calls'[s] = Abandoned(m)[s], Mint(s)'
               PROVE  calls'[s].mount # "here"
    BY DEF Here, Mint
  <2>1. calls[s] # None
    BY AbandonedType DEF Mint
  <2>2. calls[s].kind \in Minting
    BY <2>1, AbandonedCall DEF Mint
  <2>3. s \in Acts
    BY <2>1, <2>2, ActsAreOther DEF Typed, Minting
  <2> QED
    BY <2>1, <2>3, AbandonedCall DEF Mint
<1>2. (key \in Acts => left') /\ (Untold' => left')
  BY LeftBehind
<1>3. ASSUME key \in Acts
      PROVE  Mint(key)' /\ calls'[key].kind = "mint" /\ calls'[key].reply \in {"200", "failed"}
  <2>1. /\ Mint(key) /\ key \in Slots /\ calls[key].kind = "mint"
        /\ calls[key].reply \in {"200", "failed"}
    BY <1>3, ActsAreOther DEF MintInv, MinterIsOut
  <2>2. calls'[key] = Abandoned(m)[key]
    BY <2>1
  <2> QED
    BY <1>3, <2>1, <2>2, AbandonedCall DEF Mint
<1>4. MinterIsOut'
  BY <1>2, <1>3 DEF MinterIsOut, Mint
<1> QED
  BY <1>1, <1>2, <1>4 DEF MintInv, OneMintHere, LostInv

\* The calls after the steps that reset the form.
LEMMA ToLoginMints ==
    ASSUME Typed, MintInv, NEW c \in Slots, ToLogin(c), key' = key, key # c
    PROVE  MintInv'
<1>1. \A s \in Slots : IF s = c THEN calls'[s] = None ELSE calls'[s] = Abandoned("left")[s]
  BY AbandonedType DEF ToLogin
<1> QED
  BY <1>1, MintsLeft DEF ToLogin, Mint

LEMMA EndedMints ==
    ASSUME Typed, MintInv, NEW c \in Slots, Done(c), ~Mint(c), key' = key, UNCHANGED marks,
           form'.submitting = form.submitting, form.error => form'.error
    PROVE  MintInv'
<1>1. calls'[c] = None /\ \A s \in Slots \ {c} : calls'[s] = calls[s]
  BY DEF Done, Typed
<1> QED
  BY <1>1, NothingMinted DEF Mint

LEMMA MintSteps == ASSUME Typed, MintInv, [Next]_vars PROVE MintInv'
<1>0. /\ calls \in [Slots -> Call \cup {None}]
      /\ \A c \in Slots : Mint(c) => c \in Acts
      /\ \A c \in Slots : ~Mint(c) => key # c
      /\ \A kind \in {"me", "load", "logout"} : NewCall(kind).kind \notin Minting
  <2>1. \A c \in Slots : Mint(c) => c \in Acts
    BY ActsAreOther DEF Typed, Mint, Minting
  <2>2. \A c \in Slots : ~Mint(c) => key # c
    BY ActsAreOther, NoneIsOther DEF Typed, MintInv, MinterIsOut
  <2> QED
    BY <2>1, <2>2, NewCallType DEF Typed, Minting
<1>1. ASSUME NEW c \in Slots, Handle(c) PROVE MintInv'
  <2>1. PICK r \in {"200", "401", "409", "failed"} :
          /\ Replies(c, r) /\ calls[c] # None /\ calls[c].reply = "none" /\ form' = form
          /\ late' = late
          /\ \/ ~Mint(c) /\ key' = key /\ left' = left
             \/ Mint(c) /\ (r # "200" \/ calls[c].kind = "other") /\ key' = key /\ left' = left
             \/ /\ calls[c].kind = "mint" /\ r = "200" /\ key = None
                /\ key' = c /\ left' = (calls[c].mount # "here")
    BY <1>1 DEF Handle, me, list_services, AuthenticatedUser, Mint, Minting, page, marks
  <2>2. /\ calls'[c].reply = r /\ calls'[c] # None
        /\ calls'[c].kind = calls[c].kind /\ calls'[c].mount = calls[c].mount
        /\ \A d \in Slots \ {c} : calls'[d] = calls[d]
    BY <2>1, RepliedCall, NoneIsOther
  <2>3. CASE ~Mint(c)
    BY <2>1, <2>2, <2>3, NothingMinted DEF Mint, Minting, marks
  <2>4. ASSUME Mint(c) PROVE MintInv'
    <3>1. \A s \in Slots : (Here(s)' <=> Here(s)) /\ (Mint(s)' <=> Mint(s))
      BY <2>1, <2>2, <2>4 DEF Here, Mint
    <3>2. OneMintHere'
      BY <2>1, <3>1 DEF MintInv, OneMintHere
    <3>3. key # c
      BY <2>1, <2>4, <1>0 DEF MintInv, MinterIsOut
    <3>4. CASE (r # "200" \/ calls[c].kind = "other") /\ key' = key /\ left' = left
      <4>1. MinterIsOut'
        BY <2>2, <3>1, <3>3, <3>4, ActsAreOther DEF MintInv, MinterIsOut
      <4>2. LostInv'
        BY <2>1, <2>2, <3>1, <3>4 DEF MintInv, LostInv, Untold
      <4> QED
        BY <3>2, <4>1, <4>2 DEF MintInv
    <3>5. CASE /\ calls[c].kind = "mint" /\ r = "200" /\ key' = c
               /\ left' = (calls[c].mount # "here")
      <4>1. c \in Acts
        BY <1>0, <2>4
      <4>2. MinterIsOut'
        BY <2>2, <2>4, <3>1, <3>5 DEF MinterIsOut
      <4>3. LostInv'
        BY <3>5, <4>1, ActsAreOther DEF LostInv, Untold
      <4> QED
        BY <3>2, <4>2, <4>3 DEF MintInv
    <3> QED
      BY <2>1, <2>4, <3>4, <3>5
  <2> QED
    BY <2>3, <2>4
<1>2. ASSUME NEW c \in Slots, Fails(c) PROVE MintInv'
  <2>1. /\ Replies(c, "failed") /\ calls[c] # None /\ form' = form /\ key' = key
        /\ \/ UNCHANGED marks
           \/ /\ calls[c].kind = "mint" /\ late'
              /\ left' = IF key = None THEN calls[c].mount # "here" ELSE left
    BY <1>2 DEF Fails, page
  <2>2. /\ calls'[c].reply = "failed" /\ calls'[c] # None
        /\ calls'[c].kind = calls[c].kind /\ calls'[c].mount = calls[c].mount
        /\ \A d \in Slots \ {c} : calls'[d] = calls[d]
    BY <2>1, RepliedCall, NoneIsOther
  <2>3. \A s \in Slots : (Here(s)' <=> Here(s)) /\ (Mint(s)' <=> Mint(s))
    BY <2>1, <2>2 DEF Here, Mint
  <2>4. OneMintHere'
    BY <2>1, <2>3 DEF MintInv, OneMintHere
  <2>5. MinterIsOut'
    <3> SUFFICES ASSUME key \in Acts
                 PROVE  /\ calls'[key] # None /\ calls'[key].kind = "mint"
                        /\ calls'[key].reply \in {"200", "failed"}
                        /\ left' \/ calls'[key].mount = "here"
      BY <2>1 DEF MinterIsOut, Mint, Minting
    <3>1. left' = left
      BY <2>1, ActsAreOther DEF marks
    <3>2. /\ key \in Slots /\ calls[key] # None /\ calls[key].kind = "mint"
          /\ calls[key].reply \in {"200", "failed"}
          /\ left \/ calls[key].mount = "here"
      BY ActsAreOther DEF MintInv, MinterIsOut, Mint
    <3>3. CASE key = c
      BY <2>2, <3>1, <3>2, <3>3
    <3>4. CASE key # c
      BY <2>2, <3>1, <3>2, <3>4
    <3> QED
      BY <3>3, <3>4
  <2>6. ASSUME UNCHANGED marks PROVE LostInv'
    <3>1. \A s \in Slots : calls'[s].kind = calls[s].kind
                           /\ (calls'[s].reply = calls[s].reply \/ calls'[s].reply = "failed")
      BY <2>2
    <3>2. key' = key /\ late' = late /\ left' = left
      BY <2>1, <2>6 DEF marks
    <3> QED
      BY <2>1, <2>3, <3>1, <3>2 DEF MintInv, LostInv, Untold
  <2>7. ASSUME key # None, left' = left PROVE LostInv'
    BY <2>1, <2>2, <2>3, <2>7 DEF MintInv, LostInv, Untold
  <2>8. ASSUME key = None, calls[c].kind = "mint", left' = (calls[c].mount # "here")
        PROVE  LostInv'
    <3>1. ASSUME ~left'
          PROVE  /\ \E s \in Slots : Here(s)'
                 /\ \A s \in Slots : Here(s)' =>
                       calls'[s].kind = "mint" /\ calls'[s].reply # "200"
      <4>1. Here(c)
        BY <2>1, <2>8, <3>1 DEF Here, Mint, Minting
      <4>2. \A s \in Slots : Here(s)' => s = c
        BY <2>3, <4>1 DEF MintInv, OneMintHere
      <4>3. Here(c)'
        BY <2>3, <4>1
      <4>4. calls'[c].kind = "mint" /\ calls'[c].reply # "200"
        BY <2>2, <2>8
      <4> QED
        BY <4>2, <4>3, <4>4
    <3> QED
      BY <3>1 DEF LostInv
  <2> QED
    BY <2>1, <2>4, <2>5, <2>6, <2>7, <2>8 DEF MintInv
<1>3. ASSUME NEW r, Load(r), key' = key PROVE MintInv'
  BY <1>3, MintsLeft DEF Load
<1>4. ASSUME NEW r \in {"/", "/new", "/login"}, Goto(r) PROVE MintInv'
  <2>1. \A s \in Slots : calls'[s] = Abandoned("left")[s]
                         \/ (s = "load" /\ calls'[s] \in {None, NewCall("load")})
    BY <1>4, AbandonedType DEF Goto
  <2>2. key # "load" /\ \A s \in Slots : s = "load" /\ calls'[s] \in {None, NewCall("load")} => ~Mint(s)'
    BY <1>0, ActsAreOther DEF Mint, Minting, Typed
  <2> QED
    BY <1>4, <2>1, <2>2, MintsLeft DEF Goto
<1>5. ASSUME NEW c \in Acts, NEW kind \in Minting, Submit(c, kind) PROVE MintInv'
  <2>1. /\ c \in Slots /\ calls[c] = None /\ ~form.submitting /\ key' = key
        /\ form'.submitting /\ calls'[c] = NewCall(kind)
        /\ \A s \in Slots \ {c} : calls'[s] = calls[s]
        /\ \/ kind = "mint" /\ UNCHANGED marks
           \/ kind = "other" /\ Leaves
    BY <1>0, <1>5, ActsAreOther DEF Submit, Submittable, Typed, Form, Minting
  <2>2. /\ \A s \in Slots : ~Here(s)
        /\ Here(c)' /\ calls'[c].reply = "none" /\ calls'[c].kind = kind
        /\ key # c
    BY <1>0, <2>1, NewCallType, NoneIsOther DEF MintInv, OneMintHere, Here, Mint, Minting
  <2>3. \A s \in Slots \ {c} : ~Here(s)' /\ (Mint(s)' <=> Mint(s))
    BY <2>1, <2>2 DEF Here, Mint
  <2>4. OneMintHere'
    BY <2>1, <2>3 DEF OneMintHere
  <2>5. (key \in Acts => left' \/ left' = left) /\ (Untold' /\ ~left' => kind = "mint")
    BY <2>1, LeftBehind DEF marks
  <2>6. MinterIsOut'
    BY <2>1, <2>2, <2>3, <2>5, ActsAreOther DEF MintInv, MinterIsOut
  <2>7. LostInv'
    BY <2>1, <2>2, <2>3, <2>5 DEF LostInv
  <2> QED
    BY <2>4, <2>6, <2>7 DEF MintInv
<1>15. ASSUME SubmitBlank PROVE MintInv'
  <2>1. key' = key /\ calls' = calls /\ form'.submitting = form.submitting /\ Leaves
    BY <1>15 DEF SubmitBlank, Typed, Form
  <2>2. \A s \in Slots : (Here(s)' <=> Here(s)) /\ (Mint(s)' <=> Mint(s))
    BY <2>1 DEF Here, Mint
  <2>3. (key \in Acts => left') /\ (Untold' => left')
    BY <2>1, LeftBehind
  <2> QED
    BY <2>1, <2>2, <2>3, ActsAreOther DEF MintInv, OneMintHere, MinterIsOut, LostInv
<1>16. ASSUME LateMint PROVE MintInv'
  <2>1. /\ calls' = calls /\ form' = form /\ late /\ late' = FALSE
        /\ key' = IF key = None THEN "lost" ELSE key
        /\ left' = (left /\ key # "told")
    BY <1>16 DEF LateMint, page
  <2>2. \A s \in Slots : (Here(s)' <=> Here(s)) /\ (Mint(s)' <=> Mint(s))
    BY <2>1 DEF Here, Mint
  <2>3. Untold' => Untold /\ (left' <=> left)
    BY <2>1, NoneIsOther DEF Untold
  <2>4. OneMintHere'
    BY <2>1, <2>2 DEF MintInv, OneMintHere
  <2>5. MinterIsOut'
    <3>1. key' \in Acts => key' = key /\ key # "told"
      BY <2>1, ActsAreOther
    <3> QED
      BY <2>1, <3>1 DEF MintInv, MinterIsOut, Mint
  <2>6. LostInv'
    BY <2>1, <2>2, <2>3 DEF MintInv, LostInv
  <2> QED
    BY <2>4, <2>5, <2>6 DEF MintInv
<1>6. ASSUME NEW c \in Acts, SignOut(c) PROVE MintInv'
  <2>1. calls[c] = None /\ calls'[c] = NewCall("logout")
        /\ \A s \in Slots \ {c} : calls'[s] = calls[s]
    BY <1>0, <1>6, ActsAreOther DEF SignOut
  <2> QED
    BY <1>0, <1>6, <2>1, NothingMinted DEF SignOut, Mint, Minting, page
<1>7. ASSUME LoadScript PROVE MintInv'
  <2>1. ~Mint("me") /\ (calls' = calls \/ calls' = [calls EXCEPT !["me"] = NewCall("me")])
    BY <1>0, <1>7, ActsAreOther DEF LoadScript
  <2> QED
    BY <1>0, <1>7, <2>1, NothingMinted DEF LoadScript, Mint, Minting
<1>8. ASSUME NEW c \in Slots, Probed(c) PROVE MintInv'
  <2>1. ~Mint(c) /\ ~Mint("load") /\ "load" \in Slots /\ key' = key
    BY <1>0, <1>8, ActsAreOther DEF Probed, Back, Mint, Minting
  <2>2. CASE Reply(c) = "200"
    <3>1. \A s \in Slots : calls'[s] = calls[s]
                           \/ (s \in {c, "load"} /\ calls'[s] \in {None, NewCall("load")})
      BY <1>0, <1>8, <2>2 DEF Probed
    <3> QED
      BY <1>0, <1>8, <2>1, <2>2, <3>1, NothingMinted DEF Probed, Mint, Minting
  <2>3. CASE Reply(c) # "200" /\ at = "/login"
    BY <1>8, <2>1, <2>3, EndedMints DEF Probed
  <2>4. CASE Reply(c) # "200" /\ at # "/login"
    BY <1>0, <1>8, <2>1, <2>4, ToLoginMints DEF Probed
  <2> QED
    BY <2>2, <2>3, <2>4
<1>9. ASSUME NEW c \in Slots, PageLoaded(c) PROVE MintInv'
  <2>1. ~Mint(c) /\ key' = key
    BY <1>9 DEF PageLoaded, Back, Mint, Minting
  <2>2. CASE Reply(c) = "401"
    BY <1>0, <1>9, <2>1, <2>2, ToLoginMints DEF PageLoaded
  <2>3. CASE Reply(c) # "401"
    <3>1. form'.submitting = form.submitting /\ (form.error => form'.error)
      BY <1>9, <2>3 DEF PageLoaded, Typed, Form
    <3> QED
      BY <1>9, <2>1, <2>3, <3>1, EndedMints DEF PageLoaded
  <2> QED
    BY <2>2, <2>3
<1>10. ASSUME NEW c \in Slots, SignedOut(c) PROVE MintInv'
  <2>1. ~Mint(c) /\ key' = key
    BY <1>10 DEF SignedOut, Back, Mint, Minting
  <2> QED
    BY <1>0, <1>10, <2>1, ToLoginMints, EndedMints DEF SignedOut
<1>11. ASSUME NEW c \in Slots, Submitted(c) PROVE MintInv'
  <2>1. /\ Here(c) /\ calls'[c] = None /\ left' = left /\ late' = late
        /\ form'.error = (Reply(c) # "200")
        /\ \A s \in Slots \ {c} : calls'[s] = calls[s]
    BY <1>0, <1>11 DEF Submitted, Back, Here, Mint, Done, Typed, Form, marks
  <2>2. \A s \in Slots : ~Here(s)'
    BY <2>1 DEF MintInv, OneMintHere, Here, Mint
  <2>3. \A s \in Slots \ {c} : Mint(s)' <=> Mint(s)
    BY <2>1 DEF Mint
  <2>4. key' \notin {c} /\ (key' \in Acts => key' = key)
    BY <1>0, <1>11, <2>1, ActsAreOther DEF Submitted, Lost, Here
  <2>5. MinterIsOut'
    BY <2>1, <2>3, <2>4, ActsAreOther DEF MintInv, MinterIsOut
  <2>6. LostInv'
    <3>1. CASE Reply(c) = "200"
      <4>1. ~(Untold /\ ~left)
        BY <2>1, <3>1 DEF MintInv, LostInv, Reply
      <4>2. key' = key \/ key' = "told"
        BY <1>11, <3>1 DEF Submitted
      <4>3. ~(Untold' /\ ~left')
        BY <2>1, <4>1, <4>2, NoneIsOther DEF Untold
      <4> QED
        BY <4>3 DEF LostInv
    <3>2. CASE Reply(c) # "200"
      BY <2>1, <2>2, <3>2 DEF LostInv
    <3> QED
      BY <3>1, <3>2
  <2> QED
    BY <2>2, <2>5, <2>6 DEF MintInv, OneMintHere
<1>12. ASSUME NEW c \in Slots, SubmittedLate(c) PROVE MintInv'
  <2>1. Mint(c) /\ c \in Acts
    BY <1>0, <1>12 DEF SubmittedLate, Back, Mint, Minting
  <2>2. CASE Reply(c) = "401" /\ calls[c].mount # "gone"
    <3>1. key # c
      BY <2>1, <2>2 DEF MintInv, MinterIsOut, Reply
    <3> QED
      BY <1>12, <2>2, <3>1, ToLoginMints DEF SubmittedLate, Lost
  <2>3. CASE ~(Reply(c) = "401" /\ calls[c].mount # "gone")
    <3>1. /\ calls'[c] = None /\ form' = form /\ left' = left /\ late' = late
          /\ ~Here(c)
          /\ \A s \in Slots \ {c} : calls'[s] = calls[s]
      BY <1>0, <1>12, <2>3 DEF SubmittedLate, Done, Here, marks
    <3>2. \A s \in Slots : Here(s)' <=> Here(s)
      BY <3>1 DEF Here, Mint
    <3>3. \A s \in Slots \ {c} : Mint(s)' <=> Mint(s)
      BY <3>1 DEF Mint
    <3>4. key' = IF key = c THEN "lost" ELSE key
      BY <1>12 DEF SubmittedLate, Lost
    <3>5. OneMintHere'
      BY <3>1, <3>2 DEF MintInv, OneMintHere
    <3>6. MinterIsOut'
      BY <3>1, <3>3, <3>4, ActsAreOther DEF MintInv, MinterIsOut
    <3>7. LostInv'
      <4>1. CASE key = c
        BY <2>1, <3>1, <4>1 DEF MintInv, MinterIsOut, LostInv, Here
      <4>2. CASE key # c
        BY <3>1, <3>2, <3>4, <4>2 DEF MintInv, LostInv, Untold, Here, Mint
      <4> QED
        BY <4>1, <4>2
    <3> QED
      BY <3>5, <3>6, <3>7 DEF MintInv
  <2> QED
    BY <2>2, <2>3
<1>13. ASSUME Revoke PROVE MintInv'
  <2>1. key' = None /\ calls' = calls /\ form' = form /\ left' = late /\ late' = late
    BY <1>13 DEF Revoke, page
  <2>2. \A s \in Slots : Here(s)' <=> Here(s)
    BY <2>1 DEF Here, Mint
  <2> QED
    BY <2>1, <2>2, ActsAreOther, NoneIsOther
       DEF MintInv, OneMintHere, MinterIsOut, LostInv, Untold
<1>14. ASSUME SessionEnds \/ UNCHANGED vars PROVE MintInv'
  <2>1. key' = key /\ calls' = calls /\ form' = form /\ UNCHANGED marks
    BY <1>14 DEF SessionEnds, vars, marks, page
  <2> QED
    BY <2>1, NothingMinted
<1>17. ASSUME Deploy PROVE MintInv'
  <2>1. /\ key' = key /\ calls' = calls /\ form' = form
        /\ late' = FALSE /\ left' = (left /\ ~Seen)
    BY <1>17 DEF Deploy, page
  <2>2. \A s \in Slots : (Here(s)' <=> Here(s)) /\ (Mint(s)' <=> Mint(s))
    BY <2>1 DEF Here, Mint
  <2>3. key \in Acts \cup {"lost"} => (left' <=> left)
    BY <2>1, NoneIsOther, ActsAreOther DEF Seen
  <2>4. Untold' => Untold /\ (left' <=> left)
    BY <2>1, <2>3 DEF Untold
  <2>5. OneMintHere'
    BY <2>1, <2>2 DEF MintInv, OneMintHere
  <2>6. MinterIsOut'
    BY <2>1, <2>3 DEF MintInv, MinterIsOut, Mint
  <2>7. LostInv'
    BY <2>1, <2>2, <2>4 DEF MintInv, LostInv
  <2> QED
    BY <2>5, <2>6, <2>7 DEF MintInv
<1> QED
  BY <1>1, <1>2, <1>3, <1>4, <1>5, <1>6, <1>7, <1>8, <1>9, <1>10, <1>11, <1>12, <1>13, <1>14,
     <1>15, <1>16, <1>17
     DEF Next, Receive, Visit, SignIn

-----------------------------------------------------------------------------
(* The document                                                            *)

\* What a build answers for the script of a page: its own, or no page either.
LEMMA ScriptIsOfItsPage ==
    ASSUME NEW b \in Builds, NEW c
    PROVE  /\ Served("GET", <<"assets", b>>, c) # "page"
           /\ Served("GET", <<"assets", b>>, c) = "file" => c = b
<1> DEFINE path == <<"assets", b>>
           T == {"assets", b}
<1>1. path \in Seq(T) /\ Len(path) = 2 /\ path[1] = "assets" /\ path[2] = b
  OBVIOUS
<1>2. b # Empty
  BY BuildsAssumption
<1>3. path = <<"assets", c>> => b = c
  OBVIOUS
<1> HIDE DEF path, T
<1>4. /\ Handler("GET", path) \in {"serve_asset", "method_not_allowed"}
      /\ Served("GET", path, c) # "page"
  BY <1>1, <1>2, AssetsAreNoPages
<1>5. ASSUME Served("GET", path, c) = "file" PROVE b = c
  <2>1. serve_asset(path, c) = "file"
    BY <1>4, <1>5 DEF Served
  <2>2. path = <<"assets", c>>
    BY <2>1 DEF serve_asset, serve_embedded, Embeds
  <2> QED
    BY <1>3, <2>2
<1> QED
  BY <1>4, <1>5 DEF path

DocumentInv ==
    /\ running \in Released \cup {None}
    /\ html \in Builds \cup {None}
    /\ script \in {None, "blank", html}
    /\ at \in {"/", "/new", "/login"} /\ probe \in {"loading", "in", "out"}
    /\ probe = "out" => at = "/login"

LEMMA DocumentSteps == ASSUME DocumentInv, [Next]_vars PROVE DocumentInv'
<1>0. Released \subseteq Builds
  BY DEF Released
<1>1. ASSUME NEW r \in {"/", "/new", "/login"}, Load(r), running' = running
      PROVE  DocumentInv'
  <2>1. html' \in {running, None} /\ script' = None /\ at' = r /\ probe' = "loading"
        /\ (html' = running => running # None \/ html' = None)
    BY <1>1 DEF Load
  <2> QED
    BY <1>0, <1>1, <2>1 DEF DocumentInv
<1>2. ASSUME LoadScript PROVE DocumentInv'
  <2> DEFINE got == IF running = None THEN "nothing"
                    ELSE Served("GET", <<"assets", html>>, running)
  <2>1. /\ html # None /\ html' = html /\ running' = running /\ at' = at /\ probe' = probe
        /\ script' = CASE got = "file" -> running [] got = "page" -> "page" [] OTHER -> "blank"
    BY <1>2 DEF LoadScript
  <2>2. got # "page" /\ (got = "file" => running = html)
    BY <2>1, ScriptIsOfItsPage DEF DocumentInv
  <2> HIDE DEF got
  <2>3. script' \in {"blank", html}
    BY <2>1, <2>2
  <2> QED
    BY <2>1, <2>3 DEF DocumentInv
<1>3. ASSUME NEW c \in Slots, Receive(c) PROVE DocumentInv'
  <2>1. /\ running' = running /\ html' = html /\ script' = script
        /\ at' \in {at, "/login"} /\ probe' \in {probe, "in", "out"}
        /\ probe' # probe /\ probe' = "out" => at' = "/login"
    BY <1>3 DEF Receive, Probed, PageLoaded, Submitted, SubmittedLate, SignedOut, ToLogin
  <2> QED
    BY <2>1 DEF DocumentInv
<1>4. ASSUME NEW r \in {"/", "/new", "/login"}, Goto(r) PROVE DocumentInv'
  BY <1>4 DEF Goto, DocumentInv
<1>5. ASSUME NEW c \in Slots, Handle(c) \/ Fails(c) PROVE DocumentInv'
  BY <1>5 DEF Handle, Fails, page, DocumentInv
<1>6. ASSUME NEW c \in Acts, SignOut(c) \/ \E kind \in Minting : Submit(c, kind) PROVE DocumentInv'
  BY <1>6 DEF Submit, SignOut, page, DocumentInv
<1>7. CASE SubmitBlank \/ LateMint \/ SessionEnds \/ Revoke \/ UNCHANGED vars
  BY <1>7 DEF SubmitBlank, LateMint, SessionEnds, Revoke, page, vars, DocumentInv
<1>8. CASE Deploy
  BY <1>8 DEF Deploy, page, DocumentInv
<1> QED
  BY <1>1, <1>2, <1>3, <1>4, <1>5, <1>6, <1>7, <1>8 DEF Next, Visit, SignIn

\* A form that waits, waits for a mint of its own.
WaitInv == form.submitting => \E s \in Slots : Here(s)

LEMMA WaitSteps == ASSUME Typed, WaitInv, [Next]_vars PROVE WaitInv'
<1>0. ASSUME form' = Blank PROVE WaitInv'
  BY <1>0, FormType DEF WaitInv
<1>1. ASSUME form'.submitting => form.submitting,
             \A s \in Slots : Here(s) => calls'[s] = calls[s]
      PROVE  WaitInv'
  BY <1>1 DEF WaitInv, Here, Mint, Minting
<1>2. ASSUME NEW c \in Slots, Done(c), ~Here(c), form'.submitting => form.submitting
      PROVE  WaitInv'
  <2>1. \A s \in Slots \ {c} : calls'[s] = calls[s]
    BY <1>2 DEF Done, Typed
  <2> QED
    BY <1>1, <1>2, <2>1
<1>3. ASSUME NEW c \in Slots, Handle(c) \/ Fails(c) PROVE WaitInv'
  <2>1. /\ calls[c] # None /\ form' = form
        /\ \E r \in {"200", "401", "409", "failed"} : Replies(c, r)
    BY <1>3 DEF Handle, Fails, me, list_services, AuthenticatedUser, page
  <2>2. \A s \in Slots : Here(s) => Here(s)'
    BY <2>1, RepliedCall, NoneIsOther DEF Here, Mint, Minting
  <2> QED
    BY <2>1, <2>2 DEF WaitInv
<1>4. ASSUME NEW c \in Acts, NEW kind \in Minting, Submit(c, kind) PROVE WaitInv'
  <2>1. c \in Slots /\ calls'[c] = NewCall(kind) /\ kind \in {"mint", "other"}
    BY <1>4, ActsAreOther DEF Submit, Typed, Minting
  <2>2. Here(c)'
    BY <2>1, NewCallType, NoneIsOther DEF Here, Mint, Minting
  <2> QED
    BY <2>1, <2>2 DEF WaitInv
<1>5. ASSUME NEW c \in Acts, SignOut(c) PROVE WaitInv'
  <2>1. calls[c] = None /\ form' = form /\ \A s \in Slots \ {c} : calls'[s] = calls[s]
    BY <1>5 DEF SignOut, page, Typed
  <2> QED
    BY <1>1, <2>1 DEF Here, Mint, Minting
<1>6. ASSUME LoadScript PROVE WaitInv'
  <2>1. form' = form /\ (calls' = calls \/ calls' = [calls EXCEPT !["me"] = NewCall("me")])
    BY <1>6 DEF LoadScript
  <2>2. ~Here("me") /\ "me" \in Slots
    BY ActsAreOther DEF Typed, Here, Mint, Minting
  <2>3. \A s \in Slots : Here(s) => calls'[s] = calls[s]
    BY <2>1, <2>2 DEF Typed
  <2> QED
    BY <1>1, <2>1, <2>3
<1>7. ASSUME NEW c \in Slots, Probed(c) PROVE WaitInv'
  <2>1. ~Here(c) /\ ~Here("load") /\ "load" \in Slots
    BY <1>7, ActsAreOther DEF Probed, Back, Typed, Here, Mint, Minting
  <2>2. CASE Reply(c) = "200"
    <3>1. form' = form /\ \A s \in Slots \ {c, "load"} : calls'[s] = calls[s]
      BY <1>7, <2>2 DEF Probed, Typed
    <3> QED
      BY <1>1, <2>1, <3>1
  <2>3. CASE Reply(c) # "200"
    BY <1>0, <1>2, <1>7, <2>1, <2>3 DEF Probed, ToLogin
  <2> QED
    BY <2>2, <2>3
<1>8. ASSUME NEW c \in Slots, PageLoaded(c) PROVE WaitInv'
  <2>1. ~Here(c)
    BY <1>8 DEF PageLoaded, Back, Here, Mint, Minting
  <2>2. form'.submitting = form.submitting \/ form' = Blank
    BY <1>8 DEF PageLoaded, ToLogin, Typed, Form
  <2>3. ToLogin(c) \/ Done(c)
    BY <1>8 DEF PageLoaded
  <2> QED
    BY <1>0, <1>2, <2>1, <2>2, <2>3 DEF ToLogin
<1>9. ASSUME NEW c \in Slots, Submitted(c) PROVE WaitInv'
  BY <1>9 DEF Submitted, Typed, Form, WaitInv
<1>10. ASSUME NEW c \in Slots, SubmittedLate(c) PROVE WaitInv'
  <2>1. ToLogin(c) \/ (Done(c) /\ form' = form /\ ~Here(c))
    BY <1>10 DEF SubmittedLate, Here
  <2> QED
    BY <1>0, <1>2, <2>1 DEF ToLogin
<1>11. ASSUME NEW c \in Slots, SignedOut(c) PROVE WaitInv'
  <2>1. ~Here(c) /\ (ToLogin(c) \/ (Done(c) /\ form' = form))
    BY <1>11 DEF SignedOut, Back, Here, Mint, Minting
  <2> QED
    BY <1>0, <1>2, <2>1 DEF ToLogin
<1>12. CASE SubmitBlank \/ LateMint \/ SessionEnds \/ Revoke \/ Deploy \/ UNCHANGED vars
  <2>1. form'.submitting = form.submitting /\ calls' = calls
    BY <1>12 DEF SubmitBlank, LateMint, SessionEnds, Revoke, Deploy, page, vars, Typed, Form
  <2> QED
    BY <1>1, <2>1
<1>13. ASSUME NEW r \in {"/", "/new", "/login"}, Load(r) \/ Goto(r) PROVE WaitInv'
  BY <1>0, <1>13 DEF Load, Goto
<1> QED
  BY <1>3, <1>4, <1>5, <1>6, <1>7, <1>8, <1>9, <1>10, <1>11, <1>12, <1>13
     DEF Next, Receive, Visit, SignIn

\* A page that loads has its call out, from the first step of its script on; a form
\* is submitted only after its page has loaded.
LoadingInv ==
    /\ script = None => probe = "loading" /\ calls["me"] = None
    /\ Alive /\ probe = "loading" => calls["me"] # None
    /\ Alive /\ probe = "in" /\ at # "/login" =>
            form.ready \/ form.error \/ calls["load"] # None
    /\ form.submitting => form.ready

LEMMA LoadingSteps ==
    ASSUME Typed, DocumentInv, OneMintHere, LoadingInv, [Next]_vars PROVE LoadingInv'
<1>0. /\ None \notin Builds \cup {"blank"} /\ "blank" \notin Builds
      /\ "me" \in Slots /\ "load" \in Slots /\ "me" # "load"
      /\ "me" \notin Acts /\ "load" \notin Acts
  BY ScriptAssumption, NoneAssumption, ActsAssumption DEF Slots
<1>1. ASSUME script' = script, probe' = probe, at' = at, form' = form,
             \A s \in {"me", "load"} : calls'[s] = None <=> calls[s] = None
      PROVE  LoadingInv'
  BY <1>1 DEF LoadingInv, Alive
<1>2. ASSUME NEW r, Load(r) PROVE LoadingInv'
  <2>1. script' = None /\ probe' = "loading" /\ form' = Blank /\ calls'["me"] = None
    BY <1>0, <1>2 DEF Load, Abandoned
  <2> QED
    BY <1>0, <2>1, FormType DEF LoadingInv, Alive
<1>3. ASSUME LoadScript PROVE LoadingInv'
  <2> DEFINE got == IF running = None THEN "nothing"
                    ELSE Served("GET", <<"assets", html>>, running)
  <2>1. /\ html # None /\ script = None /\ probe' = probe /\ at' = at /\ form' = form
        /\ script' = CASE got = "file" -> running [] got = "page" -> "page" [] OTHER -> "blank"
        /\ calls' = IF got = "file" THEN [calls EXCEPT !["me"] = NewCall("me")] ELSE calls
    BY <1>3 DEF LoadScript
  <2>2. got # "page" /\ (got = "file" => running = html)
    BY <2>1, ScriptIsOfItsPage DEF DocumentInv
  <2> HIDE DEF got
  <2>3. probe' = "loading" /\ script' \in {html, "blank"} /\ (script' = "blank" \/ got = "file")
    BY <2>1, <2>2 DEF LoadingInv
  <2>4. script' # None
    BY <1>0, <2>1, <2>3 DEF DocumentInv
  <2>5. got = "file" => calls'["me"] # None
    BY <1>0, <2>1, NewCallType, NoneIsOther DEF Typed
  <2>6. form'.submitting => form'.ready
    BY <2>1 DEF LoadingInv
  <2> QED
    BY <1>0, <2>3, <2>4, <2>5, <2>6 DEF LoadingInv, Alive
<1>4. ASSUME NEW c \in Slots, Handle(c) \/ Fails(c) PROVE LoadingInv'
  <2>1. /\ calls[c] # None /\ script' = script /\ probe' = probe /\ at' = at /\ form' = form
        /\ \E r \in {"200", "401", "409", "failed"} : Replies(c, r)
    BY <1>4 DEF Handle, Fails, me, list_services, AuthenticatedUser, page
  <2>2. \A s \in {"me", "load"} : calls'[s] = None <=> calls[s] = None
    BY <1>0, <2>1, RepliedCall, NoneIsOther
  <2> QED
    BY <1>1, <2>1, <2>2
<1>5. ASSUME NEW c \in Slots, ToLogin(c), c # "me", script' = script, probe' = probe
      PROVE  LoadingInv'
  <2>1. calls'["me"] = calls["me"] /\ at' = "/login" /\ form' = Blank
    BY <1>0, <1>5, ActsAreOther DEF ToLogin, Abandoned
  <2> QED
    BY <1>5, <2>1, FormType DEF LoadingInv, Alive
<1>6. ASSUME NEW c \in Acts, \A s \in Slots \ {c} : calls'[s] = calls[s],
             script' = script, probe' = probe, at' = at,
             form' = form \/ (form'.ready /\ form.ready)
      PROVE  LoadingInv'
  BY <1>0, <1>6 DEF LoadingInv, Alive
<1>7. \A c \in Slots : Done(c) => \A s \in Slots \ {c} : calls'[s] = calls[s]
  BY DEF Done, Typed
<1>8. ASSUME NEW c \in Acts, NEW kind \in Minting, Submit(c, kind) PROVE LoadingInv'
  <2>1. /\ form.ready /\ form'.ready /\ script' = script /\ probe' = probe /\ at' = at
        /\ \A s \in Slots \ {c} : calls'[s] = calls[s]
    BY <1>8 DEF Submit, Submittable, Typed, Form
  <2> QED
    BY <1>6, <2>1
<1>9. ASSUME NEW c \in Acts, SignOut(c) PROVE LoadingInv'
  <2>1. /\ form' = form /\ script' = script /\ probe' = probe /\ at' = at
        /\ \A s \in Slots \ {c} : calls'[s] = calls[s]
    BY <1>9 DEF SignOut, Typed, page
  <2> QED
    BY <1>6, <2>1
<1>10. ASSUME NEW c \in Slots, Probed(c) PROVE LoadingInv'
  <2>1. c = "me" /\ calls["me"] # None /\ script' = script /\ script # None
    BY <1>0, <1>10, ActsAreOther DEF Probed, Back, Typed, LoadingInv
  <2>2. CASE Reply(c) = "200"
    <3>1. /\ probe' = "in" /\ at' = at /\ form' = form
          /\ calls'["load"] = IF at = "/login" THEN None ELSE NewCall("load")
      BY <1>0, <1>10, <2>1, <2>2 DEF Probed, Typed
    <3> QED
      BY <2>1, <3>1, NewCallType, NoneIsOther DEF LoadingInv
  <2>3. CASE Reply(c) # "200"
    <3>1. probe' = "out" /\ (form' = form \/ form' = Blank)
      BY <1>10, <2>3 DEF Probed, ToLogin
    <3> QED
      BY <2>1, <3>1, FormType DEF LoadingInv
  <2> QED
    BY <2>2, <2>3
<1>11. ASSUME NEW c \in Slots, PageLoaded(c) PROVE LoadingInv'
  <2>1. c = "load" /\ script' = script /\ probe' = probe
    BY <1>11, ActsAreOther DEF PageLoaded, Back, Typed
  <2>2. CASE Reply(c) = "401"
    BY <1>0, <1>5, <1>11, <2>1, <2>2 DEF PageLoaded
  <2>3. CASE Reply(c) # "401"
    <3>1. /\ at' = at /\ calls'["me"] = calls["me"]
          /\ form'.ready \/ form'.error
          /\ form'.submitting = form.submitting /\ (form.ready => form'.ready)
      BY <1>0, <1>7, <1>11, <2>1, <2>3 DEF PageLoaded, Typed, Form
    <3> QED
      BY <2>1, <3>1 DEF LoadingInv, Alive
  <2> QED
    BY <2>2, <2>3
<1>12. ASSUME NEW c \in Slots, Submitted(c) PROVE LoadingInv'
  <2>1. c \in Acts /\ Here(c)
    BY <1>12, ActsAreOther DEF Submitted, Back, Typed, Here, Mint, Minting
  <2>2. form.ready
    BY <2>1 DEF OneMintHere, LoadingInv
  <2>3. form'.ready /\ script' = script /\ probe' = probe /\ at' = at /\ Done(c)
    BY <1>12, <2>2 DEF Submitted, Typed, Form
  <2> QED
    BY <1>6, <1>7, <2>1, <2>2, <2>3
<1>13. ASSUME NEW c \in Slots, SubmittedLate(c) \/ SignedOut(c) PROVE LoadingInv'
  <2>1. c \in Acts /\ script' = script /\ probe' = probe
    BY <1>13, ActsAreOther DEF SubmittedLate, SignedOut, Back, Typed, Minting
  <2>2. ToLogin(c) \/ (Done(c) /\ at' = at /\ form' = form)
    BY <1>13 DEF SubmittedLate, SignedOut
  <2> QED
    BY <1>0, <1>5, <1>6, <1>7, <2>1, <2>2
<1>14. ASSUME NEW r \in {"/", "/new", "/login"}, Goto(r) PROVE LoadingInv'
  <2>1. /\ probe' = "in" /\ script' = script /\ script # None /\ at' = r /\ form' = Blank
        /\ calls'["load"] = IF r = "/login" THEN None ELSE NewCall("load")
    BY <1>0, <1>14 DEF Goto, Abandoned, LoadingInv
  <2> QED
    BY <2>1, FormType, NewCallType, NoneIsOther DEF LoadingInv
<1>15. CASE LateMint \/ SessionEnds \/ Revoke \/ Deploy \/ UNCHANGED vars
  BY <1>1, <1>15 DEF LateMint, SessionEnds, Revoke, Deploy, page, vars
<1>16. CASE SubmitBlank
  <2>1. /\ calls' = calls /\ script' = script /\ probe' = probe /\ at' = at
        /\ form.ready /\ form'.ready
    BY <1>16 DEF SubmitBlank, Submittable, Typed, Form
  <2> QED
    BY <2>1 DEF LoadingInv, Alive
<1> QED
  BY <1>2, <1>3, <1>4, <1>8, <1>9, <1>10, <1>11, <1>12, <1>13, <1>14, <1>15, <1>16
     DEF Next, Receive, Visit, SignIn

-----------------------------------------------------------------------------
(* Theorems                                                                *)

IInv == Typed /\ LoginInv /\ MintInv /\ DocumentInv /\ WaitInv /\ LoadingInv

LEMMA InitTyped == Init => IInv
<1> SUFFICES ASSUME Init PROVE IInv
  OBVIOUS
<1>1. \A s \in Slots : calls[s] = None
  BY DEF Init
<1>2. Typed
  BY <1>1, FormType DEF Init, Typed
<1>3. LoginInv
  BY <1>1 DEF Init, LoginInv, AnswerFits
<1>4. MintInv
  BY <1>1, ActsAreOther, NoneIsOther
     DEF Init, MintInv, OneMintHere, MinterIsOut, LostInv, Untold, Here, Mint
<1>5. DocumentInv
  BY DEF Init, DocumentInv
<1>6. WaitInv
  BY FormType DEF Init, WaitInv
<1>7. LoadingInv
  BY <1>1, NoneAssumption, FormType DEF Init, LoadingInv, Alive, Slots
<1> QED
  BY <1>2, <1>3, <1>4, <1>5, <1>6, <1>7 DEF IInv

LEMMA Inductive == Spec => []IInv
<1>1. IInv /\ [Next]_vars => IInv'
  BY TypedSteps, LoginSteps, MintSteps, DocumentSteps, WaitSteps, LoadingSteps
     DEF IInv, MintInv
<1> QED
  BY <1>1, InitTyped, PTL DEF Spec

\* What App, a page behind RequireAuth or the form shows as under way is under way: for
\* each there is a call in flight whose answer ends it (App.tsx, Dashboard.tsx, NewKey.tsx).
THEOREM NothingWaitsInVain == Spec => []WaitsHaveCalls
<1>1. IInv => WaitsHaveCalls
  BY ActsAreOther DEF IInv, LoadingInv, WaitInv, WaitsHaveCalls, Here, Mint, Minting, Typed
<1> QED
  BY <1>1, Inductive, PTL

\* Every variable holds what its part of the program may hold, who is signed out is on
\* the login page, and nothing waits in vain (App.tsx, NewKey.tsx).
THEOREM TypeCorrect == Spec => []TypeOK
<1>1. IInv => TypeOK
  <2> SUFFICES ASSUME IInv PROVE TypeOK
    OBVIOUS
  <2>1. form \in [{"ready", "submitting", "error", "minted"} -> BOOLEAN]
    BY DEF IInv, Typed, Form
  <2>2. WaitsHaveCalls
    BY ActsAreOther DEF IInv, LoadingInv, WaitInv, WaitsHaveCalls, Here, Mint, Minting, Typed
  <2> QED
    BY <2>1, <2>2 DEF IInv, Typed, DocumentInv, TypeOK
<1> QED
  BY <1>1, InitTyped, Inductive, PTL

\* Whatever builds replace one another between two requests, a tab runs the script of
\* its own page or none; and on every path, of any length, no build answers for the
\* API, the proxy or an asset with a page (spa.rs, build_router).
THEOREM PagesStayWhole == Spec => []PagesAreWhole
<1>1. IInv => PagesAreWhole
  BY RoutesKept DEF IInv, DocumentInv, PagesAreWhole
<1> QED
  BY <1>1, Inductive, PTL

\* The login page is never shown to a live session of which this document has not
\* heard a failure, unless the user asked for it (App.tsx, NewKey.tsx, Dashboard.tsx):
\* an answer that signs out is true of the session until the document is replaced.
THEOREM LoginsAreEarned == Spec => []LoginIsEarned
<1>1. IInv => LoginIsEarned
  BY DEF IInv, LoginInv, LoginIsEarned
<1> QED
  BY <1>1, Inductive, PTL

\* A key that was minted and whose plaintext got lost is announced to a user who stays
\* on the form (NewKey.tsx): at most one mint is the form's own, and it is not over
\* before its answer or its failure is on the page.
THEOREM LossesAreTold == Spec => []LostKeysAreTold
<1>1. IInv => LostKeysAreTold
  BY ActsAreOther DEF IInv, Typed, MintInv, LostInv, Untold, LostKeysAreTold, Here, Mint, Minting
<1> QED
  BY <1>1, Inductive, PTL
=============================================================================
