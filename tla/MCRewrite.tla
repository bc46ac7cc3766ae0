------------------------------ MODULE MCRewrite ------------------------------
(* Bounded requests for Rewrite: every map of up to MaxLines of these lines,*)
(* under every kind of credential.                                         *)
EXTENDS Rewrite

MCNames ==
    is_hop_by_hop \cup {"authorization", "cookie", "host", Xff, "x-token", "x-a"}

Line(name, parts) == [name |-> name, value |-> Text(parts)]
Bytes(name, parts) == [name |-> name, value |-> [parts |-> parts, ascii |-> FALSE]]

MCLines ==
    {Line("connection", <<"close", "x-a">>), Line("connection", <<"x-token", "cookie">>),
     Line("te", <<"trailers">>), Line("host", <<"pietro">>),
     Line("authorization", <<"basic">>),
     Line("cookie", <<"csrf", "pietro_session">>), Bytes("cookie", <<"pietro_session">>),
     Line(Xff, <<"proxy1">>), Line(Xff, <<"proxy2", "proxy3">>), Bytes(Xff, <<"proxy1">>),
     Line("x-token", <<"callers">>), Line("x-a", <<"one">>), Line("x-a", <<"two">>)}

MCReplies ==
    {Nothing,
     Collect(<<Line("connection", <<"x-a">>), Line("x-a", <<"one">>),
               Line("transfer-encoding", <<"chunked">>), Line("x-a", <<"two">>)>>)}

Header(name, valid) == [kind |-> "header", name |-> name, valid |-> valid]

MCAuths ==
    {[kind |-> "none", name |-> None, valid |-> TRUE],
     [kind |-> "bearer", name |-> "authorization", valid |-> TRUE],
     [kind |-> "bearer", name |-> "authorization", valid |-> FALSE],
     [kind |-> "query", name |-> "key", valid |-> TRUE]}
    \cup {Header(n, TRUE) : n \in {"x-token", "cookie", "proxy-authorization", Xff}}
    \cup {Header("x-token", FALSE)}

Pair(param) == [param |-> param, value |-> "callers"]

MCQueries == {None, <<>>, <<Pair("key"), Pair("page"), Pair("key")>>}
=============================================================================
