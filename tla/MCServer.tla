------------------------------ MODULE MCServer ------------------------------
(* Small instances of Server for TLC.                                      *)
EXTENDS Server, TLC

CONSTANTS old, new, step

Commands == old :> "serve" @@ new :> "serve" @@ step :> "migrate"
Releases == old :> 1 @@ new :> 2 @@ step :> 2

Hex(len) == Text("hex", len, 0, TRUE)
Words == Text("other", 20, 0, FALSE)

\* KEY decodes to 32 bytes, SHORT to 31; NESTED holds what looks like a reference.
Variables ==
    [KEY |-> Hex(64), SHORT |-> Hex(62), NESTED |-> Ref("KEY", 6), UNSET |-> None]

Issuer(slash) == UrlText("https", slash)

Upstream(id, scheme, kind, name, timeout) ==
    [id |-> [name |-> id, wellFormed |-> id # "Up"],
     upstream_url |-> UrlText(scheme, FALSE),
     auth |-> [kind |-> kind, name |-> name],
     value |-> Ref("NESTED", 9), timeout_secs |-> timeout]

Good ==
    [comment |-> Words, public_url |-> UrlText("https", TRUE),
     cookie_key |-> Ref("KEY", 6), api_key_pepper |-> Text("standard", 44, 1, TRUE),
     issuer_url |-> Issuer(TRUE), client_secret |-> Ref("NESTED", 9),
     services |-> <<Upstream("up", "https", "bearer", "", 60)>>]

With(services) == [Good EXCEPT !.services = services]

\* Sound files: keys as hex or base64, the issuer with and without its slash.
Sounds ==
    {Good, [Good EXCEPT !.issuer_url = Issuer(FALSE), !.cookie_key = Text("urlsafe", 44, 1, TRUE)]}

\* Files with one mistake each.
Mistakes ==
    {[Good EXCEPT !.comment = Ref("UNSET", 8)],
     [Good EXCEPT !.client_secret = Ref("UNSET", 8)],
     [Good EXCEPT !.public_url = UrlText(None, FALSE)],
     [Good EXCEPT !.cookie_key = Ref("SHORT", 8)],
     [Good EXCEPT !.cookie_key = Text("alnum", 32, 0, TRUE)],
     [Good EXCEPT !.api_key_pepper = Hex(31)],
     [Good EXCEPT !.api_key_pepper = Text("mixed", 31, 0, TRUE)],
     [Good EXCEPT !.issuer_url = UrlText(None, FALSE)],
     With(<<>>),
     With(<<Upstream("Up", "https", "none", "", 60)>>),
     With(<<Upstream("up", "https", "none", "", 60), Upstream("up", "http", "none", "", 1)>>),
     With(<<Upstream("up", "ftp", "none", "", 60)>>),
     With(<<Upstream("up", "https", "header", "", 60)>>),
     With(<<Upstream("up", "https", "query", "k", 0)>>)}

AllFiles == Sounds \cup Mistakes

OneDeclared == Issuer(FALSE)

\* Exactly the mistakes are refused.
ASSUME OnlyMistakesAreRefused ==
    \A f \in AllFiles : Loads(f, Variables) <=> f \in Sounds

\* An odd number of hex digits is not hex: 33 of them are 33 bytes of text.
ASSUME OddHexIsText ==
    Loads([Good EXCEPT !.api_key_pepper = Hex(33)], Variables)
=============================================================================
