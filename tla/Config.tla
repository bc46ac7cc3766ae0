------------------------------- MODULE Config -------------------------------
(***************************************************************************)
(* Config::load: ${VAR} interpolation over the text of pietro.yaml, the    *)
(* checks of TryFrom<RawConfig>, and how cookie_key and api_key_pepper are *)
(* decoded.                                                                *)
(*                                                                         *)
(* A file is a record of its values.  A value is known by what the checks  *)
(* tell apart: of text that may be a key, its length and its characters;   *)
(* of a URL, its scheme and whether a slash ends it; and of any value,     *)
(* whether it is still a reference to a variable.                          *)
(***************************************************************************)
EXTENDS Naturals, SequencesExt

CONSTANT None

\* Text of len characters.  "alnum" is letters and digits that are not all hex
\* digits, "standard" and "urlsafe" are base64 alphabets, "mixed" is both of
\* them, "other" any other text.  pad counts the final "=", and tidy says that
\* the bits base64 leaves over are zero and that no "=" stands elsewhere.
Alphabets == {"hex", "alnum", "standard", "urlsafe", "mixed", "other"}
Text(chars, len, pad, tidy) ==
    [kind |-> "text", chars |-> chars, len |-> len, pad |-> pad, tidy |-> tidy]

\* ${var}, which is text of len characters where nothing replaces it.
Ref(var, len) ==
    [kind |-> "ref", var |-> var, chars |-> "other", len |-> len, pad |-> 0, tidy |-> FALSE]

\* scheme is None for text that Url::parse refuses.
UrlText(scheme, slash) == [kind |-> "url", scheme |-> scheme, slash |-> slash]

-----------------------------------------------------------------------------
(* interpolate_env                                                         *)

\* The whole text is searched, whatever of it is a comment in YAML.
Values(file) ==
    {file.comment, file.public_url, file.cookie_key, file.api_key_pepper,
     file.issuer_url, file.client_secret}
    \cup {s.upstream_url : s \in ToSet(file.services)}
    \cup {s.value : s \in ToSet(file.services)}

References(file) == {v.var : v \in {v \in Values(file) : v.kind = "ref"}}

\* One pass: what a variable holds is not searched again.  A variable that is
\* not set stops the load before this matters (AllSet).
Expand(v, env) == IF v.kind = "ref" /\ env[v.var] # None THEN env[v.var] ELSE v

AllSet(file, env) == \A var \in References(file) : env[var] # None

ExpandService(s, env) ==
    [s EXCEPT !.upstream_url = Expand(@, env), !.value = Expand(@, env)]

interpolate_env(file, env) ==
    [file EXCEPT
        !.public_url = Expand(@, env), !.cookie_key = Expand(@, env),
        !.api_key_pepper = Expand(@, env), !.issuer_url = Expand(@, env),
        !.client_secret = Expand(@, env),
        !.services = [i \in DOMAIN @ |-> ExpandService(@[i], env)]]

-----------------------------------------------------------------------------
(* Key material: hex, then base64, then the bytes as they are              *)

IsHex(s) == s.len > 0 /\ s.len % 2 = 0 /\ s.chars = "hex" /\ s.pad = 0

IsBase64(s) ==
    /\ s.len > 0 /\ s.len % 4 = 0
    /\ s.chars \notin {"mixed", "other"}
    /\ s.tidy

\* How many bytes decode_key_material returns.
decoded_len(s) ==
    IF IsHex(s) THEN s.len \div 2
    ELSE IF IsBase64(s) THEN 3 * (s.len \div 4) - s.pad
    ELSE s.len

KEY_MATERIAL_MIN_BYTES == 32

check_key_material(s) == decoded_len(s) >= KEY_MATERIAL_MIN_BYTES

-----------------------------------------------------------------------------
(* TryFrom<RawConfig>                                                      *)

IsUrl(v) == v.kind = "url" /\ v.scheme # None

\* An id is [name, wellFormed], the latter for ^[a-z0-9][a-z0-9-]{0,31}$.
AcceptsId(services, i) ==
    /\ services[i].id.wellFormed
    /\ \A j \in 1..(i - 1) : services[j].id # services[i].id

\* Whether a header or parameter name means anything to HTTP is not asked.
AcceptsAuth(auth) == auth.kind \in {"header", "query"} => auth.name # ""

AcceptsService(services, i) ==
    /\ AcceptsId(services, i)
    /\ IsUrl(services[i].upstream_url)
    /\ services[i].upstream_url.scheme \in {"http", "https"}
    /\ AcceptsAuth(services[i].auth)
    /\ services[i].timeout_secs # 0

Accepts(raw) ==
    /\ raw.services # <<>>
    /\ IsUrl(raw.public_url)
    /\ check_key_material(raw.cookie_key)
    /\ check_key_material(raw.api_key_pepper)
    /\ IsUrl(raw.issuer_url)
    /\ \A i \in DOMAIN raw.services : AcceptsService(raw.services, i)

Loads(file, env) == AllSet(file, env) /\ Accepts(interpolate_env(file, env))
=============================================================================
