# Pietro in TLA+

Pietro is a single Rust binary that hands out API keys for upstream services
and proxies calls made with them. People sign in through OpenID Connect and
mint keys on a small web page; programs send `Authorization: Bearer pi_live_…`
to `/proxy/{service}/…`, and Pietro forwards the call with the operator's own
credential. This directory holds a specification of that program, the TLC runs
that check it on small instances and the proofs that TLAPS checks for every
instance.

Paths below are relative to the repository. Everything is modelled from the
code; documents are quoted only where the code does something else.

## 1. The system

| Component | Code | State | Operations |
|---|---|---|---|
| API keys | `src/keys.rs`, handlers in `src/routes.rs` | table `api_keys` | mint, list, revoke, verify, mark_used |
| Sessions | `src/auth/session.rs` | table `sessions`, cookie `pietro_session` | extractor, create, delete, expiry |
| OIDC login | `src/auth/oidc.rs` | cookie `pietro_flow`, table `users`, the provider's codes | login, callback, logout |
| Proxy | `src/proxy.rs` | one HTTP client and one timeout per request | lookup, verify, scope, send, touch, stream |
| Usage batcher | `src/proxy.rs` | in-memory map key → time | touch, flush, the flusher's loop |
| Server lifecycle | `src/main.rs` | the process, its listener, the cancel channel | serve, migrate, graceful stop, last drain |
| Database | `src/db.rs`, `migrations/` | SQLite file, recorded migrations, pool of 8 connections | open, migrate |
| Configuration | `src/config.rs` | none after start | interpolate, validate, decode keys |
| Rewriting | `src/proxy.rs` | none | headers, URL, credential, X-Forwarded-For |
| Router, errors, SPA | `src/routes.rs`, `src/errors.rs`, `src/spa.rs`, `build.rs` | none | dispatch, status mapping, embedded files |
| Dashboard | `frontend/src/pages/Dashboard.tsx` | list on the page, calls in flight | load, revoke, refetch, sign out |
| Application shell | `frontend/src/App.tsx`, `pages/NewKey.tsx`, `pages/Login.tsx` | session state, route, form | probe, navigate, submit, reveal |

How they interact. Every handler is an async task over one `SqlitePool`; no
handler opens a transaction, so each SQL statement is atomic and anything may
happen between two of them. The proxy shares the `api_keys` rows with the key
handlers and shares the usage buffer, under an async mutex, with one background
task. Browser tabs share a cookie store, and they meet again in the tables. The
pages are told of nothing: they know what their last answer said.

What is hard, and what makes each part correct:

* **Keys.** Mints of one slot race; only a partial unique index orders them. A
  revoke races the verify of a request. Restarts change services, pepper and
  cookie key under the rows. Correct means: one active key per (user, service,
  label), a revoke that is final and answered once, rows that no step rewrites,
  and nothing done for a credential that was dead on arrival.
* **Login.** State lives in a cookie that a second tab overwrites; a callback
  may fail after any of its steps; a login's answer and a logout's may arrive
  in either order. Correct means: a code logs in once, sessions belong to
  allowed and stored users, a logout is final and takes only its own session.
* **Proxy.** Revokes, one total timeout, upstreams that break off and callers
  that hang up or stall. Correct means: what is refused never reaches an
  upstream, nothing is sent twice, Pietro hides no truncation, and every
  request ends.
* **Usage.** Touches race the drain, writes fail, the process stops. Correct
  means: the latest stamp of a key is never lost to a race, the column never
  runs backwards, and a clean exit has written everything.
* **Dashboard.** Optimistic rows, refetches and answers of several revokes in
  any order. Correct means: the page never passes a failed revoke for a done
  one, and is true again when everything has come back.

* **Start and stop.** Several releases may be started on one file, each with
  the migrations it embeds; any step may fail, be cut short or hang; a stop
  waits for every client. Correct means: nothing serves half started, active
  keys obey the index whoever migrates, stops end and the service comes back.
* **Application shell.** Pages, scripts and API calls are answered by whichever
  server runs by then; users leave pages with calls in flight. Correct means:
  pages and scripts of one build, a login page only for who is signed out, was
  failed or asked, no word missing to a user who stays with a key whose plaintext
  nobody saw, nothing that waits for ever.

The hazards, one line each with the line of code where they bite, are in
`PROJECT.json`.

## 2. The modules

`KeyRegistry` is the abstract promise of the key service: each (user, service,
label) slot has at most one holder, a key is issued into a free slot under a
fresh id and retired for good. It knows no sessions, requests or crashes.

`KeyService` is the service as coded. `rows` and `sessions` are the tables;
every request has a `pc`, the `call` it makes, `who` it was authenticated as,
and an `answer`. `ExtractUser` is the extractor's SELECT (`session.rs:52-82`),
`RejectMint`, `Mint`, `MintConflict`, `RejectRevoke` (an id that does not
parse), `Revoke`, `Logout` and `Verify` the
handler's own statement, `DbFails` a failing one, `Deliver` the answer reaching
the client or not, `Restart` a new process with one of `Configs`. Ids are drawn
without looking, from sets small enough for collisions. `late` is a history
variable: the credential was already dead when the request arrived.
`RegistrySpec` instantiates `KeyRegistry` with the active rows as holders and
the revoked ones as retired.

`UsageBatcher` follows a stamp from `touch` through the buffer, the flush and
`mark_used` to `last_used_at`, with the flusher's `select!` loop and the part
of `run_serve` that orders shutdown: serve returns, cancel, last drain, exit.
A time is a natural number, `used` and `dropped` are history.

`LoginLedger` is the abstract promise of logging in and out: a code is redeemed
once, is then owed one session or refused, begins it under an id that was never
ended or is dropped, and a session ends once, for good. It knows no tabs,
cookies, flows or users.

`AuthFlow` has tabs that walk through login, provider and callback while they
share `cookies`, keyed by name *and path* as a browser does. State, nonce and
PKCE verifier are drawn and checked together and stand as one flow id. The
provider is external: it issues codes, takes each once, and only with the
verifier of its flow. A tab may go back, reload a callback, or start over; any
step may fail and leave the earlier ones done. Expiry of sessions is in
`KeyService`, not here. `LedgerSpec` instantiates `LoginLedger` with the used
grants as redeemed codes, the codes of tabs between exchange and INSERT as owed,
and the codes of the session rows as live.

`ProxyForward` takes one request from its arrival to the last piece of its
body. `stage` is the await the handler stands at; `upstream`, `sent` and
`relayed` are the two sides of the stream; `stalled` callers do not read, and a
body nobody reads is not polled, its timer included (`proxy.rs:275`). Both sides
are HTTP/1 connections with a framing each: `frame` is the upstream's (a declared
length, chunks, or until close), `OutBy` what the caller gets, since
`transfer-encoding` is stripped, `content-length` is not, and hyper frames the rest
by the caller's version. `line` is how the caller's connection ended. Whether a body
is whole is nowhere a variable: `LooksWhole` is what the reader of either connection
concludes from framing, pieces and end.

`Rewrite` is what happens to the lines of a request, steps 4 to 7 and 9 of
`forward_inner`, with one operator per function of `proxy.rs` and the names it
has there. A header map is a function from names to sequences of values, which
keeps what matters of `HeaderMap`: `get` sees the first value, `insert` replaces
all, `append` adds one. A value is cut into parts and says whether `to_str`
accepts it. `Without` is what a filter leaves of a sequence. `Init` enumerates requests, `Send` is steps 4 to 7, `Answer` step 9.
`ProxyForward` leaves all of this out, and `Rewrite` leaves out all of that.

`Dashboard` is the page: `keys`, `busy` and `error` are the component's state,
each call in `calls` is one `onRevoke` with its DELETE and its refetch, and a
call whose page was left goes on with `mounted` false. `Elsewhere` are the keys
other tabs may mint or revoke. `late` are the keys whose DELETE the page gave up
before it was answered: `LateDelete` is the statement that the server or its SQLite
worker runs all the same, at any later time. `refetched` is history.

`Config` is `Config::load` as operators: one pass of `${VAR}` over the text, the
checks of `TryFrom<RawConfig>` in `Accepts`, and the decoding of key material,
hex before base64 before plain bytes. A value is known by what those checks ask
of it: of text its length, its characters and its padding, of a URL its scheme
and whether it ends in a slash. The YAML parser is left out.

`Server` extends `Config` and runs several processes on one database file.
`stage` is where `run_serve` or `run_migrate` stands, `plan` what `MIGRATOR.run`
read as missing, `applied` the rows of `_sqlx_migrations`. The runner (sqlx 0.8,
SQLite) reads the rows, then takes no lock and applies each script with its row
in one transaction: `Open` and `Apply`. `keys` keeps of the active rows only
what an index sees. `Mint` and `Revoke` are the statements of whatever process a
connection is open to; their requests are in `KeyService`. `Signal`, `Finish`
and `Drain` are the graceful stop of axum, whose last drain is in `UsageBatcher`.

`Router` is `build_router` as a set of routes, `Handler` the dispatch over it,
and the two handlers of `spa.rs` by the names they have there. A path is a
sequence of segments; `AnySegment` and `AnyRest` are what `{id}` and `{*path}`
of a route take. A build embeds its index page and one script that is named
after the build, as Vite does; `Released` is what `build.rs` lets pass.

`Spa` extends `Router` with one tab: the document (`html`, `script`), the route
and the probe of `App`, the state of the form, and `calls` in flight with whether
the page that made them is still there. `running` is the build that serves.
`key` follows the key of one service and label from its INSERT to the answer
that is shown or lost. The form may as well be submitted for another service or
label (the kind `other`) or without a label (`SubmitBlank`), and each submit
removes the message before it. `late` says that the server may still run a mint the
page has given up (`LateMint`). `left` and `excuse` are history; `left` says that
the user left the form or went on in it with something else than the key.

`MCKeyService`, `MCUsageBatcher`, `MCAuthFlow`, `MCProxyForward`, `MCRewrite`,
`MCDashboard`, `MCServer` and `MCSpa` add what an instance needs: configurations, files,
a scope function, lines, paths and symmetry sets. `MCServer` also has TLC evaluate that of its
files exactly those with a mistake are refused. `*_proofs` modules hold the theorems. Operators under a comment
that begins with "Bug" are faulty variants of the definition that follows them;
no specification uses them, they serve to show that the properties can fail.

## 3. The runs

| Run | Instance | What it shows |
|---|---|---|
| `key_races` | 2 users, 2 sessions, 1 service, 1 label, 2 ids, 2 secrets, 2 requests | mint, revoke and logout race each other, failing statements, lost answers and restarts: one active key per slot, rows forever, true answers, each revoke told once; the rows implement `KeyRegistry` |
| `key_restarts` | 1 user, 2 services, 2 requests, three configurations | across restarts that drop a service, change the pepper or the cookie key: only live keys in scope are forwarded, and nothing is done for a session or key that was dead on arrival |
| `usage` | 2 keys, 2 requests, clock to 3 | no stamp lost but to a failed write or a crash, `last_used_at` monotone, a clean exit is complete; uses get written and a stop ends |
| `auth_tabs` | 2 tabs, 2 flows, 3 codes, 2 session ids, one allowed user and a stranger | final logouts, logins that hold and belong to stored, allowed users; the handlers implement `LoginLedger`, so a code logs in once, also after its session has ended |
| `auth_cookie` | same with 2 codes | finds the flow cookie still there after a login, see 5 |
| `proxy_requests` | 2 requests, 2 keys, 2 services of which 1 is served, 3 framings, HTTP/1.0 and 1.1, 1 piece | refused and late requests never forwarded, nothing twice; what a caller takes for a whole body is one, unless HTTP/1.0 leaves it no way to tell; every request ends, stalled callers apart |
| `rewrite_requests` | up to 3 lines out of 13 besides the bearer token, 9 credentials, 3 queries on either side | no secret of the caller passes, the credential arrives once, hop-by-hop lines stop, the rest and the other cookies pass unchanged, one X-Forwarded-For line ends with the peer |
| `dashboard_page` | 2 keys, 2 calls, other tabs, DELETEs done late | an optimistic row is never a silent lie, and is settled by the table, by a list that was fetched, or by a refetch that failed |
| `dashboard_repair` | 2 keys, 2 calls, no other tab | finds the view that no refetch repairs, see 5 |
| `server` | an old and a new release and a migrate step, 16 files of which 2 are sound, 1 connection, 2 keys, 2 labels, 2 faults | only sound configurations on a full schema serve, one at a time; active keys obey the index at every moment of an upgrade; stops end unless a client stalls; service comes back |
| `server_discovery` | same with 1 fault | finds the start that hangs on a silent provider, see 5 |
| `spa_shell` | 1 tab, 2 mints or logouts in flight, one key and any other label, one mint done late, two releases, a debug build and one without a bundle, all paths of up to four segments out of six and four names | no path of programs gets a page, no script of another build runs, the login page is earned, a lost plaintext is told to a user who stays with its label, probe and form never wait for ever |

Why the bounds are enough. The races are between two handlers over one row or
one slot: two requests, two ids and two secrets make every collision possible
(same slot, same id, same secret), and a second user the clash across users. A
slot can be minted, revoked, minted and revoked again with two ids. Two tabs
overwrite each other's flow cookie; the third code leaves one for a login after
a reload. A body of one piece can break before it, after it
and at its end, and with a declared length fall short by one; two requests with two
pieces each take TLC close to five minutes. Two
calls on the dashboard are one that fails and one that is overtaken. Requests
of the proxy share only `revoked`, so two already show every interference.
An upgrade is an old and a new process, and the
third is the separate migrate step: all three can hold one plan at once. Two
faults are a failure and a kill between, or both at one start; the files have
one mistake each, since the checks are independent. One connection suffices,
because connections share only the process. Two builds with a bundle are the one
a page came from and its successor; two calls are a mint and the retry that
overtakes it, or a mint and a logout.
Three instants tell the stamps in table, flush and buffer apart. Three lines are
two of one name (two Connection, Cookie or X-Forwarded-For lines, one of them
not text) and a third that one of them lists. `MaxTime` bounds the clock, `MaxPieces` the
body, `MaxLines` a request's lines, `MaxFaults` failures, mistakes and kills of processes, `Acts` the
mints and logouts in flight, `Paths` the paths the router is looked at, `Calls` the revokes in flight; `Codes`, `Flows` and `Sids` bound the
logins of a run. TLC does not look for deadlock where the instance uses up its
ids, codes or requests and rightly stops.

Fairness. `UsageBatcher` assumes that the flusher's task is scheduled and its
timer fires, that statements return, and that requests in flight end, which is
what graceful shutdown waits for. `ProxyForward` assumes that a SELECT is
answered (`busy_timeout` bounds it), that the buffer's lock is granted (it is
held for one drain of a map) and that timers fire; it assumes nothing of
upstreams and callers, so `Ends` excepts a caller that keeps stopping to read.
`Dashboard` and `Spa` assume that requests are answered or fail, and that the page
deals with what arrives (promises settle). `Server` assumes that a process takes its
own steps, that an operator starts what is down again, that a provider which is
not silent answers, and that a request whose client reads is answered; it
assumes nothing of silent providers and stalled clients, so both liveness
properties except them.
`KeyService` and `AuthFlow` claim no liveness: nothing in them must happen.

## 4. The proofs

| Module | Theorems | Argument |
|---|---|---|
| `KeyService_proofs` | `TypeCorrect`, `OneActiveKey`, `RowsPersist`, `DeadCredentialsDoNothing`, `ForwardsAreVerified`, `AnswersAreTrue`, `ServiceImplementsRegistry` | Types are inductive. One active key per slot follows from what the INSERT requires, given types. That dead credentials do nothing needs two more facts: cookies and rows are only ever issued for sessions and keys that were stored, and what is dead stays dead, because ids are not reused while a cookie or a plaintext of them exists and no step revives a row. What is forwarded and what is answered stays true because a row keeps its owner, scope and secret (`RowKept`), a handler is entered only from its own lookup, and a 201 or 204 comes only of its own statement. The refinement maps each step to a registry step or a stutter. |
| `UsageBatcher_proofs` | `TypeCorrect`, `LatestUseKept`, `StampsNeverBackwards`, `ExitIsComplete` | `BatchInv` orders the stamps of a key along their way, table ≤ drained ≤ buffer ≤ clock where present, and says which flusher states go with which server states; monotone writes and the complete exit follow. |
| `ProxyForward_proofs` | `TypeCorrect`, `RefusedAreNotForwarded`, `WholeBodiesAreWhole` | `IInv` is a condition on each request alone: the await its handler stands at decides what upstream and caller may have seen. Late requests are at their SELECT, with their key still revoked, or refused. A body is ended towards the caller only when the client's stream has ended, which is when the upstream's framing says so (`Read`); otherwise it is closed, and a reader of a length or of chunks sees that. |
| `Server_proofs` | `LoadedIsSound`, `TypeCorrect`, `NothingServesHalfStarted`, `KeysKeepTheirIndex`, `RowsNeverStopScripts` | `LoadedIsSound` opens the checks of `TryFrom` and the interpolation once. `IInv` says of each process how many of its migrations are behind it at each stage, that a connection is open only to a process that serves, and that one listens. So a client's INSERT always meets an index, and 0002 finds 0001 applied because a plan's missing rows are already there. Rows that obey the one index can be indexed by the other, so a script fails by itself only when it has been applied already. |
| `AuthFlow_proofs` | `TypeCorrect`, `LoginImplementsLedger`, `OneSessionPerCode`, `EndedStayEnded`, `LoginsHold` | `IInv` follows a code: a tab past the exchange has redeemed it for an admitted user (`Admitted`), is alone with it, and no session has it yet (`OneLoginPerCode`); a session's code is redeemed (`SessionsAreGranted`), so a replayed callback fails at the provider. Until the answer arrives no tab and no cookie has the new session's id (`RepliesAreOwn`), so no logout can name it; and what a logout can name is stored or was ended before (`NamesAreIssued`). The refinement maps the exchange to a redemption, the INSERT to the beginning of what is owed, a failure between them to a drop, a logout to an end, and every other step to a stutter. |
| `Dashboard_proofs` | `TypeCorrect`, `ShownIsTrue`, `OneRevokeIsRepaired` | Rows only go from absent to active to revoked, so a list on its way is no fresher than the table (`CallsHold`, `LoadedHolds`); a call whose DELETE succeeded has its row revoked; a page that is not shown has no call that may set its state (`Blank`). An answer that removes the busy mark thus finds the row revoked, and a failure leaves an error. With one call and no other tab, a list that was refetched is behind the table at most by revokes the page had given up (`Near`, `RepairInv`), and so is the page when the call has come back. |
| `Rewrite_proofs` | `TypeCorrect`, `NoSecretLeaves`, `CredentialIsSent`, `HopsNeverPass`, `RestPasses` | `IInv` says where the caller's secrets may be (`Placed`: the key under `authorization`, the session there or in a cookie) and that what goes out is what steps 4 to 7 make of what came in. The filter drops the one name and cleans every line of the other, and no later step brings a secret in (`OutgoingIsClean`). The filter drops a name before the credential and X-Forwarded-For are written, and both write their own name only. That cookies and pairs are kept in order is a fact about filters of concatenations: taking the session out of each line is taking it out of all of them (`WithoutConcat`, `OtherCookiesAreKept`). |
| `Spa_proofs` | `TypeCorrect`, `PagesStayWhole`, `LoginsAreEarned`, `LossesAreTold`, `NothingWaitsInVain` | That no path of programs gets a page holds for every path of any length (`RoutesKept`): the first segment decides which routes can match, and what they leave is not served a page. A page asks for the script of its own build, and another build answers that with its 404 (`DocumentInv`). What is shown as under way has a call out: the probe from the script's first step, a first load until the page is ready or shows an error (`LoadingInv`), a form while a mint of its own is (`WaitInv`). An answer that leads to the login page is true of the session until the document is replaced, because only a login revives the session and it loads a document (`LoginInv`). At most one mint is the form's own and the form is submitting while it is (`OneMintHere`); the call that minted a key is in flight until the key is told or lost (`MinterIsOut`); a lost key's form, while the user stays with its label, shows an error or has a later mint of it under way (`LostInv`), and so it is before a late INSERT. |

Assumptions are the named `ASSUME`s of the modules, and TLC evaluates each of
them: `None` differs from the
values it stands beside, call names are none of the page's own, bounds are naturals, configurations have their three
fields, a parsed file has all of its fields and a list of services, a
release embeds one or both of the migrations, a path is a sequence of strings and
the hash of a build is neither empty nor one of the model's own marks. Those of `Rewrite` say which requests are
meant: a caller sends its key in `authorization` lines and its session there or
in a cookie (a caller who writes its own key into some other header has it
forwarded like any other text), no value is empty, the operator's credential and
the peer's address are neither of the two, and a header credential that HTTP
accepts has a name. Hashes are taken to be injective
and the random secrets to be fresh (112 and 128 bits); the 32-bit key id is not.

Sequences of any length. `Without` and the concatenation of parts are recursive
functions, and what they do to every sequence is an induction. The theorems of
the library for it take a predicate as parameter, so `Rewrite_proofs` states
induction over sets instead: a set of sequences that has the empty one, and with
each sequence all that are longer by one, has them all (`SeqSetInduction`, from
the well-foundedness of `<` on the naturals and `WFMin`). A lemma about filters is
then that the set of sequences it holds of is closed.

Every safety invariant and action property that a passing run checks is stated by
a theorem. Only model-checked is liveness, because the prover has no rule for
fairness: `UseIsRecorded` and `StopsWhenTold` of `UsageBatcher`, `Ends` of
`ProxyForward`, `FlipsSettle` of `Dashboard`, `StopsUnlessStalled` and
`ServesInTheEnd` of `Server`, `NothingSpins` of `Spa`. Of the last the safety half
is proved, that there is a call to wait for.

## 5. Where code and words differ

Shown by a run:

* `auth_cookie`: the callback removes the flow cookie without a path, so the
  browser keeps the one set with `Path=/api/auth/` (`oidc.rs:274`, comment at
  271, `pietro.md:417`).
* `dashboard_repair`: a refetch that was read before another revoke committed
  brings its row back as active, and the 204 does not correct it
  (`Dashboard.tsx:28` and 73, comment at 14). It takes two revokes, or another tab:
  `OneRevokeIsRepaired` proves the comment of one revoke alone, but for a DELETE
  that failed on the way and is done by the server after the refetch has read: no
  page could know of that one.
* `server_discovery`: the OIDC client has no timeout, so a provider that accepts
  and says nothing holds the start for ever (`oidc.rs:72`, `pietro.md:304`).

Met while modelling, and so modelled:

* Any UNIQUE failure of the INSERT is answered 409 `key_already_exists`, a
  collision of the 4-byte primary key included (`keys.rs:218`, comments at
  173-176 and 219-223).
* The use of a key is recorded before its answer goes out: the handler awaits the
  lock of the buffer and then returns the response (`proxy.rs:301-303`). The comment
  above it says "AFTER we've handed the response to the caller" (`proxy.rs:299`),
  `pietro.md:583` "After the response is fully sent", and the comment at
  `proxy.rs:52-53` that each verify writes an entry. A caller who hangs up while the
  handler waits there leaves a use that the upstream has answered and no entry tells
  of.
* A caller on HTTP/1.0 whose answer has no declared length cannot tell a cut body
  from a whole one: its connection is closed at the end of either
  (`proxy.rs:275-287`). The same holds upstream of Pietro for a body that ends with
  its connection, which Pietro passes on as a whole one, in chunks.
* Every submit of the form begins by removing the message before it
  (`NewKey.tsx:49`). A user whose mint got lost and who goes on with another label,
  or with none, is no longer told of the key that nobody has.
* A timeout during the body is a cut body under the upstream's status, not a 504
  (`proxy.rs:275`, `pietro.md:634`).
* Names listed in a second Connection line are not stripped, nor are names an
  upstream's Connection line lists (`proxy.rs:150` and 287, `pietro.md:588`). In
  the same way only the first X-Forwarded-For line is kept.
* The issuer loses its last slash (`oidc.rs:101`), although the comment at 93-96
  says its representation is preserved: a provider that calls itself by a name
  with a slash, `scripts/fake-idp.py` for one, is never accepted.
* "Raw ASCII bytes" of 32 or more (`config.rs:312-314`) are refused where the
  text happens to be hex or base64 and decodes to less; an odd number of hex
  digits is taken as plain text.
* A start that fails later has migrated already, after which an older release
  cannot start any more; one that was past its own check goes on to serve on the
  newer schema (`db.rs:23-36`).
* `/api`, `/proxy` and `/assets/` without a rest are answered with the page
  (`spa.rs:154`), and so is any file outside `assets/`. A wrong method is axum's
  405 without the JSON envelope.
* `${VAR}` in a YAML comment must be set as well (`config.rs:125-147`).

## 6. Not modelled

* What the YAML parser does, and whether a header or parameter name of `auth`
  means anything to HTTP: the code does not ask (`config.rs:255-284`).
  `timeout_secs` has no upper bound there (`config.rs:285`), so no model gives it
  one, whatever `pietro.md:580` says of five minutes.
* How the proxy joins a path to `upstream_url`, and trimming, case and encoding
  of header and query text.
* Errors of `forward_inner` that no request can reach: a method that does not
  parse, or a response that cannot be built (`proxy.rs:259-260`, 295-297).
* A second tab beside that of `Spa`: the session may end elsewhere but does not
  begin elsewhere, which would double the run's states beyond five minutes.
* Two servers over one usage column: `UsageBatcher` has one process, so
  `NeverBackwards` says nothing of an old process that writes its last drain when
  its listener is closed and a new one already serves, as `Server` has it.
* The pool, SQLite's locks and power loss: statements are atomic and may fail.
  `synchronous=NORMAL` means a power loss may undo the last commits; the models'
  crash is a crash of the process.
* Token signatures and claims: part of the provider. Of discovery only the
  issuer's name, a refusal and silence are modelled.
* healthz reads and answers. Logging, messages, layout and the clipboard.
* `secret.rs` hides a value from Debug. `scripts/fake-idp.py`, build, container
  and release files.

## 7. Plan

Done: `KeyRegistry`, `KeyService`, `UsageBatcher`, `LoginLedger`, `AuthFlow`, `ProxyForward`,
`Rewrite`, `Dashboard`, `Config`, `Server`, `Router` and `Spa`, with proofs. Next,
in this order:

1. `Server` composed with the requests of `ProxyForward` and the flusher of
   `UsageBatcher`, which replaces the fairness assumed of requests by that of
   timers.
2. `Pool`: eight connections, one write lock, acquire and busy timeouts, with
   handlers and flusher as clients: who may be answered 500, and that all wait
   for a bounded time.
