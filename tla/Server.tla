------------------------------- MODULE Server -------------------------------
(***************************************************************************)
(* The life of pietro processes over one database file: run_serve and      *)
(* run_migrate, the migrations they apply at start, discovery, the         *)
(* listener, the signal and the graceful stop.                             *)
(*                                                                         *)
(* Several processes of several releases may be started on the same file,  *)
(* as in an upgrade where the new release starts before the old one went.  *)
(* Of the database only what migrations act on is kept: which of them have *)
(* been recorded, the index that says what an active key may be, and the   *)
(* labels of the active keys of one user and service.                      *)
(***************************************************************************)
EXTENDS Config, FiniteSets

CONSTANTS
    Procs,      \* processes an operator may run
    Cmd,        \* process -> "serve" or "migrate"
    Release,    \* process -> 1 or 2, the last migration it embeds
    Files,      \* configuration files an operator may write
    Env,        \* variable -> its value, or None
    Declared,   \* the issuer the provider's discovery document names
    Conns,      \* client connections
    Ids, Labels,
    MaxFaults   \* bound on mistakes, failures and kills

VARIABLES
    stage,      \* process -> where run_serve or run_migrate stands
    config,     \* process -> its configuration, or None
    plan,       \* process -> the migrations it read as missing
    applied,    \* the rows of _sqlx_migrations
    index,      \* the unique index on active keys
    keys,       \* id -> label of that active key, or None
    conns,      \* connection -> None or the process it is open to
    stalled,    \* connections whose client does not read
    faults

vars == <<stage, config, plan, applied, index, keys, conns, stalled, faults>>
db == <<applied, index, keys>>
net == <<conns, stalled>>

ASSUME ServerAssumption ==
    /\ Cmd \in [Procs -> {"serve", "migrate"}]
    /\ Release \in [Procs -> {1, 2}]
    /\ MaxFaults \in Nat
    /\ None \notin Procs \cup Labels

Stages == {"down", "open", "migrate", "discover", "hanging", "bind",
           "serving", "stopping", "draining", "panicked"}

\* Bug: a script numbered 0000 is among them.
EmbeddedFromZero(p) == 0..Release[p]

Embedded(p) == 1..Release[p]

\* Files that load, and what a process then works with.
Loaded == {f \in Files : Loads(f, Env)}
Configs == {interpolate_env(f, Env) : f \in Loaded}

\* What the YAML parser makes of a file.
ASSUME FilesAssumption ==
    /\ None \notin Configs
    /\ \A f \in Files :
        /\ DOMAIN f = {"comment", "public_url", "cookie_key", "api_key_pepper",
                       "issuer_url", "client_secret", "services"}
        /\ DOMAIN f.services = 1..Len(f.services) /\ Len(f.services) \in Nat
        /\ \A i \in DOMAIN f.services :
            DOMAIN f.services[i] = {"id", "upstream_url", "auth", "value", "timeout_secs"}
        /\ References(f) \subseteq DOMAIN Env

Init ==
    /\ stage = [p \in Procs |-> "down"]
    /\ config = [p \in Procs |-> None]
    /\ plan = [p \in Procs |-> {}]
    /\ applied = {} /\ index = "none"
    /\ keys = [i \in Ids |-> None]
    /\ conns = [c \in Conns |-> None] /\ stalled = {}
    /\ faults = 0

Fault == faults < MaxFaults /\ faults' = faults + 1

\* The process ends, and with it what it held in memory and its connections.
Exit(p) ==
    /\ stage' = [stage EXCEPT ![p] = "down"]
    /\ config' = [config EXCEPT ![p] = None]
    /\ plan' = [plan EXCEPT ![p] = {}]
    /\ conns' = [c \in Conns |-> IF conns[c] = p THEN None ELSE conns[c]]
    /\ stalled' = {c \in stalled : conns[c] # p}

Goes(p, to) == stage' = [stage EXCEPT ![p] = to]

-----------------------------------------------------------------------------
(* Start                                                                   *)

\* Config::load of the file as it is at this start.
Start(p) ==
    /\ stage[p] = "down"
    /\ Goes(p, "open")
    /\ \E cfg \in Configs : config' = [config EXCEPT ![p] = cfg]
    /\ UNCHANGED <<plan, db, net, faults>>

\* open_pool, and what MIGRATOR.run reads first: a recorded migration that this
\* release does not embed is an error, and what is missing is to be applied.
Open(p) ==
    /\ stage[p] = "open"
    /\ IF applied \subseteq Embedded(p)
       THEN /\ Goes(p, "migrate")
            /\ plan' = [plan EXCEPT ![p] = Embedded(p) \ applied]
            /\ UNCHANGED <<config, net>>
       ELSE Exit(p)
    /\ UNCHANGED <<db, faults>>

OnePerLabel == \A i, j \in Ids : keys[i] # None /\ keys[i] = keys[j] => i = j

\* 0001 creates what 0002 replaces; neither script goes through twice, since a
\* table or an index of that name is there already.
Builds(n) ==
    /\ n \notin applied
    /\ n = 2 => OnePerLabel

\* Bug: the script of 0002 runs statement by statement, outside a transaction.
ScriptInPieces(n) ==
    IF n = 2 /\ index = "service"
    THEN index' = "none" /\ UNCHANGED <<applied, keys>>
    ELSE /\ index' = IF n = 1 THEN "service" ELSE "label"
         /\ applied' = applied \cup {n}
         /\ UNCHANGED keys

\* One migration: its script and its row, in one transaction.
Script(n) ==
    /\ index' = IF n = 1 THEN "service" ELSE "label"
    /\ applied' = applied \cup {n}
    /\ UNCHANGED keys

\* MIGRATOR.run goes on with the plan it made, whatever another process has
\* applied since: then the script fails, and the start with it.
Apply(p) ==
    /\ stage[p] = "migrate" /\ plan[p] # {}
    /\ LET n == CHOOSE n \in plan[p] : \A k \in plan[p] : n <= k IN
        IF Builds(n)
        THEN /\ Script(n)
             /\ plan' = [plan EXCEPT ![p] = @ \ applied']
             /\ UNCHANGED <<stage, config, net>>
        ELSE Exit(p) /\ UNCHANGED db
    /\ UNCHANGED faults

\* Bug: a serve does not wait for its migrations.
MigratedAtOnce(p) ==
    /\ stage[p] = "migrate" /\ (plan[p] = {} \/ Cmd[p] = "serve")
    /\ IF Cmd[p] = "migrate"
       THEN Exit(p)
       ELSE /\ Goes(p, IF decoded_len(config[p].cookie_key) >= 32
                       THEN "discover" ELSE "panicked")
            /\ UNCHANGED <<config, plan, net>>
    /\ UNCHANGED <<db, faults>>

\* All are applied.  migrate returns; serve derives the cookie key, which takes
\* 32 bytes or more or panics, and builds its OIDC client.
Migrated(p) ==
    /\ stage[p] = "migrate" /\ plan[p] = {}
    /\ IF Cmd[p] = "migrate"
       THEN Exit(p)
       ELSE /\ Goes(p, IF decoded_len(config[p].cookie_key) >= 32
                       THEN "discover" ELSE "panicked")
            /\ UNCHANGED <<config, plan, net>>
    /\ UNCHANGED <<db, faults>>

\* Bug: the issuer is taken as Url writes it.
IssuerAsParsed(cfg) == cfg.issuer_url

\* trim_end_matches('/').
issuer(cfg) == [cfg.issuer_url EXCEPT !.slash = FALSE]

\* The provider's document is there, and must name the issuer it was asked for.
Discover(p) ==
    /\ stage[p] \in {"discover", "hanging"}
    /\ IF issuer(config[p]) = Declared
       THEN Goes(p, "bind") /\ UNCHANGED <<config, plan, net>>
       ELSE Exit(p)
    /\ UNCHANGED <<db, faults>>

\* The provider accepts and says nothing: the client has no timeout.
Silence(p) ==
    /\ stage[p] = "discover"
    /\ Goes(p, "hanging") /\ Fault
    /\ UNCHANGED <<config, plan, db, net>>

\* TcpListener::bind.
Bind(p) ==
    /\ stage[p] = "bind"
    /\ IF \E q \in Procs : stage[q] = "serving"
       THEN Exit(p)
       ELSE Goes(p, "serving") /\ UNCHANGED <<config, plan, net>>
    /\ UNCHANGED <<db, faults>>

\* An unsound file, a database that cannot be opened or written, a provider
\* that refuses: each ends the start with an error.
StartFails(p) ==
    /\ \/ stage[p] = "down" /\ Loaded # Files
       \/ stage[p] \in {"open", "migrate", "discover", "hanging", "bind"}
    /\ Exit(p) /\ Fault
    /\ UNCHANGED db

-----------------------------------------------------------------------------
(* Serving                                                                 *)

\* Bug: the listener stays open until the process ends.
ListensToTheEnd(p) == stage[p] \in {"serving", "stopping"}

Listens(p) == stage[p] = "serving"

Accept(c) ==
    /\ conns[c] = None
    /\ \E p \in Procs : Listens(p) /\ conns' = [conns EXCEPT ![c] = p]
    /\ UNCHANGED <<stage, config, plan, db, stalled, faults>>

Admits(i, l) ==
    \A j \in Ids \ {i} : keys[j] # None =>
        CASE index = "service" -> FALSE
          [] index = "label" -> keys[j] # l
          [] OTHER -> TRUE

\* The INSERT of a mint, under the index there is now.
Mint(c) ==
    /\ conns[c] # None /\ c \notin stalled
    /\ \E i \in Ids, l \in Labels :
        /\ keys[i] = None /\ Admits(i, l)
        /\ keys' = [keys EXCEPT ![i] = l]
    /\ UNCHANGED <<stage, config, plan, applied, index, net, faults>>

Revoke(c) ==
    /\ conns[c] # None /\ c \notin stalled
    /\ \E i \in Ids : keys[i] # None /\ keys' = [keys EXCEPT ![i] = None]
    /\ UNCHANGED <<stage, config, plan, applied, index, net, faults>>

\* The last response is out and the connection is closed.
Respond(c) ==
    /\ conns[c] # None /\ c \notin stalled
    /\ conns' = [conns EXCEPT ![c] = None]
    /\ UNCHANGED <<stage, config, plan, db, stalled, faults>>

\* A client that stops reading a streamed response, reads again, or is gone.
Stall(c) ==
    /\ conns[c] # None /\ c \notin stalled
    /\ stalled' = stalled \cup {c}
    /\ UNCHANGED <<stage, config, plan, db, conns, faults>>

Resume(c) ==
    /\ c \in stalled
    /\ stalled' = stalled \ {c}
    /\ \/ UNCHANGED conns
       \/ conns' = [conns EXCEPT ![c] = None]
    /\ UNCHANGED <<stage, config, plan, db, faults>>

-----------------------------------------------------------------------------
(* Stop                                                                    *)

\* shutdown_signal: the listener is dropped.  A second signal finds the handler
\* of the first and does nothing.
Signal(p) ==
    /\ stage[p] = "serving"
    /\ Goes(p, "stopping")
    /\ UNCHANGED <<config, plan, db, net, faults>>

\* axum::serve returns when the last connection is closed.
Finish(p) ==
    /\ stage[p] = "stopping" /\ \A c \in Conns : conns[c] # p
    /\ Goes(p, "draining")
    /\ UNCHANGED <<config, plan, db, net, faults>>

\* The flusher drains once more and run_serve returns.
Drain(p) ==
    /\ stage[p] = "draining"
    /\ Exit(p)
    /\ UNCHANGED <<db, faults>>

\* A kill, a crash, or a signal before the handler is there.
Kill(p) ==
    /\ stage[p] # "down"
    /\ Exit(p) /\ Fault
    /\ UNCHANGED db

-----------------------------------------------------------------------------

Advance(p) ==
    \/ Start(p) \/ Open(p) \/ Apply(p) \/ Migrated(p) \/ Bind(p)
    \/ Finish(p) \/ Drain(p)

Next ==
    \/ \E p \in Procs :
        \/ Advance(p) \/ Discover(p) \/ Silence(p) \/ StartFails(p)
        \/ Signal(p) \/ Kill(p)
    \/ \E c \in Conns :
        Accept(c) \/ Mint(c) \/ Revoke(c) \/ Respond(c) \/ Stall(c) \/ Resume(c)

\* A process takes its own steps and is started again when it is down; a
\* provider that is not silent answers; a request whose client reads is answered.
Fairness ==
    /\ \A p \in Procs :
        /\ WF_vars(Advance(p))
        /\ WF_vars(stage[p] = "discover" /\ Discover(p))
    /\ \A c \in Conns : WF_vars(Respond(c))

Spec == Init /\ [][Next]_vars /\ Fairness

-----------------------------------------------------------------------------
(* Properties                                                              *)

TypeOK ==
    /\ stage \in [Procs -> Stages]
    /\ config \in [Procs -> Configs \cup {None}]
    /\ plan \in [Procs -> SUBSET {1, 2}]
    /\ applied \subseteq {1, 2}
    /\ index \in {"none", "service", "label"}
    /\ keys \in [Ids -> Labels \cup {None}]
    /\ conns \in [Conns -> Procs \cup {None}]
    /\ stalled \subseteq {c \in Conns : conns[c] # None}
    /\ faults \in 0..MaxFaults

\* A configuration that can be used: key material of the length the code that
\* uses it needs, services told apart by their ids, and no reference left but
\* what a variable itself holds.
Sound(cfg) ==
    /\ decoded_len(cfg.cookie_key) >= 32 /\ decoded_len(cfg.api_key_pepper) >= 32
    /\ cfg.services # <<>>
    /\ \A i, j \in DOMAIN cfg.services :
        cfg.services[i].id = cfg.services[j].id => i = j
    /\ \A v \in Values(cfg) \ {cfg.comment} :
        v.kind = "ref" => \E var \in DOMAIN Env : Env[var] = v

Serves(p) == stage[p] \in {"serving", "stopping", "draining"}

\* "No partial startup" (main.rs:106): no process panics on its keys, one that
\* serves has a sound configuration, the tables its code was written for, and a
\* provider that calls itself what the configuration does; and only one listens.
NoPartialStartup ==
    /\ \A p \in Procs :
        /\ stage[p] # "panicked"
        /\ config[p] # None => Sound(config[p])
        /\ Serves(p) =>
            /\ Cmd[p] = "serve" /\ config[p] # None
            /\ Embedded(p) \subseteq applied
            /\ issuer(config[p]) = Declared
    /\ \A p, q \in Procs : stage[p] = "serving" /\ stage[q] = "serving" => p = q

\* At no time, while one release mints and another migrates, are there two
\* active keys of one label, nor a schema without the index its migrations say.
KeysKeepTheirRule ==
    /\ OnePerLabel
    /\ index = IF 2 \in applied THEN "label" ELSE IF 1 \in applied THEN "service" ELSE "none"
    /\ 2 \in applied => 1 \in applied

\* A stop that has begun ends, unless some client does not read its response.
StopsUnlessStalled ==
    \A p \in Procs :
        stage[p] = "stopping" ~> (stage[p] = "down" \/ \E c \in stalled : conns[c] = p)

\* However migrations raced, failed or were cut short, the service comes back
\* again and again, unless a provider or a client holds a process for ever.
ServesInTheEnd ==
    []<>\E p \in Procs :
        \/ stage[p] \in {"serving", "hanging"}
        \/ stage[p] = "stopping" /\ \E c \in stalled : conns[c] = p

\* pietro.md:304: discovery is "done with a timeout; if the IdP is down, startup
\* fails fast".
FailsFast ==
    \A p \in Procs :
        stage[p] = "discover" ~> stage[p] \notin {"discover", "hanging"}
=============================================================================
