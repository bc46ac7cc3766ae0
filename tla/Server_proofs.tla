--------------------------- MODULE Server_proofs ---------------------------
(***************************************************************************)
(* The safety properties of Server, for any number of processes, files and *)
(* connections.  What a process may rely on depends on how far its start   *)
(* has come; the tables only ever gain what migrations add.                *)
(***************************************************************************)
EXTENDS Server, TLAPS

\* The configuration a process has loaded stays with it.
Configured(p) == stage[p] # "down" => config[p] \in Configs

\* How much of its migrations a process has behind it.
Behind(p) ==
    /\ stage[p] = "migrate" => Embedded(p) \ plan[p] \subseteq applied
    /\ stage[p] \in Stages \ {"down", "open", "migrate"} =>
          Cmd[p] = "serve" /\ Embedded(p) \subseteq applied

Known(p) ==
    stage[p] \in {"bind", "serving", "stopping", "draining"} =>
        issuer(config[p]) = Declared

Good(p) == stage[p] # "panicked" /\ Configured(p) /\ Behind(p) /\ Known(p)

OneListens ==
    \A p, q \in Procs : stage[p] = "serving" /\ stage[q] = "serving" => p = q

\* A connection is open to a process that serves it.
Connected == \A c \in Conns : conns[c] # None => stage[conns[c]] \in {"serving", "stopping"}

IInv ==
    /\ TypeOK /\ KeysKeepTheirRule
    /\ \A p \in Procs : Good(p)
    /\ OneListens /\ Connected

-----------------------------------------------------------------------------
(* Configurations                                                          *)

\* What has been loaded can be used, whatever files there are (Config::load):
\* each check of TryFrom does its part.
THEOREM LoadedIsSound == \A cfg \in Configs : Sound(cfg)
  <1> SUFFICES ASSUME NEW f \in Loaded, NEW cfg, cfg = interpolate_env(f, Env)
               PROVE  Sound(cfg)
    BY DEF Configs
  <1>1. f \in Files /\ AllSet(f, Env) /\ Accepts(cfg)
    BY DEF Loaded, Loads
  <1>2. decoded_len(cfg.cookie_key) >= 32 /\ decoded_len(cfg.api_key_pepper) >= 32
    BY <1>1 DEF Accepts, check_key_material, KEY_MATERIAL_MIN_BYTES
  <1>3. cfg.services # <<>>
    BY <1>1 DEF Accepts
  <1>4. DOMAIN cfg.services = DOMAIN f.services
    BY <1>1, FilesAssumption DEF interpolate_env
  <1>5. ASSUME NEW i \in DOMAIN cfg.services, NEW j \in DOMAIN cfg.services,
               cfg.services[i].id = cfg.services[j].id
        PROVE  i = j
    <2>1. i \in Nat \ {0} /\ j \in Nat \ {0}
      BY <1>1, <1>4, FilesAssumption
    <2>2. \A k \in DOMAIN cfg.services : \A l \in 1..(k - 1) :
            cfg.services[l].id # cfg.services[k].id
      BY <1>1 DEF Accepts, AcceptsService, AcceptsId
    <2>q. QED
      BY <1>5, <2>1, <2>2
  <1>6. ASSUME NEW v \in Values(cfg) \ {cfg.comment}, v.kind = "ref"
        PROVE  \E var \in DOMAIN Env : Env[var] = v
    <2>1. PICK w \in Values(f) : v = Expand(w, Env)
      <3>1. /\ cfg.public_url = Expand(f.public_url, Env)
            /\ cfg.cookie_key = Expand(f.cookie_key, Env)
            /\ cfg.api_key_pepper = Expand(f.api_key_pepper, Env)
            /\ cfg.issuer_url = Expand(f.issuer_url, Env)
            /\ cfg.client_secret = Expand(f.client_secret, Env)
        BY <1>1, FilesAssumption DEF interpolate_env
      <3>2. ASSUME NEW i \in DOMAIN f.services
            PROVE  /\ cfg.services[i].upstream_url = Expand(f.services[i].upstream_url, Env)
                   /\ cfg.services[i].value = Expand(f.services[i].value, Env)
        <4>1. cfg.services[i] = ExpandService(f.services[i], Env)
          BY <1>1, <3>2, FilesAssumption DEF interpolate_env
        <4>2. /\ "upstream_url" \in DOMAIN f.services[i]
              /\ "value" \in DOMAIN f.services[i]
          BY <1>1, <3>2, FilesAssumption
        <4>q. QED
          BY <4>1, <4>2 DEF ExpandService
      <3>q. QED
        BY <1>4, <1>6, <3>1, <3>2 DEF Values, ToSet
    <2>2. CASE w.kind = "ref"
      <3>1. w.var \in References(f)
        BY <2>2 DEF References
      <3>q. QED
        BY <1>1, <2>1, <2>2, <3>1, FilesAssumption DEF Expand, AllSet
    <2>3. CASE w.kind # "ref"
      BY <1>6, <2>1, <2>3 DEF Expand
    <2>q. QED
      BY <2>2, <2>3
  <1>q. QED
    BY <1>2, <1>3, <1>5, <1>6 DEF Sound

-----------------------------------------------------------------------------
(* The invariant                                                           *)

LEMMA InitIInv == Init => IInv
  <1> SUFFICES ASSUME Init PROVE IInv
    OBVIOUS
  <1> USE DEF Init
  <1>1. TypeOK
    BY ServerAssumption DEF TypeOK, Stages
  <1>2. KeysKeepTheirRule
    BY DEF KeysKeepTheirRule, OnePerLabel
  <1>3. \A p \in Procs : Good(p)
    BY DEF Good, Configured, Behind, Known, Stages
  <1>4. OneListens /\ Connected
    BY DEF OneListens, Connected
  <1>q. QED
    BY <1>1, <1>2, <1>3, <1>4 DEF IInv

\* The end of a process leaves well-typed variables and touches no other.
LEMMA ExitIsClean ==
    ASSUME TypeOK, NEW p \in Procs, Exit(p)
    PROVE  /\ stage' \in [Procs -> Stages]
           /\ config' \in [Procs -> Configs \cup {None}]
           /\ plan' \in [Procs -> SUBSET {1, 2}]
           /\ conns' \in [Conns -> Procs \cup {None}]
           /\ stalled' \subseteq {c \in Conns : conns'[c] # None}
           /\ stage'[p] = "down"
           /\ \A q \in Procs \ {p} :
                stage'[q] = stage[q] /\ config'[q] = config[q] /\ plan'[q] = plan[q]
           /\ \A c \in Conns : conns'[c] # None => conns'[c] # p /\ conns'[c] = conns[c]
  <1>1. stage' \in [Procs -> Stages] /\ plan' \in [Procs -> SUBSET {1, 2}]
    BY DEF TypeOK, Exit, Stages
  <1>2. config' \in [Procs -> Configs \cup {None}]
    BY DEF TypeOK, Exit
  <1>3. conns' \in [Conns -> Procs \cup {None}]
    BY DEF TypeOK, Exit
  <1>4. /\ stage'[p] = "down"
        /\ \A q \in Procs \ {p} :
            stage'[q] = stage[q] /\ config'[q] = config[q] /\ plan'[q] = plan[q]
    BY DEF TypeOK, Exit
  <1>5. \A c \in Conns : conns'[c] # None => conns'[c] # p /\ conns'[c] = conns[c]
    BY DEF TypeOK, Exit
  <1>6. stalled' \subseteq {c \in Conns : conns'[c] # None}
    BY DEF TypeOK, Exit
  <1>q. QED
    BY <1>1, <1>2, <1>3, <1>4, <1>5, <1>6

LEMMA EmbeddedIsBounded == \A p \in Procs : Embedded(p) \in SUBSET {1, 2}
  BY ServerAssumption DEF Embedded

\* Steps of processes and of connections keep the types.
LEMMA ProcsKeepTypes ==
    ASSUME TypeOK, NEW p \in Procs,
           \/ Advance(p) \/ Discover(p) \/ Silence(p) \/ StartFails(p)
           \/ Signal(p) \/ Kill(p)
    PROVE  TypeOK'
  <1>1. CASE Start(p)
    BY <1>1 DEF TypeOK, Start, Goes, Stages, db, net
  <1>2. CASE Open(p)
    <2>1. CASE applied \subseteq Embedded(p)
      BY <1>2, <2>1, EmbeddedIsBounded DEF TypeOK, Open, Goes, Stages, db, net
    <2>2. CASE ~(applied \subseteq Embedded(p))
      BY <1>2, <2>2, ExitIsClean DEF TypeOK, Open, db
    <2>q. QED
      BY <2>1, <2>2
  <1>3. CASE Apply(p)
    <2> DEFINE n == CHOOSE n \in plan[p] : \A k \in plan[p] : n <= k
    <2>1. n \in {1, 2}
      <3>1. plan[p] \in SUBSET {1, 2} /\ plan[p] # {}
        BY <1>3 DEF TypeOK, Apply
      <3>2. \E m \in plan[p] : \A k \in plan[p] : m <= k
        BY <3>1
      <3>q. QED
        BY <3>1, <3>2
    <2>2. CASE Builds(n)
      <3>1. /\ Script(n) /\ plan' = [plan EXCEPT ![p] = @ \ applied']
            /\ UNCHANGED <<stage, config, net, faults>>
        BY <1>3, <2>2 DEF Apply
      <3>2. applied' \subseteq {1, 2} /\ index' \in {"none", "service", "label"} /\ keys' = keys
        BY <2>1, <3>1 DEF TypeOK, Script
      <3>3. plan' \in [Procs -> SUBSET {1, 2}]
        BY <3>1 DEF TypeOK
      <3>q. QED
        BY <3>1, <3>2, <3>3 DEF TypeOK, net
    <2>3. CASE ~Builds(n)
      BY <1>3, <2>3, ExitIsClean DEF TypeOK, Apply, db
    <2>q. QED
      BY <2>2, <2>3
  <1>4. CASE Migrated(p)
    <2>1. CASE Cmd[p] = "migrate"
      BY <1>4, <2>1, ExitIsClean DEF TypeOK, Migrated, db
    <2>2. CASE Cmd[p] # "migrate"
      BY <1>4, <2>2 DEF TypeOK, Migrated, Goes, Stages, db, net
    <2>q. QED
      BY <2>1, <2>2
  <1>5. CASE Bind(p)
    <2>1. CASE \E q \in Procs : stage[q] = "serving"
      BY <1>5, <2>1, ExitIsClean DEF TypeOK, Bind, db
    <2>2. CASE ~\E q \in Procs : stage[q] = "serving"
      BY <1>5, <2>2 DEF TypeOK, Bind, Goes, Stages, db, net
    <2>q. QED
      BY <2>1, <2>2
  <1>6. CASE Finish(p)
    BY <1>6 DEF TypeOK, Finish, Goes, Stages, db, net
  <1>7. CASE Drain(p)
    BY <1>7, ExitIsClean DEF TypeOK, Drain, db
  <1>8. CASE Discover(p)
    <2>1. CASE issuer(config[p]) = Declared
      BY <1>8, <2>1 DEF TypeOK, Discover, Goes, Stages, db, net
    <2>2. CASE issuer(config[p]) # Declared
      BY <1>8, <2>2, ExitIsClean DEF TypeOK, Discover, db
    <2>q. QED
      BY <2>1, <2>2
  <1>9. CASE Silence(p)
    BY <1>9, ServerAssumption DEF TypeOK, Silence, Goes, Fault, Stages, db, net
  <1>10. CASE StartFails(p)
    BY <1>10, ExitIsClean, ServerAssumption DEF TypeOK, StartFails, Fault, db
  <1>11. CASE Signal(p)
    BY <1>11 DEF TypeOK, Signal, Goes, Stages, db, net
  <1>12. CASE Kill(p)
    BY <1>12, ExitIsClean, ServerAssumption DEF TypeOK, Kill, Fault, db
  <1>q. QED
    BY <1>1, <1>2, <1>3, <1>4, <1>5, <1>6, <1>7, <1>8, <1>9, <1>10, <1>11, <1>12 DEF Advance

ConnStep(c) == Accept(c) \/ Mint(c) \/ Revoke(c) \/ Respond(c) \/ Stall(c) \/ Resume(c)

LEMMA ConnsKeepTypes ==
    ASSUME TypeOK, NEW c \in Conns, ConnStep(c)
    PROVE  TypeOK'
  <1>1. CASE Accept(c)
    BY <1>1, ServerAssumption DEF TypeOK, Accept, db
  <1>2. CASE Mint(c) \/ Revoke(c)
    BY <1>2 DEF TypeOK, Mint, Revoke, net
  <1>3. CASE Respond(c)
    BY <1>3 DEF TypeOK, Respond, db
  <1>4. CASE Stall(c)
    BY <1>4 DEF TypeOK, Stall, db
  <1>5. CASE Resume(c)
    BY <1>5 DEF TypeOK, Resume, db
  <1>q. QED
    BY <1>1, <1>2, <1>3, <1>4, <1>5 DEF ConnStep

-----------------------------------------------------------------------------
(* The tables                                                              *)

\* What a migration of a plan finds: the ones before it are applied.
LEMMA ScriptFollows ==
    ASSUME IInv, NEW p \in Procs, Apply(p), applied' # applied
    PROVE  /\ keys' = keys
           /\ \/ applied = {} /\ applied' = {1} /\ index' = "service"
              \/ applied = {1} /\ applied' = {1, 2} /\ index' = "label"
  <1> DEFINE n == CHOOSE n \in plan[p] : \A k \in plan[p] : n <= k
  <1>1. Builds(n) /\ Script(n)
    BY DEF Apply, db
  <1>2. plan[p] \in SUBSET {1, 2} /\ plan[p] # {} /\ applied \in SUBSET {1, 2}
    BY DEF IInv, TypeOK, Apply
  <1>3. n \in plan[p] /\ \A k \in plan[p] : n <= k
    <2>1. \E m \in plan[p] : \A k \in plan[p] : m <= k
      BY <1>2
    <2>q. QED
      BY <2>1
  <1> HIDE DEF n
  <1>4. n \notin applied /\ (2 \in applied => 1 \in applied)
    BY <1>1 DEF Builds, IInv, KeysKeepTheirRule
  <1>5. CASE n = 1
    <2>1. applied = {}
      BY <1>2, <1>4, <1>5
    <2>q. QED
      BY <1>1, <1>5, <2>1 DEF Script
  <1>6. CASE n = 2
    <2>1. 1 \notin plan[p]
      BY <1>3, <1>6
    <2>2. 1 \in Embedded(p)
      BY ServerAssumption DEF Embedded
    <2>3. Embedded(p) \ plan[p] \subseteq applied
      BY DEF IInv, Good, Behind, Apply
    <2>4. applied = {1}
      BY <1>2, <1>4, <1>6, <2>1, <2>2, <2>3
    <2>q. QED
      BY <1>1, <1>6, <2>4 DEF Script
  <1>q. QED
    BY <1>2, <1>3, <1>5, <1>6

\* Whoever is connected is served on a schema that has its index.
LEMMA ServedHaveIndex ==
    ASSUME IInv, NEW c \in Conns, conns[c] # None
    PROVE  index \in {"service", "label"}
  <1>1. PICK p \in Procs : conns[c] = p
    BY DEF IInv, TypeOK
  <1>2. stage[p] \in {"serving", "stopping"}
    BY <1>1 DEF IInv, Connected
  <1>3. 1 \in applied
    <2>1. Embedded(p) \subseteq applied
      BY <1>2 DEF IInv, Good, Behind, Stages
    <2>q. QED
      BY <2>1, ServerAssumption DEF Embedded
  <1>q. QED
    BY <1>3 DEF IInv, KeysKeepTheirRule

LEMMA ProcsKeepRule ==
    ASSUME IInv, NEW p \in Procs,
           \/ Advance(p) \/ Discover(p) \/ Silence(p) \/ StartFails(p)
           \/ Signal(p) \/ Kill(p)
    PROVE  KeysKeepTheirRule'
  <1>1. CASE UNCHANGED db
    BY <1>1 DEF IInv, KeysKeepTheirRule, OnePerLabel, db
  <1>2. CASE Apply(p)
    <2>1. CASE applied' = applied
      <3>1. UNCHANGED db
        BY <1>2, <2>1 DEF Apply, Builds, Script
      <3>q. QED
        BY <1>1, <3>1
    <2>2. CASE applied' # applied
      BY <1>2, <2>2, ScriptFollows DEF IInv, KeysKeepTheirRule, OnePerLabel
    <2>q. QED
      BY <2>1, <2>2
  <1>3. UNCHANGED db \/ Apply(p)
    BY DEF Advance, Start, Open, Migrated, Bind, Finish, Drain, Discover, Silence,
           StartFails, Signal, Kill
  <1>q. QED
    BY <1>1, <1>2, <1>3

LEMMA ConnsKeepRule ==
    ASSUME IInv, NEW c \in Conns, ConnStep(c)
    PROVE  KeysKeepTheirRule'
  <1>1. CASE UNCHANGED db
    BY <1>1 DEF IInv, KeysKeepTheirRule, OnePerLabel, db
  <1>2. CASE Mint(c)
    <2>1. PICK i \in Ids, l \in Labels :
            keys[i] = None /\ Admits(i, l) /\ keys' = [keys EXCEPT ![i] = l]
      BY <1>2 DEF Mint
    <2>2. \A j \in Ids \ {i} : keys[j] # l
      BY <1>2, <2>1, ServedHaveIndex, ServerAssumption DEF Admits, Mint
    <2>3. keys \in [Ids -> Labels \cup {None}]
      BY DEF IInv, TypeOK
    <2>4. OnePerLabel'
      BY <2>1, <2>2, <2>3 DEF IInv, KeysKeepTheirRule, OnePerLabel
    <2>q. QED
      BY <1>2, <2>4 DEF IInv, KeysKeepTheirRule, Mint
  <1>3. CASE Revoke(c)
    BY <1>3 DEF IInv, TypeOK, KeysKeepTheirRule, OnePerLabel, Revoke
  <1>4. UNCHANGED db \/ Mint(c) \/ Revoke(c)
    BY DEF ConnStep, Accept, Respond, Stall, Resume
  <1>q. QED
    BY <1>1, <1>2, <1>3, <1>4

-----------------------------------------------------------------------------
(* The processes                                                           *)

\* A process keeps what it relies on while others step: migrations only add up.
LEMMA OthersStayGood ==
    ASSUME NEW q \in Procs, Good(q), applied \subseteq applied',
           stage'[q] = stage[q], config'[q] = config[q], plan'[q] = plan[q]
    PROVE  Good(q)'
  <1>1. Embedded(q)' = Embedded(q) /\ issuer(config[q])' = issuer(config[q])
    BY DEF Embedded, issuer
  <1>q. QED
    BY <1>1 DEF Good, Configured, Behind, Known

\* What a step of p does to p, and that it does nothing to another process.
LEMMA StepIsGood ==
    ASSUME IInv, NEW p \in Procs,
           \/ Advance(p) \/ Discover(p) \/ Silence(p) \/ StartFails(p)
           \/ Signal(p) \/ Kill(p)
    PROVE  /\ Good(p)'
           /\ \A q \in Procs \ {p} :
                stage'[q] = stage[q] /\ config'[q] = config[q] /\ plan'[q] = plan[q]
  <1> USE DEF IInv
  <1> DEFINE Apart == \A q \in Procs \ {p} :
                stage'[q] = stage[q] /\ config'[q] = config[q] /\ plan'[q] = plan[q]
  <1>0. ASSUME Exit(p) PROVE Good(p)' /\ Apart
    <2>1. stage'[p] = "down" /\ Apart
      BY <1>0, ExitIsClean
    <2>q. QED
      BY <2>1 DEF Good, Configured, Behind, Known, Stages
  <1>1. CASE Start(p)
    <2>1. stage'[p] = "open" /\ config'[p] \in Configs /\ Apart
      BY <1>1 DEF TypeOK, Start, Goes
    <2>q. QED
      BY <2>1 DEF Good, Configured, Behind, Known, Stages
  <1>2. CASE Open(p) /\ ~Exit(p)
    <2>1. /\ stage'[p] = "migrate" /\ config'[p] = config[p]
          /\ plan'[p] = Embedded(p) \ applied /\ applied' = applied /\ Apart
      BY <1>2 DEF TypeOK, Open, Goes, db
    <2>2. config[p] \in Configs
      BY <1>2 DEF Good, Configured, Open
    <2>3. Embedded(p)' = Embedded(p)
      BY DEF Embedded
    <2>q. QED
      BY <2>1, <2>2, <2>3 DEF Good, Configured, Behind, Known, Stages
  <1>3. CASE Apply(p) /\ ~Exit(p)
    <2>1. /\ stage' = stage /\ config' = config /\ stage[p] = "migrate"
          /\ plan' = [plan EXCEPT ![p] = @ \ applied']
      BY <1>3 DEF Apply
    <2>2. applied \subseteq applied'
      BY <1>3, ScriptFollows DEF TypeOK
    <2>3. plan'[p] = plan[p] \ applied' /\ Apart
      BY <2>1 DEF TypeOK
    <2>4. Embedded(p)' = Embedded(p)
      BY DEF Embedded
    <2>q. QED
      BY <2>1, <2>2, <2>3, <2>4 DEF Good, Configured, Behind, Known, Stages
  <1>4. CASE Migrated(p) /\ ~Exit(p)
    <2>1. /\ Cmd[p] # "migrate" /\ config' = config /\ plan' = plan /\ applied' = applied
          /\ stage[p] = "migrate" /\ plan[p] = {}
          /\ stage' = [stage EXCEPT ![p] = IF decoded_len(config[p].cookie_key) >= 32
                                           THEN "discover" ELSE "panicked"]
      BY <1>4 DEF Migrated, Goes, db
    <2>2. config[p] \in Configs
      BY <2>1 DEF Good, Configured
    <2>3. decoded_len(config[p].cookie_key) >= 32
      BY <2>2, LoadedIsSound DEF Sound
    <2>4. stage'[p] = "discover" /\ Apart
      BY <2>1, <2>3 DEF TypeOK
    <2>5. Cmd[p] = "serve" /\ Embedded(p) \subseteq applied
      BY <2>1, ServerAssumption DEF Good, Behind
    <2>6. Embedded(p)' = Embedded(p)
      BY DEF Embedded
    <2>q. QED
      BY <2>1, <2>2, <2>4, <2>5, <2>6 DEF Good, Configured, Behind, Known, Stages
  <1>5. CASE Discover(p) /\ ~Exit(p)
    <2>1. /\ issuer(config[p]) = Declared /\ stage[p] \in {"discover", "hanging"}
          /\ stage' = [stage EXCEPT ![p] = "bind"]
          /\ config' = config /\ plan' = plan /\ applied' = applied
      BY <1>5 DEF Discover, Goes, db
    <2>2. stage'[p] = "bind" /\ Apart
      BY <2>1 DEF TypeOK
    <2>3. issuer(config[p])' = issuer(config[p]) /\ Embedded(p)' = Embedded(p)
      BY <2>1 DEF issuer, Embedded
    <2>q. QED
      BY <2>1, <2>2, <2>3 DEF Good, Configured, Behind, Known, Stages
  <1>6. CASE Silence(p)
    <2>1. /\ stage[p] = "discover" /\ stage' = [stage EXCEPT ![p] = "hanging"]
          /\ config' = config /\ plan' = plan /\ applied' = applied
      BY <1>6 DEF Silence, Goes, db
    <2>2. stage'[p] = "hanging" /\ Apart
      BY <2>1 DEF TypeOK
    <2>3. Embedded(p)' = Embedded(p)
      BY DEF Embedded
    <2>q. QED
      BY <2>1, <2>2, <2>3 DEF Good, Configured, Behind, Known, Stages
  <1>7. CASE (Bind(p) \/ Signal(p) \/ Finish(p)) /\ ~Exit(p)
    <2>1. /\ stage[p] \in {"bind", "serving", "stopping"}
          /\ \E to \in {"serving", "stopping", "draining"} : stage' = [stage EXCEPT ![p] = to]
          /\ config' = config /\ plan' = plan /\ applied' = applied
      BY <1>7 DEF Bind, Signal, Finish, Goes, db
    <2>2. stage'[p] \in {"serving", "stopping", "draining"} /\ Apart
      BY <2>1 DEF TypeOK
    <2>3. issuer(config[p])' = issuer(config[p]) /\ Embedded(p)' = Embedded(p)
      BY <2>1 DEF issuer, Embedded
    <2>q. QED
      BY <2>1, <2>2, <2>3 DEF Good, Configured, Behind, Known, Stages
  <1>8. CASE Drain(p) \/ StartFails(p) \/ Kill(p)
    BY <1>0, <1>8 DEF Drain, StartFails, Kill
  <1>q. QED
    BY <1>0, <1>1, <1>2, <1>3, <1>4, <1>5, <1>6, <1>7, <1>8 DEF Advance

\* Only bind makes a process listen, and only where none does; a process leaves
\* its clients behind when it ends, or has none left.
LEMMA ProcsKeepNet ==
    ASSUME IInv, NEW p \in Procs,
           \/ Advance(p) \/ Discover(p) \/ Silence(p) \/ StartFails(p)
           \/ Signal(p) \/ Kill(p)
    PROVE  OneListens' /\ Connected'
  <1> USE DEF IInv
  <1>1. \A q \in Procs \ {p} : stage'[q] = stage[q]
    BY StepIsGood
  <1>2. OneListens'
    <2>1. CASE stage'[p] # "serving"
      BY <1>1, <2>1 DEF OneListens
    <2>2. CASE UNCHANGED stage
      BY <2>2 DEF OneListens
    <2>3. CASE Bind(p) /\ ~Exit(p)
      BY <1>1, <2>3 DEF Bind, OneListens
    <2>4. \/ stage'[p] # "serving" \/ UNCHANGED stage \/ (Bind(p) /\ ~Exit(p))
      <3>1. CASE Exit(p)
        BY <3>1, ExitIsClean
      <3>2. CASE ~Exit(p)
        BY <3>2 DEF TypeOK, Advance, Start, Open, Apply, Migrated, Bind, Finish, Drain, Discover,
                    Silence, StartFails, Signal, Kill, Goes
      <3>q. QED
        BY <3>1, <3>2
    <2>q. QED
      BY <2>1, <2>2, <2>3, <2>4
  <1>3. Connected'
    <2>1. CASE Exit(p)
      BY <1>1, <2>1, ExitIsClean DEF Connected
    <2>2. CASE ~Exit(p)
      <3>1. UNCHANGED net
        BY <2>2 DEF Advance, Start, Open, Apply, Migrated, Bind, Finish, Drain, Discover,
                    Silence, StartFails, Signal, Kill, net
      <3>2. CASE Signal(p)
        BY <1>1, <3>1, <3>2 DEF Connected, Signal, Goes, TypeOK, net
      <3>3. CASE Finish(p)
        BY <1>1, <3>1, <3>3 DEF Connected, Finish, TypeOK, net
      <3>4. CASE stage[p] \notin {"serving", "stopping"} \/ UNCHANGED stage
        BY <1>1, <3>1, <3>4 DEF Connected, TypeOK, net
      <3>5. Signal(p) \/ Finish(p) \/ stage[p] \notin {"serving", "stopping"} \/ UNCHANGED stage
        BY <2>2 DEF Advance, Start, Open, Apply, Migrated, Bind, Drain, Discover,
                    Silence, StartFails, Kill
      <3>q. QED
        BY <3>2, <3>3, <3>4, <3>5
    <2>q. QED
      BY <2>1, <2>2
  <1>q. QED
    BY <1>2, <1>3

\* A connection is opened to who listens; no client moves a process.
LEMMA ConnsKeepProcs ==
    ASSUME IInv, NEW c \in Conns, ConnStep(c)
    PROVE  (\A q \in Procs : Good(q)') /\ OneListens' /\ Connected'
  <1> USE DEF IInv
  <1>1. UNCHANGED <<stage, config, plan, applied>>
    BY DEF ConnStep, Accept, Mint, Revoke, Respond, Stall, Resume, db
  <1>2. ASSUME NEW q \in Procs PROVE Good(q)'
    BY <1>1, OthersStayGood
  <1>3. OneListens'
    BY <1>1 DEF OneListens
  <1>4. Connected'
    <2>1. CASE Accept(c)
      BY <1>1, <2>1 DEF TypeOK, Connected, Accept, Listens
    <2>2. CASE ~Accept(c)
      <3>1. \A d \in Conns : conns'[d] \in {conns[d], None}
        BY <2>2 DEF TypeOK, ConnStep, Mint, Revoke, Respond, Stall, Resume, net
      <3>q. QED
        BY <1>1, <3>1 DEF Connected
    <2>q. QED
      BY <2>1, <2>2
  <1>q. QED
    BY <1>2, <1>3, <1>4

LEMMA NextIInv == IInv /\ [Next]_vars => IInv'
  <1> SUFFICES ASSUME IInv, [Next]_vars PROVE IInv'
    OBVIOUS
  <1>1. ASSUME NEW p \in Procs,
               \/ Advance(p) \/ Discover(p) \/ Silence(p) \/ StartFails(p)
               \/ Signal(p) \/ Kill(p)
        PROVE  IInv'
    <2>1. TypeOK'
      BY <1>1, ProcsKeepTypes DEF IInv
    <2>2. KeysKeepTheirRule'
      BY <1>1, ProcsKeepRule
    <2>3. ASSUME NEW q \in Procs PROVE Good(q)'
      <3>1. CASE q = p
        BY <1>1, <3>1, StepIsGood
      <3>2. CASE q # p
        <4>1. applied \subseteq applied'
          <5>1. applied' = applied \/ Apply(p)
            BY <1>1 DEF Advance, Start, Open, Migrated, Bind, Finish, Drain, Discover,
                        Silence, StartFails, Signal, Kill, db
          <5>q. QED
            BY <5>1, ScriptFollows
        <4>q. QED
          BY <1>1, <3>2, <4>1, StepIsGood, OthersStayGood DEF IInv
      <3>q. QED
        BY <3>1, <3>2
    <2>4. OneListens' /\ Connected'
      BY <1>1, ProcsKeepNet
    <2>q. QED
      BY <2>1, <2>2, <2>3, <2>4 DEF IInv
  <1>2. ASSUME NEW c \in Conns, ConnStep(c) PROVE IInv'
    <2>1. TypeOK'
      BY <1>2, ConnsKeepTypes DEF IInv
    <2>q. QED
      BY <1>2, <2>1, ConnsKeepRule, ConnsKeepProcs DEF IInv
  <1>3. CASE UNCHANGED vars
    <2>1. TypeOK' /\ KeysKeepTheirRule'
      BY <1>3 DEF IInv, vars, TypeOK, KeysKeepTheirRule, OnePerLabel
    <2>2. ASSUME NEW q \in Procs PROVE Good(q)'
      BY <1>3, OthersStayGood DEF IInv, vars
    <2>3. OneListens' /\ Connected'
      BY <1>3 DEF IInv, vars, OneListens, Connected
    <2>q. QED
      BY <2>1, <2>2, <2>3 DEF IInv
  <1>q. QED
    BY <1>1, <1>2, <1>3 DEF Next, ConnStep

LEMMA IInvAlways == Spec => []IInv
  BY InitIInv, NextIInv, PTL DEF Spec

-----------------------------------------------------------------------------
(* Theorems                                                                *)

\* Every variable of Server keeps its type (run_serve, run_migrate, db.rs).
THEOREM TypeCorrect == Spec => []TypeOK
  <1>1. IInv => TypeOK
    BY DEF IInv
  <1>q. QED
    BY <1>1, IInvAlways, PTL

\* Whatever files, releases and failures there are, nothing serves half started:
\* no panic on a key, a sound configuration, a full schema, a provider that is
\* the configured one, and one listener (main.rs:91-171).
THEOREM NothingServesHalfStarted == Spec => []NoPartialStartup
  <1>1. IInv => NoPartialStartup
    <2> SUFFICES ASSUME IInv PROVE NoPartialStartup
      OBVIOUS
    <2>1. ASSUME NEW p \in Procs, config[p] # None PROVE Sound(config[p])
      BY <2>1, LoadedIsSound DEF IInv, TypeOK
    <2>2. ASSUME NEW p \in Procs, Serves(p)
          PROVE  /\ Cmd[p] = "serve" /\ config[p] # None
                 /\ Embedded(p) \subseteq applied /\ issuer(config[p]) = Declared
      BY <2>2, FilesAssumption DEF IInv, Good, Configured, Behind, Known, Serves, Stages
    <2>q. QED
      BY <2>1, <2>2 DEF IInv, Good, OneListens, NoPartialStartup
  <1>q. QED
    BY <1>1, IInvAlways, PTL

\* However many processes of either release mint and migrate at once, no label
\* gets two active keys and the index is that of the migrations on record
\* (db.rs:23-36, the comment of 0002 on building cleanly).
THEOREM KeysKeepTheirIndex == Spec => []KeysKeepTheirRule
  <1>1. IInv => KeysKeepTheirRule
    BY DEF IInv
  <1>q. QED
    BY <1>1, IInvAlways, PTL
\* A start that no fault ends fails in its migrations only where another process has
\* applied one of them since it made its plan.
OnlyRacesStopScripts ==
    [][\A p \in Procs :
        stage[p] = "migrate" /\ stage'[p] = "down" /\ plan[p] # {} /\ faults' = faults
            => plan[p] \cap applied # {}]_vars

\* Rows never stop a migration (db.rs:23-36, 0002): whatever keys an older release has
\* minted, or goes on minting meanwhile, the new index can be built over them.
THEOREM RowsNeverStopScripts == Spec => OnlyRacesStopScripts
  <1>1. ASSUME IInv, [Next]_vars, NEW p \in Procs,
               stage[p] = "migrate", stage'[p] = "down", plan[p] # {}, faults' = faults
        PROVE  plan[p] \cap applied # {}
    <2>1. faults \in Nat
      BY <1>1, ServerAssumption DEF IInv, TypeOK
    <2>2. ~UNCHANGED stage
      BY <1>1
    <2>3. PICK q \in Procs : Advance(q) \/ Discover(q) \/ Silence(q) \/ StartFails(q)
                                \/ Signal(q) \/ Kill(q)
      BY <1>1, <2>2
         DEF Next, vars, Accept, Mint, Revoke, Respond, Stall, Resume, net
    <2>4. q = p
      BY <1>1, <2>3, StepIsGood
    <2>5. Apply(p)
      BY <1>1, <2>1, <2>3, <2>4
         DEF Advance, Start, Open, Migrated, Bind, Finish, Drain, Discover, Silence,
             StartFails, Signal, Kill, Fault
    <2> DEFINE n == CHOOSE n \in plan[p] : \A k \in plan[p] : n <= k
    <2>6. n \in plan[p]
      <3>1. plan[p] \in SUBSET {1, 2}
        BY <1>1 DEF IInv, TypeOK
      <3>2. \E m \in plan[p] : \A k \in plan[p] : m <= k
        BY <1>1, <3>1
      <3> QED
        BY <3>2
    <2>7. ~Builds(n)
      BY <1>1, <2>5 DEF Apply
    <2>8. OnePerLabel
      BY <1>1 DEF IInv, KeysKeepTheirRule
    <2> HIDE DEF n
    <2>9. n \in applied
      BY <2>7, <2>8 DEF Builds
    <2> QED
      BY <2>6, <2>9
  <1>2. IInv /\ [Next]_vars =>
            [\A p \in Procs :
                stage[p] = "migrate" /\ stage'[p] = "down" /\ plan[p] # {} /\ faults' = faults
                    => plan[p] \cap applied # {}]_vars
    BY <1>1
  <1>q. QED
    BY <1>2, IInvAlways, PTL DEF Spec, OnlyRacesStopScripts
=============================================================================
