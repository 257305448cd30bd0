------------------------------ MODULE ModelRoute ------------------------------
(***************************************************************************)
(* The route to a language model (model_discovery.py, llm/router.py).      *)
(* init and the installers look for a model in the configuration of Hermes *)
(* and write the route to config.yaml, outside the lock of the Vault;      *)
(* every process that extracts memories builds its backend from that file, *)
(* with an environment of its own; a commit registers the scopes of what   *)
(* it wrote in the same file; and a person edits it at any time.  Models,  *)
(* addresses and credentials are names; what a name says is in constants.  *)
(***************************************************************************)
EXTENDS Naturals, Sequences, FiniteSets, SequencesExt

CONSTANTS
    Level,        \* scope -> 1 (domain), 2 (portfolio) or 3 (project)
    MaxScopes,
    None,
    Tokens,       \* the words of a model's name
    Addresses,    \* base URL -> [scheme, host, plain]; plain: no user, query or port
    Worlds        \* what Hermes, the shell, the files and the services start with

VARIABLES
    config,       \* config.yaml: [llm, scopes, engine, good]
    install,      \* the installer that runs
    report,       \* what the last one reported, and what happened since
    services,     \* service -> [env, held]; held: the router it keeps, or None
    registering,  \* [scopes, at, seen]: effects of a commit on the registry
    turn,         \* [status, reserved] of the run of one turn
    dispatches,   \* every call of a model, in order
    lost,         \* an installer wrote over what others wrote meanwhile (history)
    world, used

Scopes == DOMAIN Level

vars == << config, install, report, services, registering, turn, dispatches, lost, world, used >>

Use(what) == used[what] < world[what] /\ used' = [used EXCEPT ![what] = @ + 1] /\ UNCHANGED world
Unused == UNCHANGED << world, used >>

(***************************************************************************)
(* Credentials and capabilities.                                           *)
(***************************************************************************)

Masked == "***"
Redacted(text) == text = Masked
Credential(text) == IF text = "" \/ Redacted(text) THEN None ELSE text
At(env, name) == IF name \in DOMAIN env THEN env[name] ELSE ""

Families == {"generic", "openai", "deepseek", "anthropic", "gemini"}
LegacyFamily == [openai |-> "openai", deepseek |-> "deepseek", anthropic |-> "anthropic",
                 claude |-> "anthropic", gemini |-> "gemini", google |-> "gemini"]
LegacyProtocol == [openai |-> "openai", deepseek |-> "openai", anthropic |-> "claude",
                   claude |-> "claude", gemini |-> "gemini", google |-> "gemini"]
Aliases == [openai |-> "openai", chat_completions |-> "openai", chat |-> "openai",
            claude |-> "claude", anthropic |-> "claude", anthropic_messages |-> "claude",
            gemini |-> "gemini", google |-> "gemini", generate_content |-> "gemini"]

(* A protocol that is named must be known; only its absence lets the exact  *)
(* name of a provider decide.                                               *)
ProtocolOf(named, provider) ==
    IF named # "" THEN IF named \in DOMAIN Aliases THEN Aliases[named] ELSE None
    ELSE IF provider \in DOMAIN LegacyProtocol THEN LegacyProtocol[provider] ELSE "openai"

OfficialFamily(url) ==
    LET a == Addresses[url] IN
    IF a.scheme # "https" \/ ~a.plain THEN None
    ELSE CASE a.host = "api.openai.com" -> "openai"
           [] a.host = "api.deepseek.com" -> "deepseek"
           [] a.host = "api.anthropic.com" -> "anthropic"
           [] a.host = "generativelanguage.googleapis.com" -> "gemini"
           [] OTHER -> None

(* Explicit, then the provider's old name, then the exact official host.    *)
FamilyOf(named, provider, url) ==
    IF named # "" THEN IF named \in Families THEN named ELSE None
    ELSE IF provider \in DOMAIN LegacyFamily THEN LegacyFamily[provider]
    ELSE IF OfficialFamily(url) # None THEN OfficialFamily(url) ELSE "generic"

(* Only these families have the output contract of the planner.             *)
Planned(family) == family \in {"openai", "deepseek"}

(***************************************************************************)
(* Discovery: what the configuration of Hermes offers.                     *)
(***************************************************************************)

Sound(url) == LET a == Addresses[url] IN a.scheme \in {"http", "https"} /\ a.host # "" /\ a.plain
IsChat(model) == Tokens[model] \cap {"embedding", "tts", "image", "audio", "rerank"} = {}

LightRanks == [nano |-> 0, micro |-> 1, tiny |-> 2, mini |-> 3, lite |-> 4, flash |-> 5,
               haiku |-> 6, small |-> 7, fast |-> 8]
Light(model) == Min({LightRanks[t] : t \in Tokens[model] \cap DOMAIN LightRanks} \cup {50})
Heavy(model) == Cardinality(Tokens[model] \cap {"max", "opus", "pro", "large", "ultra", "reasoning"})
Lightness(c) ==
    << Light(c.model) + 100 * Heavy(c.model), Heavy(c.model),
       CASE c.origin = "hermes" -> 0 [] c.origin = "hermes_custom" -> 1 [] c.origin = "manual" -> 4 [] OTHER -> 5 >>
Lighter(a, b) == \E i \in DOMAIN a : a[i] < b[i] /\ \A j \in 1..(i - 1) : a[j] = b[j]

(* Ties go to the first: here they stand for the order of the names.        *)
SelectLightest(found) ==
    LET usable == SelectSeq(found, LAMBDA c : IsChat(c.model)) IN
    IF usable = << >> THEN None
    ELSE usable[CHOOSE i \in DOMAIN usable :
                   \A j \in DOMAIN usable : /\ ~Lighter(Lightness(usable[j]), Lightness(usable[i]))
                                            /\ j < i => Lighter(Lightness(usable[i]), Lightness(usable[j]))]

(* The file of variables Hermes names must be its own; an empty line is no  *)
(* declaration.                                                             *)
EnvFile(home) == home.file = "own"
DotEnv(home, name) ==
    LET lines == SelectSeq(home.lines, LAMBDA l : l[1] = name /\ Credential(l[2]) # None) IN
    IF EnvFile(home) /\ lines # << >> THEN lines[1][2] ELSE ""

Resolved(home, name) ==
    IF Credential(At(home.shell, name)) # None THEN At(home.shell, name) ELSE DotEnv(home, name)
KnownVariables == [anthropic |-> "ANTHROPIC_API_KEY", claude |-> "ANTHROPIC_API_KEY", deepseek |-> "DEEPSEEK_API_KEY",
                   google |-> "GEMINI_API_KEY", gemini |-> "GEMINI_API_KEY", openai |-> "OPENAI_API_KEY"]
VariableOf(e) ==
    IF e.var # "" THEN e.var
    ELSE IF e.provider \in DOMAIN KnownVariables THEN KnownVariables[e.provider] ELSE e.provider \o "_API_KEY"

(* A key written in the entry, the variable it refers to, or the variable   *)
(* its provider is known by.                                                *)
KeyOf(e, home) ==
    LET direct == Credential(IF e.ref # "" THEN Resolved(home, e.ref) ELSE e.key) IN
    IF direct # None THEN direct ELSE Credential(Resolved(home, VariableOf(e)))

Candidate(origin, e, protocol, family, key) ==
    [origin |-> origin, provider |-> e.provider, family |-> family, protocol |-> protocol,
     url |-> e.url, model |-> e.model, key |-> key]

CandidateOf(origin, e, home) ==
    LET protocol == ProtocolOf(e.protocol, e.provider)
        family == FamilyOf(e.family, e.provider, e.url)
        key == KeyOf(e, home) IN
    IF \/ e.provider = "" \/ e.model = "" \/ None \in {protocol, family, key}
       \/ ~IsChat(e.model) \/ ~Sound(e.url)
    THEN None ELSE Candidate(origin, e, protocol, family, key)

(* A model listed twice in a block counts where it is listed first.         *)
ModelsFrom(block) ==
    LET first == {i \in DOMAIN block : \A j \in 1..(i - 1) : block[j].model # block[i].model} IN
    [n \in 1..Cardinality(first) |-> block[CHOOSE i \in first : Cardinality({j \in first : j <= i}) = n]]

CandidatesIn(origin, block, home) ==
    SelectSeq([i \in DOMAIN ModelsFrom(block) |-> CandidateOf(origin, ModelsFrom(block)[i], home)],
              LAMBDA c : c # None)

DiscoverHermes(home) ==
    IF ~home.found \/ ~home.readable THEN << >>
    ELSE CandidatesIn("hermes", home.current, home)
         \o FoldSeq(LAMBDA block, all : all \o CandidatesIn("hermes_custom", block, home), << >>, home.custom)
DiscoverModels(home) == SelectLightest(DiscoverHermes(home))

Prompted(home) == IF home.typed = None THEN None ELSE CandidateOf("manual", home.typed, home)

(***************************************************************************)
(* The file, and the backend built from it.                                *)
(***************************************************************************)

(* The registry of scopes: a node names its parent, or a parent its         *)
(* children, and the two agree.                                             *)
NodeLegal(s, n) == n.parent # s /\ s \notin n.children
ParentAllowed(child, parent) == parent = "global" \/ (1 < Level[child] /\ Level[parent] < Level[child])
Edges(tree) ==
    UNION {{<< s, tree[s].parent >> : p \in {tree[s].parent} \ {""}} \cup {<< c, s >> : c \in tree[s].children} :
           s \in DOMAIN tree}
LegalRegistry(tree) ==
    /\ \A s \in DOMAIN tree : NodeLegal(s, tree[s])
    /\ \A e \in Edges(tree) : ParentAllowed(e[1], e[2])
    /\ \A e, f \in Edges(tree) : e[1] = f[1] => e[2] = f[2]
Projected(tree) ==
    [s \in DOMAIN tree |->
        [tree[s] EXCEPT !.parent = IF \E e \in Edges(tree) : e[1] = s THEN (CHOOSE e \in Edges(tree) : e[1] = s)[2] ELSE "",
                        !.children = {e[1] : e \in {f \in Edges(tree) : f[2] = s}}]]

(* Old files leave the protocol to the provider's name.                     *)
Normal(llm) == [llm EXCEPT !.protocol = ProtocolOf(llm.protocol, llm.provider)]

(* What a reader of the file gets, or None where it refuses the file.       *)
Readable(c) ==
    /\ c.good /\ LegalRegistry(c.scopes)
    /\ Normal(c.llm).protocol # None /\ c.llm.family \in Families \cup {""}
Loaded(c) == IF Readable(c) THEN [c EXCEPT !.llm = Normal(c.llm), !.scopes = Projected(c.scopes)] ELSE None
Saved(c) == [c EXCEPT !.llm = Normal(c.llm), !.scopes = Projected(c.scopes)]

(* The block an installer writes; the settings beside the route go back to  *)
(* what they are by default.                                                *)
ConfigOf(c) ==
    [mode |-> "api", provider |-> c.provider, family |-> c.family, protocol |-> c.protocol,
     url |-> c.url, key |-> c.key, var |-> "", model |-> c.model]

KeyInUse(llm, env) ==
    IF Credential(llm.key) # None THEN llm.key
    ELSE IF llm.var = "" THEN None ELSE Credential(At(env, llm.var))

ExistingRoute(env) ==
    LET c == Loaded(config)
        key == KeyInUse(c.llm, env) IN
    IF world.link \/ c = None THEN None
    ELSE IF key = None \/ c.llm.model = "" \/ c.llm.url = "" \/ c.llm.provider = "" THEN None
    ELSE Candidate("memleaf", c.llm, c.llm.protocol, FamilyOf(c.llm.family, c.llm.provider, c.llm.url), key)

Backend(by, family, protocol, url, model, key) ==
    [by |-> by, family |-> family, protocol |-> protocol, url |-> url, model |-> model, key |-> key]

(* Every complete() of a backend is one request.  The contract of the       *)
(* planner is kept by one protocol only, and only for some families.        *)
SinglePass(b) == b # None /\ b.protocol = "openai" /\ Planned(b.family)

BuildApi(llm, env) ==
    LET key == KeyInUse(llm, env) IN
    IF llm.url = "" \/ llm.model = "" \/ key = None THEN None
    ELSE Backend("api", FamilyOf(llm.family, llm.provider, llm.url), llm.protocol, llm.url, llm.model, key)

RouterOf(llm, env, host) == [mode |-> llm.mode, host |-> host, api |-> BuildApi(llm, env)]

(* The planner takes a fixed route to an API, and only one that makes a     *)
(* single request for a call.                                               *)
Fixed(router) == router.mode = "api" \/ (router.mode = "auto" /\ router.host = None)
Resolve(router) == IF Fixed(router) /\ SinglePass(router.api) THEN router.api ELSE None

(* What an installer asks: the contract alone, of every route it may take.  *)
SupportsSinglePass(router) ==
    CASE router.mode = "api" -> SinglePass(router.api)
      [] router.mode = "host" -> router.host # None
      [] OTHER -> IF router.host = None THEN SinglePass(router.api)
                  ELSE router.api = None \/ SinglePass(router.api)

(* The backends one call goes to, in turn: a host first, and the API only   *)
(* where the host failed and the purpose is not the planner's.              *)
Reached(router, purpose, hostFails) ==
    LET host == IF router.mode = "api" \/ router.host = None THEN << >> ELSE << router.host >>
        api == IF router.mode = "host" \/ router.api = None THEN << >> ELSE << router.api >> IN
    IF host = << >> THEN api
    ELSE IF hostFails /\ purpose # "single_pass" THEN host \o api ELSE host

Init ==
    \E w \in Worlds :
        /\ world = w
        /\ config = w.first
        /\ install = [step |-> "idle"]
        /\ report = [by |-> None, status |-> None, ready |-> FALSE, route |-> None, wrote |-> FALSE, touched |-> FALSE]
        /\ services = w.services
        /\ registering = [scopes |-> [s \in Scopes |-> "none"], at |-> None, seen |-> None]
        /\ turn = [status |-> "waiting", reserved |-> 0]
        /\ dispatches = << >>
        /\ lost = {}
        /\ used = [installs |-> 0, edits |-> 0, commits |-> 0, calls |-> 0, shortenings |-> 0, restarts |-> 0]

(***************************************************************************)
(* init, install --host hermes and install --host codex.                   *)
(***************************************************************************)

EngineReady(c) == Loaded(c) # None /\ c.engine = "incremental"
RouteCanExtract(c) == Loaded(c) # None /\ SupportsSinglePass(RouterOf(Loaded(c).llm, world.home.shell, None))

(* Hermes asks for the capability of the route; Codex asks for a route.     *)
Ready(by, status, c) ==
    /\ by # "init" /\ status \in {"configured", "already_configured"} /\ EngineReady(c)
    /\ by = "hermes" => RouteCanExtract(c)

Told(by, status, route, wrote, c) ==
    [by |-> by, status |-> status, ready |-> Ready(by, status, c), route |-> route, wrote |-> wrote, touched |-> FALSE]

(* Discovery switched off, as it always is for Codex: nothing is written.   *)
Keep(by) ==
    LET existing == ExistingRoute(world.home.shell) IN
    /\ report' = Told(by, IF existing = None THEN "not_configured" ELSE "already_configured", existing, FALSE, config)
    /\ UNCHANGED << install, config >>

(* What Hermes offers comes before what the file has, and a person is asked *)
(* only when there is neither.                                              *)
Pick(asks) ==
    LET found == DiscoverModels(world.home)
        existing == ExistingRoute(world.home.shell) IN
    IF found # None THEN found
    ELSE IF existing # None THEN existing
    ELSE IF asks THEN Prompted(world.home) ELSE None

Look(by, asks) ==
    LET picked == Pick(asks) IN
    /\ UNCHANGED config
    /\ IF picked = None
       THEN report' = Told(by, "failure", None, FALSE, config) /\ UNCHANGED install
       ELSE install' = [step |-> "picked", by |-> by, route |-> picked] /\ UNCHANGED report

Install(by, skip, asks) ==
    /\ install.step = "idle" /\ Use("installs")
    /\ by = "codex" => skip /\ ~asks
    /\ skip => ~asks
    /\ IF skip THEN Keep(by) ELSE Look(by, asks)
    /\ UNCHANGED << services, registering, turn, dispatches, lost >>

(* write_model_config reads the file ...                                    *)
Load ==
    /\ install.step = "picked"
    /\ LET c == IF world.link THEN None ELSE Loaded(config) IN
       IF c = None
       THEN /\ report' = Told(install.by, "failure", install.route, FALSE, config)
            /\ install' = [step |-> "idle"]
       ELSE install' = [step |-> "loaded", by |-> install.by, route |-> install.route, seen |-> c] /\ UNCHANGED report
    /\ UNCHANGED << config, services, registering, turn, dispatches, lost >> /\ Unused

(* ... and writes it whole, whatever it says by then.                       *)
Save ==
    /\ install.step = "loaded"
    /\ config' = Saved([install.seen EXCEPT !.llm = ConfigOf(install.route)])
    /\ lost' = lost \cup (DOMAIN config.scopes \ DOMAIN install.seen.scopes)
    /\ report' = Told(install.by, IF install.route.origin = "memleaf" THEN "already_configured" ELSE "configured",
                      install.route, TRUE, config')
    /\ install' = [step |-> "idle"]
    /\ UNCHANGED << services, registering, turn, dispatches >> /\ Unused

(* A person writes another block or another registry, well or badly.        *)
PersonEdits(e) ==
    /\ Use("edits")
    /\ config' = e /\ config' # config
    /\ lost' = lost \cup (DOMAIN config.scopes \ DOMAIN e.scopes)
    /\ report' = [report EXCEPT !.touched = TRUE]
    /\ UNCHANGED << install, services, registering, turn, dispatches >>

(***************************************************************************)
(* Registration: a commit names a scope the registry does not have.        *)
(***************************************************************************)

Commit(s) ==
    /\ Use("commits") /\ registering.scopes[s] = "none" /\ s \notin DOMAIN config.scopes
    /\ registering' = [registering EXCEPT !.scopes[s] = "pending"]
    /\ UNCHANGED << config, install, report, services, turn, dispatches, lost >>

(* A name that someone declared an alias of another scope is not added.     *)
Declared(c, s) == s \notin DOMAIN c.scopes /\ \E t \in DOMAIN c.scopes : s \in c.scopes[t].aliases
RegisterNodes(c, s) ==
    IF s \in DOMAIN c.scopes THEN c
    ELSE Saved([c EXCEPT !.scopes = (s :> [parent |-> "", children |-> {}, aliases |-> {}]) @@ c.scopes])

(* The Vault's lock is held from here on; installers and persons never ask  *)
(* for it.  What cannot be registered stays pending until a resumption.     *)
RegisterRead(s) ==
    /\ registering.at = None /\ registering.scopes[s] = "pending"
    /\ ~world.link /\ Loaded(config) # None
    /\ ~Declared(config, s) /\ Cardinality(DOMAIN config.scopes \cup {s}) <= MaxScopes
    /\ registering' = [registering EXCEPT !.at = s, !.seen = config]
    /\ UNCHANGED << config, install, report, services, turn, dispatches, lost >> /\ Unused

(* Mutant: the bytes are not read again.                                   *)
SameUnread == TRUE
SameAsRead == config = registering.seen

(* The bytes are compared before the file is replaced.                      *)
RegisterWrite ==
    /\ registering.at # None
    /\ IF SameAsRead
       THEN /\ config' = RegisterNodes(Loaded(registering.seen), registering.at)
            /\ lost' = lost \ {registering.at}
            /\ registering' = [registering EXCEPT !.scopes[registering.at] = "current", !.at = None, !.seen = None]
       ELSE /\ registering' = [registering EXCEPT !.at = None, !.seen = None]
            /\ UNCHANGED << config, lost >>
    /\ UNCHANGED << install, report, services, turn, dispatches >> /\ Unused

(***************************************************************************)
(* The services: the planner's calls for a turn, and compaction.           *)
(***************************************************************************)

(* The router a service was given or keeps, or one built from the file.     *)
RouterFor(s) ==
    IF services[s].held # None THEN services[s].held
    ELSE IF Loaded(config) = None THEN None ELSE RouterOf(Loaded(config).llm, services[s].env, None)

Dispatched(purpose, reached) ==
    dispatches \o [i \in DOMAIN reached |-> [purpose |-> purpose, by |-> reached[i].by,
                                             url |-> reached[i].url, key |-> reached[i].key]]

(* An answer is kept and committed without a model; a transport failure is  *)
(* asked again only on demand; a refusal ends the run.                      *)
Outcomes == [answer |-> "answered", unreachable |-> "retryable", refused |-> "failed"]
NeedsModel == turn.status \in {"waiting", "retryable"}

(* No route costs nothing: the backend comes before the reservation.        *)
Plan(s, outcome) ==
    LET router == RouterFor(s)
        backend == IF router = None THEN None ELSE Resolve(router) IN
    /\ backend # None
    /\ turn' = [turn EXCEPT !.reserved = @ + 1, !.status = Outcomes[outcome]]
    /\ dispatches' = Dispatched("single_pass", << backend >>)

Process(s, recover, outcome) ==
    /\ EngineReady(config)
    /\ turn.status = "retryable" => recover
    /\ IF NeedsModel THEN Plan(s, outcome) /\ Use("calls")
       ELSE /\ turn.status = "answered" /\ outcome = "answer"
            /\ turn' = [turn EXCEPT !.status = "committed"] /\ UNCHANGED dispatches /\ Unused
    /\ UNCHANGED << config, install, report, services, registering, lost >>

(* An explicit compaction takes any backend, and the service keeps the      *)
(* router it was built with from then on.                                   *)
Shorten(s, hostFails) ==
    LET router == RouterFor(s) IN
    /\ Use("shortenings") /\ router # None
    /\ services' = [services EXCEPT ![s].held = router]
    /\ dispatches' = Dispatched("compact", Reached(router, "compact", hostFails))
    /\ UNCHANGED << config, install, report, registering, turn, lost >>

Restart(s) ==
    /\ Use("restarts") /\ services[s] # world.services[s]
    /\ services' = [services EXCEPT ![s] = world.services[s]]
    /\ UNCHANGED << config, install, report, registering, turn, dispatches, lost >>

Next ==
    \/ \E by \in {"init", "hermes", "codex"}, skip, asks \in BOOLEAN : Install(by, skip, asks)
    \/ Load \/ Save
    \/ \E e \in world.edited : PersonEdits(e)
    \/ \E s \in Scopes : Commit(s) \/ RegisterRead(s)
    \/ RegisterWrite
    \/ \E s \in DOMAIN services, recover \in BOOLEAN, outcome \in DOMAIN Outcomes : Process(s, recover, outcome)
    \/ \E s \in DOMAIN services, fails \in BOOLEAN : Shorten(s, fails)
    \/ \E s \in DOMAIN services : Restart(s)

Spec == Init /\ [][Next]_vars

(***************************************************************************)
(* Properties.                                                             *)
(***************************************************************************)

TypeOK ==
    /\ install.step \in {"idle", "picked", "loaded"}
    /\ registering.at \in Scopes \cup {None}
    /\ turn.status \in {"waiting", "retryable", "answered", "failed", "committed"}
    /\ lost \subseteq Scopes

(* When install --host hermes says that processing is ready and nobody has  *)
(* edited the file since, a process the host starts later resolves to that  *)
(* very route: with an empty environment where the installer wrote it, with *)
(* the installer's where it found it in place (installer.py, "must never    *)
(* advertise ready").                                                       *)
ReadyIsTrue ==
    (report.by = "hermes" /\ report.ready /\ ~report.touched) =>
        LET env == IF report.wrote THEN << >> ELSE world.home.shell
            backend == Resolve(RouterOf(Loaded(config).llm, env, None)) IN
        /\ backend # None
        /\ backend.url = report.route.url /\ backend.model = report.route.model /\ backend.key = report.route.key

(* A masked or empty credential never reaches a request, whether it came    *)
(* from Hermes, from the file or from a variable.                           *)
KeysAreReal == \A i \in DOMAIN dispatches : dispatches[i].by = "api" => dispatches[i].key \notin {None, "", Masked}

(* The planner is charged once for every request a model sees, and never    *)
(* for a call that reached a host first.                                    *)
ChargedAsSent ==
    LET planned == SelectSeq(dispatches, LAMBDA d : d.purpose = "single_pass") IN
    /\ Len(planned) = turn.reserved
    /\ \A i \in DOMAIN planned : planned[i].by = "api"

(* A scope that was registered stays in the registry, unless a person took  *)
(* it out or an installer wrote back a file it had read before.             *)
ScopesStay == \A s \in Scopes : registering.scopes[s] = "current" => s \in DOMAIN config.scopes \cup lost

(* A registration adds one name to what the file says at that moment, and   *)
(* never one that a person has meanwhile declared another scope's alias.    *)
OnlyAdded ==
    (registering.at # None /\ registering'.at = None /\ config' # config) =>
        /\ Loaded(config) # None /\ config' = RegisterNodes(Loaded(config), registering.at)
        /\ ~Declared(config, registering.at)

(* What an installer or a commit writes can be read if the file could.      *)
WrittenIsReadable == (used'.edits = used.edits /\ Loaded(config) # None) => Loaded(config') # None

(* An installer that runs again, with nobody in between, writes the route   *)
(* it wrote before.                                                         *)
InstallIsStable ==
    (install.step = "loaded" /\ install'.step = "idle" /\ report.wrote /\ ~report.touched) => config'.llm = config.llm

RouteHolds ==
    /\ [](TypeOK /\ ReadyIsTrue /\ KeysAreReal /\ ChargedAsSent /\ ScopesStay)
    /\ [][OnlyAdded /\ WrittenIsReadable /\ InstallIsStable]_vars
=============================================================================
