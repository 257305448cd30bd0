------------------------------- MODULE MCRoutes -------------------------------
(* Routes to a model: what Hermes offers, what the file says, and who edits *)
(* it meanwhile.                                                            *)
EXTENDS Naturals, Sequences, TLC

CONSTANT NoRoute

VARIABLES routeFile, installer, verdict, extractors, newScopes, extracted, sentOut, takenOut, routeWorld, routeUsed

routeVars == << routeFile, installer, verdict, extractors, newScopes, extracted, sentOut, takenOut, routeWorld, routeUsed >>

Webs == ("oa" :> [scheme |-> "https", host |-> "api.openai.com", plain |-> TRUE])
     @@ ("ds" :> [scheme |-> "https", host |-> "api.deepseek.com", plain |-> TRUE])
     @@ ("an" :> [scheme |-> "https", host |-> "api.anthropic.com", plain |-> TRUE])
     @@ ("gw" :> [scheme |-> "http", host |-> "gateway.local", plain |-> TRUE])
     @@ ("in" :> [scheme |-> "https", host |-> "api.openai.com", plain |-> FALSE])
     @@ ("" :> [scheme |-> "", host |-> "", plain |-> TRUE])
Wordings == ("gpt-mini" :> {"gpt", "mini"}) @@ ("gpt-pro" :> {"gpt", "pro"}) @@ ("deepseek-chat" :> {"deepseek", "chat"})
         @@ ("claude-haiku" :> {"claude", "haiku"}) @@ ("text-embedding" :> {"text", "embedding"}) @@ ("" :> {})

Listed(provider, url, model) ==
    [provider |-> provider, family |-> "", protocol |-> "", url |-> url, model |-> model, key |-> "", ref |-> "", var |-> ""]
OpenAI == [Listed("openai", "oa", "gpt-mini") EXCEPT !.key = "k1"]
OpenAIPro == [Listed("openai", "oa", "gpt-pro") EXCEPT !.key = "k1"]
DeepSeek == Listed("deepseek", "ds", "deepseek-chat")
Claude == [Listed("claude", "an", "claude-haiku") EXCEPT !.key = "***", !.var = "MINE"]
Gateway == [Listed("gateway", "gw", "gpt-mini") EXCEPT !.ref = "MINE", !.protocol = "chat_completions"]
Embedding == [OpenAI EXCEPT !.model = "text-embedding"]
Leaky == [OpenAI EXCEPT !.url = "in"]
Strange == [OpenAI EXCEPT !.protocol = "soap"]

HermesHome == [found |-> TRUE, readable |-> TRUE, current |-> << >>, custom |-> << >>, shell |-> << >>,
         file |-> "own", lines |-> << >>, typed |-> NoRoute]

Unset == [mode |-> "auto", provider |-> "", family |-> "", protocol |-> "openai", url |-> "", key |-> "", var |-> "", model |-> ""]
Direct == [Unset EXCEPT !.provider = "deepseek", !.url = "ds", !.key = "k2", !.model = "deepseek-chat", !.protocol = ""]
ByVariable == [Direct EXCEPT !.key = "", !.var = "MINE"]
Hidden == [Direct EXCEPT !.key = "***"]
ByHost == [Direct EXCEPT !.mode = "host"]
Foreign == [Direct EXCEPT !.provider = "mine", !.url = "gw"]

Bare == [parent |-> "", children |-> {}, aliases |-> {}]
ConfigFile(llm) == [llm |-> llm, scopes |-> ("d" :> Bare), engine |-> "incremental", good |-> TRUE]
Ruined(llm) == [ConfigFile(llm) EXCEPT !.good = FALSE]
Crossed(llm) == [ConfigFile(llm) EXCEPT !.scopes = ("d" :> [Bare EXCEPT !.parent = "p"]) @@ ("p" :> Bare)]
Aliased(llm) == [ConfigFile(llm) EXCEPT !.scopes = ("d" :> [Bare EXCEPT !.aliases = {"p"}])]
Nested(llm) == [ConfigFile(llm) EXCEPT !.scopes = ("d" :> [Bare EXCEPT !.children = {"p"}])]

BareEnv == [env |-> << >>, held |-> NoRoute]
Rich == [env |-> [MINE |-> "k3"], held |-> NoRoute]
Hosted == [by |-> "host", family |-> "generic", protocol |-> "openai", url |-> "", model |-> "", key |-> ""]
OfBoth == [mode |-> "auto", host |-> Hosted,
           api |-> [by |-> "api", family |-> "openai", protocol |-> "openai", url |-> "oa", model |-> "gpt-mini", key |-> "k1"]]

RouteFrom(home, first) ==
    [home |-> home, first |-> ConfigFile(first), link |-> FALSE, services |-> [w |-> BareEnv], edited |-> {},
     installs |-> 2, edits |-> 0, commits |-> 0, calls |-> 2, shortenings |-> 0, restarts |-> 0]
RouteWorlds == {
    RouteFrom([HermesHome EXCEPT !.current = << OpenAIPro, OpenAI, Embedding >>, !.custom = << << Leaky >>, << Strange, OpenAI >> >>], Unset),
    [RouteFrom([HermesHome EXCEPT !.current = << Claude, DeepSeek, Claude >>, !.shell = [MINE |-> "k3"],
                        !.lines = << << "DEEPSEEK_API_KEY", "" >>, << "DEEPSEEK_API_KEY", "k2" >> >>], Direct)
        EXCEPT !.edits = 1, !.edited = {ConfigFile(Hidden), ConfigFile(ByVariable)}],
    [RouteFrom([HermesHome EXCEPT !.current = << Claude >>, !.file = "linked", !.lines = << << "MINE", "k3" >> >>], ByVariable)
        EXCEPT !.services = [w |-> BareEnv, x |-> Rich], !.edits = 1, !.edited = {ConfigFile(Direct), Ruined(Direct)}],
    [RouteFrom([HermesHome EXCEPT !.readable = FALSE, !.shell = [MINE |-> "***"], !.typed = [Gateway EXCEPT !.key = "k4", !.ref = ""]], Hidden)
        EXCEPT !.edits = 1, !.edited = {ConfigFile(ByVariable), ConfigFile(ByHost)}],
    [RouteFrom([HermesHome EXCEPT !.found = FALSE, !.shell = [MINE |-> "k3"]], ByVariable)
        EXCEPT !.edits = 2, !.edited = {ConfigFile(ByHost), ConfigFile(Foreign), ConfigFile(Direct)}, !.installs = 1],
    [RouteFrom([HermesHome EXCEPT !.custom = << << Gateway >> >>, !.shell = [MINE |-> "k3"]], Direct)
        EXCEPT !.commits = 2, !.edits = 1, !.edited = {ConfigFile(Direct), Crossed(Direct), Aliased(Direct), Nested(Direct)}, !.installs = 1, !.calls = 0],
    [RouteFrom([HermesHome EXCEPT !.current = << OpenAI >>], Direct) EXCEPT !.commits = 3, !.edits = 1, !.edited = {Nested(Foreign)}, !.calls = 0],
    [RouteFrom(HermesHome, Direct) EXCEPT !.link = TRUE, !.commits = 1, !.installs = 1],
    [RouteFrom([HermesHome EXCEPT !.current = << OpenAI >>], Direct)
        EXCEPT !.services = [w |-> [BareEnv EXCEPT !.held = OfBoth], x |-> Rich], !.shortenings = 2, !.restarts = 1, !.installs = 1]}

Routes == INSTANCE ModelRoute WITH Level <- [d |-> 1, p |-> 3, q |-> 3], MaxScopes <- 2,
    None <- NoRoute, Tokens <- Wordings, Addresses <- Webs, Worlds <- RouteWorlds,
    config <- routeFile, install <- installer, report <- verdict, services <- extractors,
    registering <- newScopes, turn <- extracted, dispatches <- sentOut, lost <- takenOut,
    world <- routeWorld, used <- routeUsed

RouteInit(active) == Routes!Init /\ (~active => routeWorld = CHOOSE w \in RouteWorlds : TRUE)
RouteHolds == Routes!RouteHolds

----------------------------------------------------------------------------
(* Calls of a model: two threads with one backend, and every kind of reply; *)
(* one thread and every kind of model.                                      *)

CONSTANT Unsaid

VARIABLES leftUsage, routedUsage, inFlight, payers, onLine, callScene, callSpent

callVars == << leftUsage, routedUsage, inFlight, payers, onLine, callScene, callSpent >>

Trait == [reasons |-> FALSE, none |-> FALSE, max |-> FALSE, profile |-> "unsupported", version |-> 0, floor |-> "low", pro |-> FALSE]
Gpt(none, max) == [Trait EXCEPT !.reasons = TRUE, !.none = none, !.max = max]
ClaudeOf(profile) == [Trait EXCEPT !.profile = profile]
GeminiOf(version, pro, floor) == [Trait EXCEPT !.version = version, !.pro = pro, !.floor = floor]
Kinds == ("gpt-4" :> Trait) @@ ("gpt-5" :> Gpt(FALSE, FALSE)) @@ ("gpt-5.1" :> Gpt(TRUE, FALSE)) @@ ("gpt-5.6" :> Gpt(TRUE, TRUE))
      @@ ("claude-3" :> Trait) @@ ("claude-opus-4-5" :> ClaudeOf("effort_only")) @@ ("claude-sonnet-4-6" :> ClaudeOf("explicit_adaptive"))
      @@ ("claude-opus-5" :> ClaudeOf("default_adaptive")) @@ ("claude-fable-5" :> ClaudeOf("always_adaptive"))
      @@ ("gemini-1.5" :> Trait) @@ ("gemini-2.5-pro" :> GeminiOf(2, TRUE, "low")) @@ ("gemini-2.5-flash" :> GeminiOf(2, FALSE, "low"))
      @@ ("gemini-3" :> GeminiOf(3, FALSE, "low")) @@ ("gemini-3.1-image" :> GeminiOf(3, FALSE, "minimal"))

WellSaid == [kind |-> "answer", status |-> 200, shaped |-> TRUE, text |-> TRUE, big |-> FALSE, finish |-> "stop",
         reasoning |-> {}, counted |-> TRUE]
Fails(kind, status) == [WellSaid EXCEPT !.kind = kind, !.status = status]
Odd == {[WellSaid EXCEPT !.counted = FALSE], [WellSaid EXCEPT !.finish = "length"],
        [WellSaid EXCEPT !.text = FALSE, !.reasoning = {"content", "zero"}]}
Odder == {WellSaid, [WellSaid EXCEPT !.big = TRUE], [WellSaid EXCEPT !.reasoning = {"zero"}],
          [WellSaid EXCEPT !.shaped = FALSE, !.reasoning = {"tokens"}]}
Errors == {Fails("http", 401), Fails("http", 429), Fails("http", 503), Fails("http", 400), Fails("timeout", 0),
           Fails("network", 0), Fails("garbage", 200)}

From(adapter, family, model) ==
    [adapter |-> adapter, family |-> family, model |-> model, thinking |-> << >>, replies |-> {WellSaid},
     active |-> {"w"}, most |-> 2, shortenings |-> 1, cancels |-> 0]
Low == [single_pass |-> "disabled", gate |-> "max", compact |-> "low"]
Owners == {"w", "x"}

(* Every model under every mode, one compaction and, where a run may use it, *)
(* one run; then every reply for a few, and two threads at once.            *)
AdapterOf(model) == IF Kinds[model].version > 0 \/ model = "gemini-1.5" THEN "gemini"
                    ELSE IF model \in {"gpt-4", "gpt-5", "gpt-5.1", "gpt-5.6"} THEN "openai" ELSE "claude"
FamilyFor(adapter) == IF adapter = "openai" THEN {"openai", "deepseek", "generic"} ELSE {"generic"}
Quiet == {[From(AdapterOf(m), f, m) EXCEPT !.thinking = [compact |-> mode, gate |-> "disabled"], !.most = 1,
              !.replies = {WellSaid, [WellSaid EXCEPT !.reasoning = {"content"}]}] :
            m \in DOMAIN Kinds, f \in {"openai", "deepseek", "generic"}, mode \in {"default", "disabled", "low", "high", "max"}}
Alone == {s \in Quiet : s.family \in FamilyFor(s.adapter)}
CallScenes ==
    Alone \cup
    {[From("openai", "deepseek", "gpt-4") EXCEPT !.thinking = Low, !.replies = Odd, !.most = 3],
     [From("openai", "openai", "gpt-5") EXCEPT !.thinking = Low, !.replies = Odder, !.most = 3],
     [From("openai", "openai", "gpt-5.1") EXCEPT !.thinking = Low, !.replies = Errors \cup {WellSaid}],
     [From("openai", "openai", "gpt-5.6") EXCEPT !.replies = {WellSaid, Fails("timeout", 0)}, !.active = Owners, !.most = 3, !.cancels = 1]}

Calls == INSTANCE ModelCalls WITH Threads <- Owners, Traits <- Kinds, MaxRequests <- 2, None <- Unsaid, Scenes <- CallScenes,
    usage <- leftUsage, routed <- routedUsage, calls <- inFlight, runs <- payers, wire <- onLine, scene <- callScene, spent <- callSpent

CallInit(active) == Calls!Init /\ (~active => callScene = CHOOSE s \in CallScenes : TRUE)
CallsHold == Calls!CallsHold
=============================================================================
