----------------------------- MODULE MCInstalls -----------------------------
(* Installs into Hermes, over the hosts an installer may find.             *)
EXTENDS Integers, Sequences, FiniteSets

CONSTANTS Nothing

VARIABLES disk, backups, natives, installSources, agents, run, installUsed, world

installVars == << disk, backups, natives, installSources, agents, run, installUsed, world >>

Launcher(runtime) == [runtime |-> runtime, launcher |-> "console"]
Window(runtime) == [runtime |-> runtime, launcher |-> "gui"]
Names(command, vaultName) == [command |-> command, vault |-> vaultName, enabled |-> TRUE]
Off(item) == [item EXCEPT !.enabled = FALSE]
Yaml(item) == [readable |-> TRUE, entry |-> item, lazy |-> FALSE, tools |-> "all",
               provider |-> "none", note |-> 0]
Done(item) == [Yaml(item) EXCEPT !.lazy = TRUE, !.tools = "bound", !.provider = "memleaf"]
Plugin(version) == [kind |-> "dir", files |-> [f \in {"_shared.py", "_provider.py"} |-> version]]
Paths(command, vaultName) == [readable |-> TRUE, command |-> command, vault |-> vaultName]
Ids == {"hermes_memory", "hermes_memory_builtin", "hermes_user", "hermes_user_builtin", "mine"}

Limits(faults, crashes, edits, installs) ==
    [faults |-> faults, crashes |-> crashes, edits |-> edits, installs |-> installs]
Found(yaml, max) ==
    [config |-> yaml, json |-> Nothing, plugin |-> Nothing,
     natives |-> [f \in {"MEMORY.md", "USER.md"} |-> "absent"], sources |-> [i \in Ids |-> Nothing],
     windows |-> FALSE, sameVersion |-> TRUE, sameBuild |-> TRUE, default |-> "v", policies |-> {"auto"},
     asked |-> {Nothing}, inits |-> {}, theirs |-> {}, max |-> max]

Machines ==
    [clean |-> Found(Nothing, Limits(2, 0, 0, 2)),
     edited |-> [Found(Yaml(Nothing), Limits(1, 0, 1, 1)) EXCEPT
        !.theirs = {Off(Names(Launcher("odd"), "w")), Names(Launcher("there"), "v")}],
     died |-> [Found(Yaml(Names(Launcher("path"), "v")), Limits(1, 1, 0, 2)) EXCEPT !.policies = {"auto", "current"}],
     update |-> [Found([Done(Names(Launcher("here"), "v")) EXCEPT !.tools = "some_bound"], Limits(2, 0, 0, 2)) EXCEPT
        !.plugin = Plugin("old"), !.json = Paths(Launcher("here"), "v"), !.natives["USER.md"] = "text",
        !.sources["mine"] = [path |-> "MEMORY.md", private |-> TRUE]],
     init |-> [Found(Yaml(Nothing), Limits(1, 0, 0, 3)) EXCEPT !.inits = {"v", "w"},
        !.plugin = [Plugin("old") EXCEPT !.kind = "link"]],
     runtimes |-> [Found([Yaml(Names(Launcher("there"), "v")) EXCEPT !.tools = "some"], Limits(1, 0, 0, 2)) EXCEPT
        !.policies = {"auto", "current", "existing"}, !.json = Paths(Launcher("there"), "v"), !.plugin = Plugin("new")],
     versions |-> [Found(Yaml(Names(Launcher("there"), "v")), Limits(1, 0, 0, 2)) EXCEPT
        !.policies = {"existing"}, !.sameVersion = FALSE],
     builds |-> [Found(Yaml(Names(Launcher("there"), "v")), Limits(1, 0, 0, 2)) EXCEPT
        !.policies = {"existing"}, !.sameBuild = FALSE],
     theirs |-> [Found(Yaml(Off(Names(Launcher("here"), "v"))), Limits(1, 0, 0, 2)) EXCEPT
        !.policies = {"auto", "current", "existing"}],
     vaults |-> [Found(Yaml(Names(Launcher("here"), "w")), Limits(1, 0, 0, 2)) EXCEPT
        !.json = Paths(Launcher("here"), "w"), !.asked = {Nothing, "v"}, !.plugin = Plugin("old")],
     custom |-> [Found(Nothing, Limits(1, 0, 0, 1)) EXCEPT !.json = Paths(Launcher("here"), "w")],
     odd |-> [Found(Yaml(Names(Launcher("odd"), "v")), Limits(1, 0, 0, 2)) EXCEPT !.policies = {"current"}],
     unreadable |-> [Found([Yaml(Nothing) EXCEPT !.readable = FALSE], Limits(0, 0, 0, 1)) EXCEPT !.policies = {"current"}],
     broken |-> [Found(Yaml(Nothing), Limits(1, 0, 0, 2)) EXCEPT !.json = [Paths(Nothing, Nothing) EXCEPT !.readable = FALSE],
        !.asked = {Nothing, "v"}],
     windows |-> [Found(Yaml(Names(Launcher("here"), "v")), Limits(1, 0, 0, 2)) EXCEPT !.windows = TRUE,
        !.policies = {"auto", "existing"}],
     launchers |-> [Found(Yaml(Names(Window("there"), "v")), Limits(1, 0, 0, 2)) EXCEPT !.windows = TRUE,
        !.policies = {"current", "existing"}],
     foreign |-> [Found(Yaml(Nothing), Limits(1, 0, 0, 1)) EXCEPT !.plugin = [Plugin("theirs") EXCEPT !.kind = "foreign"]],
     unsafe |-> [Found(Yaml(Nothing), Limits(1, 0, 0, 1)) EXCEPT !.natives["USER.md"] = "unsafe"],
     public |-> [Found(Yaml(Nothing), Limits(1, 0, 1, 1)) EXCEPT
        !.sources["mine"] = [path |-> "USER.md", private |-> FALSE]],
     taken |-> [Found(Yaml(Nothing), Limits(0, 0, 0, 1)) EXCEPT
        !.sources["hermes_memory"] = [path |-> "notes.md", private |-> FALSE]],
     full |-> [Found(Yaml(Nothing), Limits(0, 0, 0, 1)) EXCEPT
        !.sources["hermes_memory"] = [path |-> "notes.md", private |-> FALSE],
        !.sources["hermes_memory_builtin"] = [path |-> "more.md", private |-> TRUE]]]

Install == INSTANCE HermesInstall WITH None <- Nothing, Worlds <- Machines, used <- installUsed,
    sources <- installSources

InstallInit(on) == Install!Init /\ (~on => world = "clean")
HermesHolds == Install!InstallHolds

----------------------------------------------------------------------------
(* Installs into Codex, over what an installer may find there.             *)

CONSTANT NoHook

VARIABLES codexFiles, hookCopies, codexStates, setup, reviewed, flight, worked, setupUsed, place

setupVars == << codexFiles, hookCopies, codexStates, setup, reviewed, flight, worked, setupUsed, place >>

Hook(event, python, vaultName) == [for |-> event, interpreter |-> python, of |-> vaultName, windows |-> "ours"]
OtherHook == [for |-> NoHook, interpreter |-> "lint", of |-> NoHook, windows |-> "none"]
Under(matcher, hooks) == [matcher |-> matcher, hooks |-> hooks]
HookFile(tool, stop) == [valid |-> TRUE, events |-> [PreToolUse |-> tool, Stop |-> stop]]
NoFile == HookFile(<< >>, << >>)
OldHook == Under("search|read", << Hook("PreToolUse", "here", "v") >>)
NoWindows == [Hook("PreToolUse", "here", "v") EXCEPT !.windows = "none"]
StopHook == Under("none", << Hook("Stop", "here", "v") >>)
Mcp(python, vaultName) == [interpreter |-> python, of |-> vaultName]
Active(python) == [v |-> [status |-> "configured", activation |-> "active", hash |-> [interpreter |-> python, of |-> "v"]],
                   w |-> NoHook]

Rounds(faults, crashes, edits, installs, hooks) ==
    [faults |-> faults, crashes |-> crashes, edits |-> edits, installs |-> installs, hooks |-> hooks]
Host(max) ==
    [entry |-> NoHook, inline |-> FALSE, hooks |-> NoFile, states |-> [v |-> NoHook, w |-> NoHook],
     reviewed |-> {}, ran |-> {}, hermes |-> NoHook, default |-> "v", detected |-> TRUE,
     interpreters |-> {"here"}, asked |-> {NoHook}, inits |-> {}, edits |-> {}, clear |-> TRUE, max |-> max]

Places ==
    [fresh |-> Host(Rounds(1, 1, 0, 3, 1)),
     edited |-> [Host(Rounds(1, 0, 1, 2, 0)) EXCEPT !.edits = {"hooks", "config"},
        !.hooks = HookFile(<< Under("theirs", << OtherHook >>) >>, << >>)],
     upgrade |-> [Host(Rounds(1, 1, 0, 2, 2)) EXCEPT !.entry = Mcp("here", "v"), !.states = Active("here"),
        !.hooks = HookFile(<< Under("theirs", << OtherHook >>), OldHook >>,
            << [StopHook EXCEPT !.hooks[1].windows = "none"], Under("none", << OtherHook >>) >>),
        !.reviewed = {Hook("PreToolUse", "here", "v")}, !.ran = {Hook("PreToolUse", "here", "v")}],
     removed |-> [Host(Rounds(0, 0, 0, 3, 1)) EXCEPT !.states = Active("there"), !.inits = {"v"},
        !.ran = {Hook("Stop", "there", "v")}],
     shared |-> [Host(Rounds(0, 0, 1, 2, 0)) EXCEPT !.edits = {"hooks"}, !.clear = FALSE,
        !.hooks = HookFile(<< [OldHook EXCEPT !.hooks = Append(@, OtherHook)] >>, << StopHook >>)],
     windows |-> [Host(Rounds(0, 0, 1, 2, 0)) EXCEPT !.edits = {"hooks"}, !.clear = FALSE,
        !.hooks = HookFile(<< >>, << [StopHook EXCEPT !.hooks[1].windows = "other"] >>)],
     runtimes |-> [Host(Rounds(0, 0, 1, 3, 1)) EXCEPT !.interpreters = {"here", "there"}, !.clear = FALSE,
        !.edits = {"config"}],
     vaults |-> [Host(Rounds(0, 1, 0, 3, 1)) EXCEPT !.hermes = "w", !.asked = {NoHook, "v"}, !.inits = {"w"}, !.clear = FALSE],
     hermes |-> [Host(Rounds(1, 1, 0, 3, 0)) EXCEPT !.hermes = "w"],
     odd |-> [Host(Rounds(0, 0, 1, 2, 0)) EXCEPT !.entry = Mcp("odd", "v"), !.asked = {NoHook, "v"}, !.edits = {"config"},
        !.clear = FALSE],
     broken |-> [Host(Rounds(0, 0, 1, 2, 0)) EXCEPT !.hooks = [NoFile EXCEPT !.valid = FALSE], !.edits = {"hooks"},
        !.clear = FALSE],
     script |-> [Host(Rounds(0, 0, 0, 1, 0)) EXCEPT !.entry = Mcp("script", "v"), !.clear = FALSE],
     several |-> [Host(Rounds(0, 0, 0, 2, 1)) EXCEPT !.reviewed = {Hook("Stop", "there", "w")},
        !.hooks = HookFile(<< Under("search|read", << NoWindows, NoWindows >>) >>, << StopHook, Under("none", << Hook("Stop", "there", "w") >>) >>)],
     twofold |-> [Host(Rounds(0, 0, 0, 2, 0)) EXCEPT !.clear = FALSE,
        !.hooks = HookFile(<< >>, << Under("none", << Hook("Stop", "there", "w") >>), StopHook >>)],
     absent |-> [Host(Rounds(0, 0, 0, 1, 0)) EXCEPT !.detected = FALSE]]

Setups == INSTANCE CodexInstall WITH None <- NoHook, Worlds <- Places,
    codex <- codexFiles, copies <- hookCopies, states <- codexStates, ran <- worked, spent <- setupUsed

SetupInit(on) == Setups!Init /\ (~on => place = "fresh")
CodexHolds == Setups!CodexHolds
=============================================================================
