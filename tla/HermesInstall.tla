---------------------------- MODULE HermesInstall ----------------------------
(***************************************************************************)
(* memleaf installs itself into Hermes (installer.py with hermes_runtime,  *)
(* adapters/hermes.py and native_registration.py).  It looks at the MCP    *)
(* entry in Hermes' config.yaml, chooses a runtime, and then changes the   *)
(* entry, the provider files, memleaf.json, the native memory files and    *)
(* the Vault's list of sources, one after the other.  A step that fails    *)
(* puts the host back.  The installer may also die, and a person or Hermes *)
(* may write the same files meanwhile.                                     *)
(***************************************************************************)
EXTENDS Naturals, Sequences, FiniteSets

CONSTANTS
    None,
    Worlds        \* what an installer may find, and the bounds of a behaviour

VARIABLES
    disk,         \* of Hermes: config (config.yaml), json (memleaf.json), plugin (plugins/memleaf)
    backups,      \* the copies of config.yaml make_backup left
    natives,      \* MEMORY.md and USER.md: "absent", "empty", "text" or "unsafe"
    sources,      \* native_sources of the Vault: id -> [path, private], or None
    agents,       \* mcp_status of Hermes in agents.json
    run,          \* the installer at work, or how the last one ended
    used,         \* faults, crashes, edits and installs so far
    world

vars == << disk, backups, natives, sources, agents, run, used, world >>

W == Worlds[world]
Files == {"_shared.py", "_provider.py"}
Memories == {"MEMORY.md", "USER.md"}

(* A launcher: of the runtime that runs the installer ("here"), of another *)
(* one ("there"), found through PATH ("path"), or not memleaf's ("odd").   *)
Command(runtime, launcher) == [runtime |-> runtime, launcher |-> launcher]
Here == Command("here", "console")
FromPath == Command("path", "console")
EntryMatches(entry, vault) == entry.command = FromPath /\ entry.vault = vault

HostPathsEquivalent(left, right) == left = right
IsAbsoluteMemleaf(command) == command.runtime \in {"here", "there"}
IsBareMemleaf(command) == command.runtime = "path"
SameRuntime(left, right) ==
    \/ HostPathsEquivalent(left, right)
    \/ /\ W.windows /\ IsAbsoluteMemleaf(left) /\ IsAbsoluteMemleaf(right)
       /\ left.runtime = right.runtime
VaultFromArgs(entry) == entry.vault
Enabled(entry) == entry.enabled

(* The compact YAML reader sees no entry in one that lacks its command or  *)
(* its arguments, as an install that died in between leaves it.            *)
ParseEntry(config) ==
    IF config.entry = None THEN None
    ELSE IF config.entry.command = None \/ config.entry.vault = None THEN None ELSE config.entry

(* inspect_hermes_mcp: what config.yaml says of memleaf.                   *)
Inspect(config, vault, expected, sibling) ==
    IF config = None THEN "absent"
    ELSE IF ~config.readable THEN "unknown"
    ELSE LET entry == ParseEntry(config)
         IN  IF entry = None THEN "absent"
             ELSE IF ~Enabled(entry) \/ VaultFromArgs(entry) # vault THEN "conflict"
             ELSE IF \/ HostPathsEquivalent(entry.command, expected)
                     \/ sibling /\ SameRuntime(entry.command, expected) THEN "correct"
             ELSE IF IsBareMemleaf(entry.command) THEN "legacy"
             ELSE IF IsAbsoluteMemleaf(entry.command) THEN "runtime_conflict"
             ELSE "conflict"

ProviderCommand(command) == Command(command.runtime, "console")
PublicCommand(command) == Command(command.runtime, IF W.windows THEN "gui" ELSE "console")

(* --version of a configured runtime, and the provider build it reports.   *)
ProbeVersion(command) == command.runtime = "there" => W.sameVersion
ProbeBuild(command) == command.runtime = "there" => W.sameBuild

(* _choose_hermes_mcp_command: the launcher to use, or None.               *)
Choose(status, policy) ==
    IF status \in {"unknown", "conflict"} THEN None
    ELSE IF policy = "current" \/ (policy = "auto" /\ status # "runtime_conflict") THEN Here
    ELSE IF policy = "existing" /\ status \in {"correct", "runtime_conflict"}
         THEN IF ProbeVersion(disk.config.entry.command) THEN disk.config.entry.command ELSE None
    ELSE None

Idle == [at |-> "idle", result |-> "none", rollback |-> "not_needed", policy |-> "auto",
         vault |-> None, command |-> None, status |-> "absent", before |-> None, snap |-> None,
         created |-> {}, seen |-> {}, stage |-> "none", edited |-> FALSE]

Init ==
    /\ world \in DOMAIN Worlds
    /\ disk = [config |-> W.config, json |-> W.json, plugin |-> W.plugin]
    /\ natives = W.natives /\ sources = W.sources /\ backups = {} /\ agents = "none"
    /\ run = Idle /\ used = [faults |-> 0, crashes |-> 0, edits |-> 0, installs |-> 0]

At(label) == run.at = label
Goto(label) == run' = [run EXCEPT !.at = label]
Use(what) == used[what] < W.max[what] /\ used' = [used EXCEPT ![what] = @ + 1]
Fault == Use("faults")
Write(path, content) == disk' = [disk EXCEPT ![path] = content]

(* The Vault an install is for: the one asked for, the one memleaf.json    *)
(* already names, or the default.                                          *)
ExistingVault == IF disk.json = None THEN None ELSE disk.json.vault
DefaultVault(asked) == IF asked # None THEN asked ELSE W.default  \* mutant of SelectVault
SelectVault(asked) ==
    IF asked # None THEN asked ELSE IF ExistingVault # None THEN ExistingVault ELSE W.default

(* install_hermes up to its first write: an entry that is not its own to   *)
(* change, a second runtime under "auto", a provider of another build or   *)
(* an unreadable memleaf.json ends it.                                     *)
Preflight(policy, asked) ==
    LET vault == SelectVault(asked)
        status == Inspect(disk.config, vault, Here, TRUE)
        command == Choose(status, policy)
        fresh == [Idle EXCEPT !.policy = policy, !.vault = vault, !.command = command,
                    !.before = [disk |-> disk, natives |-> natives], !.status = status]
        readable == asked # None \/ disk.json = None \/ disk.json.readable
    IN  /\ At("idle") /\ Use("installs")
        /\ run' = IF ~readable \/ command = None THEN [fresh EXCEPT !.result = "refused"]
                  ELSE IF ~ProbeBuild(command) THEN [fresh EXCEPT !.result = "refused"]
                  ELSE [fresh EXCEPT !.at = "snapshot"]
        /\ UNCHANGED << disk, backups, natives, sources, agents, world >>

(* The three paths are copied aside; if that fails nothing is changed.     *)
SnapshotPath ==
    /\ At("snapshot")
    /\ \/ run' = [run EXCEPT !.at = "inspect", !.snap = disk] /\ UNCHANGED used
       \/ Fault /\ run' = [run EXCEPT !.at = "idle", !.result = "refused"]
    /\ UNCHANGED << disk, backups, natives, sources, agents, world >>

(* A step that fails starts the undoing.                                   *)
Fail(stage) == run' = [run EXCEPT !.at = "undo", !.stage = stage, !.rollback = "completed"]

(* The entry is looked at a second time, and strictly.                     *)
InspectAgain ==
    LET command == PublicCommand(run.command)
        status == Inspect(disk.config, run.vault, command, FALSE)
        allowed == \/ status \in {"absent", "legacy"}
                   \/ /\ status = "runtime_conflict"
                      /\ \/ run.policy = "current" /\ run.status = "runtime_conflict"
                         \/ SameRuntime(disk.config.entry.command, command)
    IN  /\ At("inspect")
        /\ IF status = "correct" THEN Goto("lazy")
           ELSE IF allowed THEN Goto("backup") ELSE Fail("mcp_persist")
        /\ UNCHANGED << disk, backups, natives, sources, agents, used, world >>

MakeBackup ==
    /\ At("backup")
    /\ \/ /\ backups' = backups \cup ({disk.config} \ {None})
          /\ Goto("disable") /\ UNCHANGED used
       \/ Fault /\ Fail("mcp_persist") /\ UNCHANGED backups
    /\ UNCHANGED << disk, natives, sources, agents, world >>

(* "hermes config set": Hermes rewrites its own file.                      *)
Blank == [readable |-> TRUE, entry |-> None, lazy |-> FALSE, tools |-> "all",
          provider |-> "none", note |-> 0]
Config == IF disk.config = None THEN Blank ELSE disk.config
Entry == IF Config.entry = None THEN [command |-> None, vault |-> None, enabled |-> TRUE]
         ELSE Config.entry
ConfigSet(label, content, next, stage) ==
    /\ At(label)
    /\ \/ Write("config", content) /\ Goto(next) /\ UNCHANGED used
       \/ Fault /\ (Write("config", content) \/ UNCHANGED disk) /\ Fail(stage)
    /\ UNCHANGED << backups, natives, sources, agents, world >>
EntrySet(label, entry, next) ==
    ConfigSet(label, [Config EXCEPT !.entry = entry], next, "mcp_persist")

(* _configure_hermes_mcp_entry disables the entry first and enables it     *)
(* last, then reads the file to confirm it.                                *)
Disable == EntrySet("disable", [Entry EXCEPT !.enabled = FALSE], "command")
SetCommand == EntrySet("command", [Entry EXCEPT !.command = PublicCommand(run.command)], "args")
SetArgs == EntrySet("args", [Entry EXCEPT !.vault = run.vault], "enable")
Enable == EntrySet("enable", [Entry EXCEPT !.enabled = TRUE], "confirm")
Confirm ==
    /\ At("confirm")
    /\ IF Inspect(disk.config, run.vault, PublicCommand(run.command), FALSE) = "correct"
       THEN Goto("lazy") ELSE Fail("mcp_persist")
    /\ UNCHANGED << disk, backups, natives, sources, agents, used, world >>

ConfigureLifecycle == ConfigSet("lazy", [Config EXCEPT !.lazy = TRUE], "tools", "mcp_lifecycle")

(* The retention tools bound to the host leave the list Hermes offers; the *)
(* tools a person chose are kept beside it for the next install.           *)
ConfigureTools ==
    ConfigSet("tools", [Config EXCEPT !.tools = IF @ \in {"some", "some_bound"} THEN "some_bound" ELSE "bound"],
              "test", "retention_tools")

TestMcp ==
    LET answers == Entry.enabled /\ Entry.command # None /\ Entry.vault # None
    IN  /\ At("test")
        /\ \/ answers /\ Goto("copy") /\ UNCHANGED used
           \/ ~answers /\ Fail("mcp_test") /\ UNCHANGED used
           \/ Fault /\ Fail("mcp_test")
        /\ UNCHANGED << disk, backups, natives, sources, agents, world >>

(* _copy_provider: a new directory appears at once, the files of an old    *)
(* one are replaced one by one, a plugin that is not memleaf's is kept.    *)
Packaged == [f \in Files |-> "new"]
CopyProvider ==
    LET plugin == disk.plugin
        old == IF plugin = None THEN {} ELSE {f \in Files : plugin.files[f] # "new"}
    IN  /\ At("copy")
        /\ \/ plugin = None /\ Write("plugin", [kind |-> "dir", files |-> Packaged]) /\ UNCHANGED run
           \/ plugin # None /\ plugin.kind = "link" /\ Write("plugin", None) /\ UNCHANGED run
           \/ /\ plugin # None /\ plugin.kind = "dir"
              /\ \E f \in old : Write("plugin", [plugin EXCEPT !.files[f] = "new"])
              /\ UNCHANGED run
           \/ plugin # None /\ plugin.kind = "dir" /\ old = {} /\ Goto("json") /\ UNCHANGED disk
           \/ plugin # None /\ plugin.kind = "foreign" /\ Fail("provider_copy") /\ UNCHANGED disk
        /\ UNCHANGED << backups, natives, sources, agents, used, world >>
CopyFails ==
    /\ At("copy") /\ Fault /\ Fail("provider_copy")
    /\ UNCHANGED << disk, backups, natives, sources, agents, world >>

WriteProviderConfig ==
    LET readable == IF disk.json = None THEN TRUE ELSE disk.json.readable
    IN  /\ At("json")
        /\ \/ /\ readable /\ Goto("activate") /\ UNCHANGED used
              /\ Write("json", [readable |-> TRUE, command |-> ProviderCommand(run.command),
                                vault |-> run.vault])
           \/ ~readable /\ Fail("provider_config") /\ UNCHANGED << disk, used >>
           \/ Fault /\ Fail("provider_config") /\ UNCHANGED disk
        /\ UNCHANGED << backups, natives, sources, agents, world >>

Activate == ConfigSet("activate", [Config EXCEPT !.provider = "memleaf"], "native", "provider_activation")

(* _ensure_hermes_native_files creates what is missing, one file after     *)
(* the other; at an unsafe one it takes its own files back.                *)
Removed(names) == [f \in Memories |-> IF f \in names THEN "absent" ELSE natives[f]]
EnsureNativeFiles ==
    LET f == IF "MEMORY.md" \in run.seen THEN "USER.md" ELSE "MEMORY.md"
        last == f = "USER.md"
        Seen(made) == run' = [run EXCEPT !.seen = @ \cup {f}, !.created = @ \cup made,
                                !.at = IF last THEN "register" ELSE "native"]
    IN  /\ At("native")
        /\ \/ natives[f] = "absent" /\ natives' = [natives EXCEPT ![f] = "empty"] /\ Seen({f}) /\ UNCHANGED used
           \/ natives[f] \in {"empty", "text"} /\ Seen({}) /\ UNCHANGED << natives, used >>
           \/ /\ (natives[f] = "unsafe" /\ UNCHANGED used) \/ Fault
              /\ natives' = Removed(run.created)
              /\ run' = [run EXCEPT !.at = "undo", !.stage = "native_files", !.created = {}, !.rollback = "completed"]
        /\ UNCHANGED << disk, backups, sources, agents, world >>

(* ensure_hermes_native_sources registers both files as private sources of *)
(* Hermes, under the id that is free, and never changes a source.          *)
SafeExisting(source) == source.private
Owner(known, path) == {i \in DOMAIN known : known[i] # None /\ known[i].path = path}
Registered(known, canonical, fallback, path) ==
    IF known = None THEN None
    ELSE IF Owner(known, path) # {}
         THEN IF \A i \in Owner(known, path) : SafeExisting(known[i]) THEN known ELSE None
    ELSE LET id == IF known[canonical] = None THEN canonical ELSE fallback
         IN  IF known[id] = None THEN [known EXCEPT ![id] = [path |-> path, private |-> TRUE]] ELSE None
EnsureNativeSources ==
    LET memory == Registered(sources, "hermes_memory", "hermes_memory_builtin", "MEMORY.md")
        both == Registered(memory, "hermes_user", "hermes_user_builtin", "USER.md")
    IN  /\ At("register")
        /\ \/ both # None /\ sources' = both /\ Goto("report") /\ UNCHANGED used
           \/ both = None /\ Fail("native_sources") /\ UNCHANGED << sources, used >>
           \/ Fault /\ sources' \in {sources, IF both = None THEN sources ELSE both} /\ Fail("native_sources")
        /\ UNCHANGED << disk, backups, natives, agents, world >>

Report ==
    /\ At("report") /\ agents' = "active"
    /\ run' = [run EXCEPT !.at = "idle", !.result = "configured"]
    /\ UNCHANGED << disk, backups, natives, sources, used, world >>

(* The undoing: the native files that were created, then each snapshot in  *)
(* turn, the last one first.  What cannot be put back does not keep the    *)
(* others from being tried.                                                *)
UndoStep(label, next) ==
    /\ At(label)
    /\ UNCHANGED << backups, sources, agents, world >>
    /\ \/ Goto(next) /\ UNCHANGED used
       \/ Fault /\ run' = [run EXCEPT !.at = next, !.rollback = "failed"]
RollbackNatives ==
    /\ UndoStep("undo", "drop_plugin")
    /\ natives' = IF run'.rollback = "failed" THEN natives ELSE Removed(run.created)
    /\ UNCHANGED disk
Drop(label, path, restore, next) ==
    /\ At(label) /\ UNCHANGED << backups, natives, sources, agents, world >>
    /\ \/ Write(path, None) /\ Goto(restore) /\ UNCHANGED used
       \/ Fault /\ run' = [run EXCEPT !.at = next, !.rollback = "failed"] /\ UNCHANGED disk
RestoreSnapshot(label, path, next) ==
    /\ UndoStep(label, next)
    /\ IF run'.rollback = "failed" /\ run.rollback # "failed" THEN UNCHANGED disk
       ELSE Write(path, run.snap[path])
    /\ UNCHANGED natives
RollbackSnapshots ==
    \/ Drop("drop_plugin", "plugin", "put_plugin", "drop_json")
    \/ RestoreSnapshot("put_plugin", "plugin", "drop_json")
    \/ Drop("drop_json", "json", "put_json", "drop_config")
    \/ RestoreSnapshot("put_json", "json", "drop_config")
    \/ Drop("drop_config", "config", "put_config", "failed")
    \/ RestoreSnapshot("put_config", "config", "failed")
FailureResult ==
    /\ At("failed") /\ run' = [run EXCEPT !.at = "idle", !.result = "failed"]
    /\ agents' = IF run.stage = "mcp_test" THEN "failed" ELSE agents
    /\ UNCHANGED << disk, backups, natives, sources, used, world >>

(* The installer dies, or is interrupted: nothing undoes what it did.      *)
Die ==
    /\ ~At("idle") /\ Use("crashes")
    /\ run' = [run EXCEPT !.at = "idle", !.result = "died"]
    /\ UNCHANGED << disk, backups, natives, sources, agents, world >>

(* "memleaf init" (HermesAdapter.configure): the entry is added only where *)
(* neither Hermes' listing nor the file has one, with the command that     *)
(* PATH finds.                                                             *)
ListingState(vault) ==
    IF Config.entry = None THEN "absent"
    ELSE IF Config.entry.command # None /\ Config.entry.vault = vault THEN "correct" ELSE "conflict"
ConfigState(vault) ==
    IF disk.config = None THEN "absent"
    ELSE IF ~disk.config.readable THEN "unknown"
    ELSE IF ParseEntry(disk.config) = None THEN "absent"
    ELSE IF EntryMatches(ParseEntry(disk.config), vault) THEN "correct" ELSE "conflict"
InitHermes(vault) ==
    LET fresh == [Idle EXCEPT !.vault = vault, !.result = "init", !.before = [disk |-> disk, natives |-> natives]]
        add == ListingState(vault) # "correct" /\ ConfigState(vault) = "absent"
    IN  /\ At("idle") /\ Use("installs")
        /\ run' = IF add THEN [fresh EXCEPT !.at = "add"] ELSE fresh
        /\ backups' = IF add THEN backups \cup ({disk.config} \ {None}) ELSE backups
        /\ UNCHANGED << disk, natives, sources, agents, world >>
InitAdd ==
    /\ At("add") /\ Goto("idle")
    /\ \/ UNCHANGED used /\ Write("config", [Config EXCEPT !.entry =
            [command |-> FromPath, vault |-> run.vault, enabled |-> TRUE]])
       \/ Fault /\ UNCHANGED disk
    /\ UNCHANGED << backups, natives, sources, agents, world >>

(* A person edits config.yaml; Hermes writes a native memory file.         *)
Edited == run' = [run EXCEPT !.edited = TRUE]
Edit ==
    /\ Use("edits") /\ Edited /\ disk.config # None /\ disk.config.readable
    /\ \/ Write("config", [disk.config EXCEPT !.note = @ + 1])
       \/ \E entry \in W.theirs : Write("config", [disk.config EXCEPT !.entry = entry])
    /\ UNCHANGED << backups, natives, sources, agents, world >>
HermesWrites ==
    /\ Use("edits") /\ Edited
    /\ \E f \in Memories : natives[f] \in {"absent", "empty"} /\ natives' = [natives EXCEPT ![f] = "text"]
    /\ UNCHANGED << disk, backups, sources, agents, world >>

Install ==
    \/ \E policy \in W.policies, asked \in W.asked : Preflight(policy, asked)
    \/ SnapshotPath \/ InspectAgain \/ MakeBackup \/ Disable \/ SetCommand \/ SetArgs \/ Enable
    \/ Confirm \/ ConfigureLifecycle \/ ConfigureTools \/ TestMcp \/ CopyProvider \/ CopyFails
    \/ WriteProviderConfig \/ Activate \/ EnsureNativeFiles \/ EnsureNativeSources \/ Report
    \/ RollbackNatives \/ RollbackSnapshots \/ FailureResult
    \/ \E vault \in W.inits : InitHermes(vault)
    \/ InitAdd
Next == Install \/ Die \/ Edit \/ HermesWrites

Spec == Init /\ [][Next]_vars

-----------------------------------------------------------------------------
(* No entry is active with a command and no Vault, or the other way round, *)
(* whatever step an installer stopped at.                                  *)
HalfIsOff ==
    disk.config # None /\ disk.config.entry # None /\ disk.config.entry.enabled =>
        disk.config.entry.command # None /\ disk.config.entry.vault # None

(* An entry that is disabled, names another Vault or is not memleaf's, and *)
(* under "auto" one of another runtime, is left alone at every step;       *)
(* "existing" keeps the runtime that was there.  A Vault that memleaf.json *)
(* names is lost only for one that was asked for, a source never.          *)
TheirsIsKept ==
    LET before == run.before.disk
        entry == ParseEntry(before.config)
        theirs == ~entry.enabled \/ entry.vault # run.vault \/ entry.command.runtime \notin {"here", "there", "path"}
        elsewhere == entry.command.runtime = "there"
    IN  run.before # None /\ ~run.edited =>
        /\ before.config # None /\ entry # None =>
            /\ theirs => disk.config \in {before.config, None}
            /\ elsewhere /\ run.policy = "auto" => disk.config = before.config
            /\ elsewhere /\ run.result = "configured" /\ run.policy = "existing" =>
                disk.config.entry.command.runtime = "there"
        /\ before.json # None /\ before.json.readable /\ W.asked = {None} =>
            \/ disk.json = None \/ disk.json.vault = before.json.vault
        /\ \A i \in DOMAIN sources : W.sources[i] # None => sources[i] = W.sources[i]

(* "configured" is said only of a host whose entry, provider files and     *)
(* memleaf.json are of one runtime and one Vault, with the provider active *)
(* and both native files registered as private.                            *)
ConfiguredIsTrue ==
    At("idle") /\ run.result = "configured" /\ ~run.edited =>
        /\ Inspect(disk.config, run.vault, PublicCommand(run.command), FALSE) = "correct"
        /\ disk.json.command.runtime = disk.config.entry.command.runtime
        /\ disk.json.vault = run.vault
        /\ disk.plugin.kind = "dir" /\ disk.plugin.files = Packaged
        /\ disk.config.provider = "memleaf" /\ disk.config.lazy
        /\ disk.config.tools \in {"bound", "some_bound"} /\ agents = "active"
        /\ \A f \in Memories : natives[f] # "absent" /\ Owner(sources, f) # {}
        /\ \A i \in DOMAIN sources : sources[i] # None /\ sources[i].path \in Memories => sources[i].private

(* A failed install leaves Hermes as it found it, unless it says that the  *)
(* rollback failed; a person's choice of tools is never lost for good.     *)
FailureRestores ==
    /\ At("idle") /\ run.result = "failed" /\ run.rollback = "completed" /\ ~run.edited =>
        disk = run.before.disk /\ natives = run.before.natives
    /\ run.before # None /\ ~run.edited /\ disk.config # None /\ run.before.disk.config # None =>
        /\ disk.config.note = run.before.disk.config.note
        /\ run.before.disk.config.tools \in {"some", "some_bound"} =>
            disk.config.tools \in {"some", "some_bound"}

(* An install over a host that is already right changes none of Hermes'    *)
(* files, even when it fails, but for the moment a file is put back.       *)
Right(files, command, vault) ==
    /\ files.config # None /\ files.plugin # None /\ files.json # None
    /\ Inspect(files.config, vault, PublicCommand(command), FALSE) = "correct"
    /\ files.config.provider = "memleaf" /\ files.config.lazy /\ files.config.tools # "all"
    /\ files.plugin.kind = "dir" /\ files.plugin.files = Packaged
    /\ files.json = [readable |-> TRUE, command |-> ProviderCommand(command), vault |-> vault]
InstallIsIdempotent ==
    LET before == run.before.disk
    IN  run.before # None /\ ~run.edited /\ run.rollback # "failed" /\ run.command # None
            /\ Right(before, run.command, run.vault) =>
        \A path \in DOMAIN disk : disk[path] \in {before[path], None}

InstallHolds ==
    []HalfIsOff /\ []TheirsIsKept /\ []ConfiguredIsTrue /\ []FailureRestores /\ []InstallIsIdempotent
=============================================================================
