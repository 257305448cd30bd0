---------------------------- MODULE CodexInstall ----------------------------
(***************************************************************************)
(* memleaf installs itself into Codex (installer.install_codex with        *)
(* adapters/codex.py and adapters/base.py): an MCP entry, written by       *)
(* Codex' own CLI, and one handler for each lifecycle event, merged into a *)
(* hooks file that also holds the handlers of others.  Codex runs a handler*)
(* its user has reviewed; the first that works makes the installation      *)
(* "active" in the Vault's agents.json.  The installer may fail or die     *)
(* between any two steps, and the user may change every file meanwhile.    *)
(***************************************************************************)
EXTENDS Naturals, Sequences, FiniteSets, SequencesExt

CONSTANTS
    None,
    Worlds        \* what an installer may find, and the bounds of a behaviour

VARIABLES
    codex,        \* of Codex: entry of memleaf, inline hooks in config.toml, hooks file
    copies,       \* backups of the hooks file
    states,       \* agents.json of every Vault: its entry for Codex, or None
    setup,        \* the installer at work, or how the last one ended
    reviewed,     \* handlers the user has trusted
    flight,       \* handler that runs now, or None
    ran,          \* handlers that have worked
    spent,        \* faults, crashes, edits and installs so far
    place

vars == << codex, copies, states, setup, reviewed, flight, ran, spent, place >>
W == Worlds[place]

Vaults == {"v", "w"}
Events == {"PreToolUse", "Stop"}

(* A handler is a host-event command of memleaf for an event, with or      *)
(* without its Windows form, or somebody else's ("for" is None).           *)
Command(event, interpreter, vault) ==
    [for |-> event, interpreter |-> interpreter, of |-> vault, windows |-> "ours"]
Same(left, right) == [left EXCEPT !.windows = right.windows] = right
(* _host_event_identity: old and new forms of the command are recognised.  *)
Identity(hook) == hook.for

(* The matcher of every event, and the one of an earlier version.          *)
OldMatchers == [PreToolUse |-> {"search|read"}, Stop |-> {}]
Matcher(event) == IF event = "PreToolUse" THEN "search|list_todos|read" ELSE "none"

(* hook_definition_fingerprint of _codex_hook_definition.                  *)
Definition(interpreter, vault) == [interpreter |-> interpreter, of |-> vault]

(* The runtime and the Vault an MCP entry names; "odd" is any other shape. *)
Entry(interpreter, vault) == [interpreter |-> interpreter, of |-> vault]
EntryVault(entry) == IF entry.interpreter = "odd" THEN None ELSE entry.of
EntryMatches(entry, interpreter, vault) == entry = Entry(interpreter, vault)

NoHooks == [valid |-> TRUE, events |-> [e \in Events |-> << >>]]
NoSetup == [at |-> "idle", result |-> "none", interpreter |-> None, asked |-> None, target |-> None,
            activation |-> "none", added |-> FALSE, read |-> NoHooks,
            before |-> None, edited |-> FALSE, slipped |-> FALSE, recorded |-> FALSE]

Init ==
    /\ place \in DOMAIN Worlds
    /\ codex = [entry |-> W.entry, inline |-> W.inline, hooks |-> W.hooks]
    /\ copies = {} /\ states = W.states /\ setup = NoSetup
    /\ reviewed = W.reviewed /\ flight = None /\ ran = W.ran
    /\ spent = [faults |-> 0, crashes |-> 0, edits |-> 0, installs |-> 0, hooks |-> 0]

At(label) == setup.at = label
Goto(label) == setup' = [setup EXCEPT !.at = label]
Spend(what) == spent[what] < W.max[what] /\ spent' = [spent EXCEPT ![what] = @ + 1]
Outside == UNCHANGED << reviewed, flight, ran, place >>

(***************************************************************************)
(* merge_hook_config: what a hooks file becomes, or why it may not.        *)
(***************************************************************************)

Hooks(groups) == FlattenSeq([i \in DOMAIN groups |-> groups[i].hooks])
Has(hooks, P(_)) == \E i \in DOMAIN hooks : P(hooks[i])

(* Only a group whose matcher is a known old one and that holds nothing but*)
(* this command is moved to the new matcher.                               *)
Outdated(group, command) ==
    group.matcher \in OldMatchers[command.for] /\ Has(group.hooks, LAMBDA h : Same(h, command))
SharedGroup(group, command) == Outdated(group, command) /\ Has(group.hooks, LAMBDA h : ~Same(h, command))
Upgraded(groups, command) ==
    [i \in DOMAIN groups |->
        IF Outdated(groups[i], command) THEN [groups[i] EXCEPT !.matcher = Matcher(command.for)] ELSE groups[i]]

(* _hook_command_state: the first handler of the event decides.            *)
Ours(groups, event) == SelectSeq(Hooks(groups), LAMBDA h : Identity(h) = event)
CommandStateAny(groups, command) ==  \* mutant of CommandState
    IF Has(Hooks(groups), LAMBDA h : Same(h, command)) THEN "matching" ELSE "absent"
CommandState(groups, command) ==
    LET ours == Ours(groups, command.for) IN
    IF ours = << >> THEN "absent" ELSE IF Same(Head(ours), command) THEN "matching" ELSE "conflict"

(* _merge_command_windows: only a missing Windows form is added, to the    *)
(* first handler with the command.                                         *)
WindowsConflict(groups, command) ==
    /\ CommandState(groups, command) = "matching"
    /\ Head(Ours(groups, command.for)).windows = "other"
WithWindows(groups, command) ==
    LET i == SelectInSeq(groups, LAMBDA g : Has(g.hooks, LAMBDA h : Same(h, command)))
        j == SelectInSeq(groups[i].hooks, LAMBDA h : Same(h, command)) IN
    IF i = 0 THEN groups ELSE [groups EXCEPT ![i].hooks[j] = IF @.windows = "none" THEN command ELSE @]

Refused(groups, command) ==
    \/ \E i \in DOMAIN groups : SharedGroup(groups[i], command)
    \/ CommandState(groups, command) = "conflict" \/ WindowsConflict(groups, command)
MergedEvent(groups, command) ==
    LET kept == WithWindows(Upgraded(groups, command), command) IN
    IF CommandState(groups, command) = "matching" THEN kept
    ELSE Append(kept, [matcher |-> Matcher(command.for), hooks |-> << command >>])

MergeRefused(file, interpreter, vault) ==
    \/ ~file.valid
    \/ \E e \in Events : Refused(file.events[e], Command(e, interpreter, vault))
Merged(file, interpreter, vault) ==
    [file EXCEPT !.events = [e \in Events |-> MergedEvent(file.events[e], Command(e, interpreter, vault))]]

(***************************************************************************)
(* agents.json.                                                            *)
(***************************************************************************)

NoState == [status |-> "none", activation |-> "none", hash |-> None]

(* hook_activation_status: "active" counts only for the same definition.   *)
ActivationStatusAny(vault, definition) ==  \* mutant of ActivationStatus
    IF states[vault] # None /\ states[vault].activation = "active" THEN "active" ELSE "pending"
ActivationStatus(vault, definition) ==
    IF states[vault] # None /\ states[vault].activation = "active" /\ states[vault].hash = definition
    THEN "active" ELSE "pending"

(* update_agents_state: what a result does not speak of stays.             *)
UpdateAgents(vault, update) ==
    LET previous == IF states[vault] = None THEN NoState ELSE states[vault] IN
    states' = [states EXCEPT ![vault] = [f \in DOMAIN update |-> update[f]] @@ previous]

(* mark_hook_active: whichever handler worked, whatever was recorded.      *)
MarkActive(vault) ==
    states' = IF states[vault] = None THEN states ELSE [states EXCEPT ![vault].activation = "active"]

(***************************************************************************)
(* install_codex.                                                          *)
(***************************************************************************)

(* _select_codex_vault_path: Hermes and Codex must name one Vault.         *)
Existing == {v \in {W.hermes, IF codex.entry = None THEN None ELSE EntryVault(codex.entry)} : v # None}
Unsupported == codex.entry # None /\ EntryVault(codex.entry) = None
VaultConflict == Cardinality(Existing) > 1
SelectVault(asked) ==
    IF asked # None THEN asked ELSE IF Existing # {} THEN CHOOSE v \in Existing : TRUE ELSE W.default

End(run, result) == [run EXCEPT !.at = "idle", !.result = result]

(* The Vault is chosen, and the hooks are merged once without a write.     *)
Begin(interpreter, asked) ==
    LET fresh == [NoSetup EXCEPT !.interpreter = interpreter, !.asked = asked, !.before = codex] IN
    /\ At("idle") /\ Spend("installs")
    /\ setup' = IF ~W.detected THEN End(fresh, "failure")
                ELSE IF asked = None /\ Unsupported THEN End(fresh, "failure")
                ELSE IF asked = None /\ VaultConflict THEN End(fresh, "diagnostic")
                ELSE LET run == [fresh EXCEPT !.target = SelectVault(asked)] IN
                     IF codex.inline \/ MergeRefused(codex.hooks, interpreter, run.target) THEN End(run, "diagnostic")
                     ELSE [run EXCEPT !.at = "check"]
    /\ UNCHANGED << codex, copies, states >> /\ Outside

(* The Vault exists now; configure asks what agents.json holds and checks  *)
(* config.toml and the hooks file again.                                   *)
Check ==
    /\ At("check")
    /\ LET run == [setup EXCEPT !.activation = ActivationStatus(setup.target, Definition(setup.interpreter, setup.target))] IN
       setup' = IF codex.inline \/ MergeRefused(codex.hooks, run.interpreter, run.target)
                THEN [run EXCEPT !.at = "record", !.result = "diagnostic", !.activation = "pending"]
                ELSE [run EXCEPT !.at = "query"]
    /\ UNCHANGED << codex, copies, states, spent >> /\ Outside

(* codex mcp get: no other entry is ever touched.                          *)
QueryEntry ==
    /\ At("query")
    /\ \/ /\ setup' = IF codex.entry = None THEN [setup EXCEPT !.at = "add"]
                      ELSE IF EntryMatches(codex.entry, setup.interpreter, setup.target)
                      THEN [setup EXCEPT !.at = "merge"]
                      ELSE [setup EXCEPT !.at = "record", !.result = "diagnostic", !.activation = "none"]
          /\ UNCHANGED spent
       \/ /\ Spend("faults")
          /\ setup' = [setup EXCEPT !.at = "record", !.result = "failure", !.activation = "none"]
    /\ UNCHANGED << codex, copies, states >> /\ Outside

(* config.toml is copied, and codex mcp add replaces the entry; a call that*)
(* fails may have done so.                                                 *)
AddEntry ==
    /\ At("add")
    /\ \/ /\ codex' = [codex EXCEPT !.entry = Entry(setup.interpreter, setup.target)]
          /\ setup' = [setup EXCEPT !.at = "merge", !.added = TRUE]
          /\ UNCHANGED spent
       \/ /\ Spend("faults")
          /\ codex' \in {codex, [codex EXCEPT !.entry = Entry(setup.interpreter, setup.target)]}
          /\ setup' = [setup EXCEPT !.at = "record", !.result = "failure", !.activation = "none", !.added = TRUE]
    /\ UNCHANGED << copies, states >> /\ Outside

Success == IF setup.added THEN "configured" ELSE "already_configured"

(* The hooks file is read and merged in memory.                            *)
MergeHooks ==
    /\ At("merge")
    /\ setup' = IF MergeRefused(codex.hooks, setup.interpreter, setup.target)
                THEN [setup EXCEPT !.at = "record", !.result = "diagnostic", !.activation = "pending"]
                ELSE IF Merged(codex.hooks, setup.interpreter, setup.target) = codex.hooks
                THEN [setup EXCEPT !.at = "record", !.result = Success]
                ELSE [setup EXCEPT !.at = "backup", !.read = codex.hooks]
    /\ UNCHANGED << codex, copies, states, spent >> /\ Outside

HooksFailed == [setup EXCEPT !.at = "record", !.result = "failure", !.activation = "pending"]

Backup ==
    /\ At("backup")
    /\ \/ copies' = copies \cup {codex.hooks} /\ Goto("write") /\ UNCHANGED spent
       \/ Spend("faults") /\ setup' = HooksFailed /\ UNCHANGED copies
    /\ UNCHANGED << codex, states >> /\ Outside

(* The merged file takes the place of whatever is there.                   *)
WriteHooks ==
    /\ At("write")
    /\ \/ /\ codex' = [codex EXCEPT !.hooks = Merged(setup.read, setup.interpreter, setup.target)]
          /\ setup' = [setup EXCEPT !.at = "record", !.result = Success]
          /\ UNCHANGED spent
       \/ Spend("faults") /\ setup' = HooksFailed /\ UNCHANGED codex
    /\ UNCHANGED << copies, states >> /\ Outside

(* The answer is given whether or not agents.json could be written.        *)
Record ==
    /\ At("record")
    /\ \/ /\ UpdateAgents(setup.target,
                IF setup.activation = "none" THEN [status |-> setup.result]
                ELSE [status |-> setup.result, activation |-> setup.activation,
                      hash |-> Definition(setup.interpreter, setup.target)])
          /\ setup' = [setup EXCEPT !.at = "idle", !.recorded = TRUE] /\ UNCHANGED spent
       \/ Spend("faults") /\ Goto("idle") /\ UNCHANGED states
    /\ UNCHANGED << codex, copies >> /\ Outside

Die ==
    /\ ~At("idle") /\ Spend("crashes")
    /\ setup' = End(setup, "died")
    /\ UNCHANGED << codex, copies, states >> /\ Outside

(* memleaf init: the slot of Codex in the Vault is cleared, nothing else.  *)
InitSlot(vault) ==
    /\ At("idle") /\ Spend("installs")
    /\ UpdateAgents(vault, [status |-> "disabled", activation |-> "disabled", hash |-> None])
    /\ setup' = NoSetup
    /\ UNCHANGED << codex, copies >> /\ Outside

(***************************************************************************)
(* Codex and its user.                                                     *)
(***************************************************************************)

Installed == {h \in UNION {ToSet(Hooks(codex.hooks.events[e])) : e \in Events} : h.for # None}

Review ==
    /\ codex.hooks.valid /\ Installed # {} /\ ~(Installed \subseteq reviewed)
    /\ reviewed' = reviewed \cup Installed
    /\ UNCHANGED << codex, copies, states, setup, flight, ran, spent, place >>

(* _handle_codex of a handler the user trusts: it begins,                  *)
HookStart(h) ==
    /\ flight = None /\ codex.hooks.valid /\ h \in Installed \cap reviewed /\ Spend("hooks")
    /\ flight' = h
    /\ UNCHANGED << codex, copies, states, setup, reviewed, ran, place >>
(* and works, or does not.                                                 *)
HookEnd(works) ==
    /\ flight # None /\ flight' = None
    /\ IF works THEN MarkActive(flight.of) /\ ran' = ran \cup {flight} ELSE UNCHANGED << states, ran >>
    /\ UNCHANGED << codex, copies, setup, reviewed, spent, place >>

Theirs == [for |-> None, interpreter |-> "lint", of |-> None, windows |-> "none"]
Their(matcher) == [matcher |-> matcher, hooks |-> << Theirs >>]
WithGroup(file, e) == [file EXCEPT !.events[e] = Append(@, Their("theirs"))]
InOurGroup(file, e) == [file EXCEPT !.events[e] =
    [i \in DOMAIN @ |-> [@[i] EXCEPT !.hooks = Append(@, Theirs)]]]
Without(file, e) == [file EXCEPT !.events[e] = << >>]
Edits(file) == IF ~file.valid THEN {NoHooks}
               ELSE UNION {{WithGroup(file, e), InOurGroup(file, e), Without(file, e)} : e \in Events}

Edited == setup' = [setup EXCEPT !.edited = TRUE, !.slipped = @ \/ At("write")]
EditHooks(file) ==
    /\ "hooks" \in W.edits /\ Spend("edits") /\ file # codex.hooks /\ Edited
    /\ codex' = [codex EXCEPT !.hooks = file]
    /\ UNCHANGED << copies, states >> /\ Outside
EditConfig ==
    /\ "config" \in W.edits /\ Spend("edits") /\ Edited
    /\ \/ codex.entry # None /\ codex' = [codex EXCEPT !.entry = None]
       \/ codex' = [codex EXCEPT !.inline = ~@]
    /\ UNCHANGED << copies, states >> /\ Outside

Next ==
    \/ \E interpreter \in W.interpreters, asked \in W.asked : Begin(interpreter, asked)
    \/ Check \/ QueryEntry \/ AddEntry \/ MergeHooks \/ Backup \/ WriteHooks \/ Record \/ Die
    \/ \E vault \in W.inits : InitSlot(vault)
    \/ Review
    \/ \E h \in Installed : HookStart(h)
    \/ \E works \in BOOLEAN : HookEnd(works)
    \/ \E file \in Edits(codex.hooks) : EditHooks(file)
    \/ EditConfig

(***************************************************************************)
(* Properties.                                                             *)
(***************************************************************************)

(* The handlers of others, in their order and under their matchers.        *)
Foreign(file, e) ==
    LET marked == [i \in DOMAIN file.events[e] |->
            [j \in DOMAIN file.events[e][i].hooks |-> << file.events[e][i].matcher, file.events[e][i].hooks[j] >>]]
    IN  SelectSeq(FlattenSeq(marked), LAMBDA x : x[2].for = None)

(* The installer keeps every handler of others; one added while it worked  *)
(* is at least in the backup (base.py:605, 725), if it came before that.   *)
TheirsIsKept ==
    [][codex'.hooks # codex.hooks /\ spent'.edits = spent.edits /\ ~setup.slipped =>
        \A e \in Events :
            \/ Foreign(codex.hooks, e) = Foreign(codex'.hooks, e)
            \/ setup.edited /\ \E copy \in copies : copy = codex.hooks]_vars

Succeeded == At("idle") /\ setup.result \in {"configured", "already_configured"} /\ ~setup.edited

(* After a success the entry and every event name the Vault that was asked *)
(* for or that the hosts share, and the first handler of an event that runs*)
(* memleaf is the one asked for, never under an old matcher (installer.py: *)
(* 290, base.py:599).  It is the only one unless the file held several     *)
(* before: the merge looks at the first only (base.py:751) and leaves a    *)
(* second, though it may be of another Vault.                              *)
ConfiguredIsTrue ==
    Succeeded =>
        /\ codex.entry = Entry(setup.interpreter, setup.target)
        /\ setup.asked = None /\ W.hermes # None => setup.target = W.hermes
        /\ \A e \in Events :
            LET ours == Ours(codex.hooks.events[e], e) IN
            /\ Len(ours) \in {1, Len(Ours(setup.before.hooks.events[e], e))}
            /\ Head(ours) = Command(e, setup.interpreter, setup.target)
            /\ \A i \in DOMAIN codex.hooks.events[e] :
                ~Outdated(codex.hooks.events[e][i], Head(ours))
        /\ setup.recorded => states[setup.target].hash = Definition(setup.interpreter, setup.target)

(* An install that did not succeed has left the hooks and the entry as they*)
(* were, or added its own entry: never half a hooks file.                  *)
FailureIsHarmless ==
    At("idle") /\ setup.result \in {"diagnostic", "failure"} /\ ~setup.edited =>
        /\ codex.hooks = setup.before.hooks /\ codex.inline = setup.before.inline
        /\ \/ codex.entry = setup.before.entry
           \/ setup.added /\ setup.before.entry = None /\ codex.entry = Entry(setup.interpreter, setup.target)

(* An installer that failed or died does not stand in the way of the next. *)
RetryIsOpen ==
    W.clear /\ spent.edits = 0 => setup.result # "diagnostic"

(* A second install changes no file of Codex.                              *)
InstallIsIdempotent ==
    [][Succeeded /\ ~At("idle")' =>
        (setup'.interpreter = setup.interpreter /\ setup'.target = setup.target =>
            Merged(codex.hooks, setup.interpreter, setup.target) = codex.hooks)]_vars

(* "active" beside a definition says that a handler with its command has   *)
(* worked, as long as nobody edits the files (base.py:247).                *)
ActiveIsEarned ==
    spent.edits = 0 =>
        \A v \in Vaults :
            states[v] # None /\ states[v].activation = "active" /\ states[v].hash # None =>
                \E h \in ran : h.of = v /\ h.interpreter = states[v].hash.interpreter

CodexHolds ==
    /\ [](ConfiguredIsTrue /\ FailureIsHarmless /\ RetryIsOpen /\ ActiveIsEarned)
    /\ TheirsIsKept /\ InstallIsIdempotent
=============================================================================
