----------------------------- MODULE VaultState -----------------------------
(***************************************************************************)
(* The runtime state of a Vault (state_layout.py, vault.py, migration.py): *)
(* opening it, which first moves the state of an older layout from _index  *)
(* to _state, the controls that must not be made anew once they were lost, *)
(* the owner a new Vault is bound to, and its backup.                      *)
(***************************************************************************)
EXTENDS Naturals, FiniteSets

CONSTANTS
    Absent,
    Files,        \* JSON files of the state; a value is the number of its write
    Durable,      \* the files of Files that carry authority: processed.json
    Passing,      \* the files of Files that go in ordinary use: compaction.json
    Parts,        \* files of the staging directory of a compaction
    Openers,      \* processes that open the Vault
    Loads         \* scenario and bounds of a behaviour

VARIABLES
    made,         \* the directories of the Vault exist
    legacy,       \* _index: file -> value
    state,        \* _state: file -> value
    oldStage,     \* the staging directory in _index: its files, or Absent
    newStage,     \* the one in _state
    marker,       \* layout.json: what was migrated, what is required, whose Vault it is
    config,       \* config.yaml exists
    oldLock,      \* the lock file of the older layout exists
    lock,         \* who holds the Vault
    open,         \* process -> where its opening is
    backup,       \* the directory of the backup
    last,         \* file -> the newest value any writer gave it (history)
    lost,         \* durable files that disappeared from _state (history)
    gone,         \* files removed in ordinary use (history)
    torn,         \* a copy of the staging directory was cut off (history)
    load, used

vars == << made, legacy, state, oldStage, newStage, marker, config, oldLock, lock, open,
           backup, last, lost, gone, torn, load, used >>
layout == << legacy, state, oldStage, newStage, marker >>
history == << last, lost, gone, torn >>

(* Names differ. *)
Named ==
    /\ Durable \cup Passing \subseteq Files /\ Durable \cap Passing = {}
    /\ "staging" \notin Files /\ Absent \notin Nat
    /\ \A staged \in SUBSET Parts : staged # Absent
    /\ Absent \notin Openers /\ "backup" \notin Openers \cup {Absent}
    /\ \A l \in Loads : l.old \in BOOLEAN

Nobody == [at |-> "away", fresh |-> FALSE, left |-> {}, moved |-> {}]
NoBackup == [at |-> "none", wanted |-> Absent, taken |-> Absent, files |-> [f \in {} |-> Absent],
             manifest |-> Absent]
NoMarker == [complete |-> FALSE, moved |-> {}, required |-> {}, owner |-> Absent]

Use(what) == used[what] < load[what] /\ used' = [used EXCEPT ![what] = @ + 1] /\ UNCHANGED load
Unused == UNCHANGED << load, used >>

Init ==
    /\ load \in Loads
    /\ used = [what \in {"crashes", "writes", "losses"} |-> 0]
    /\ made = load.old /\ config = load.old /\ oldLock = load.old
    /\ legacy = [f \in Files |-> IF load.old THEN 0 ELSE Absent]
    /\ state = [f \in Files |-> Absent]
    /\ oldStage = (IF load.old THEN Parts ELSE Absent) /\ newStage = Absent
    /\ marker = NoMarker /\ lock = Absent
    /\ open = [p \in Openers |-> Nobody]
    /\ backup = NoBackup
    /\ last = legacy /\ lost = {} /\ gone = {} /\ torn = FALSE

(***************************************************************************)
(* Vault.ensure.                                                           *)
(***************************************************************************)

At(p, place) == open[p].at = place
Go(p, place) == open' = [open EXCEPT ![p].at = place]

(* Only an empty directory gets an owner by itself; this is read, and the  *)
(* directories are made, before the lock is taken.                         *)
LookAround(p) ==
    /\ At(p, "away")
    /\ open' = [open EXCEPT ![p] = [Nobody EXCEPT !.at = "mkdir", !.fresh = ~made]]
    /\ UNCHANGED << made, layout, config, oldLock, lock, backup, history >> /\ Unused

EnsureDirectories(p) ==
    /\ At(p, "mkdir") /\ Go(p, "lock")
    /\ made' = TRUE
    /\ UNCHANGED << layout, config, oldLock, lock, backup, history >> /\ Unused

Enter(p) ==
    /\ At(p, "lock") /\ lock = Absent
    /\ lock' = p
    /\ open' = [open EXCEPT ![p].at = IF marker.complete THEN "check" ELSE "copy",
                            ![p].left = Files]
    /\ UNCHANGED << made, layout, config, oldLock, backup, history >> /\ Unused

(* StateLayoutError: the Vault stays closed. *)
Refuse(p) == Go(p, "refused") /\ lock' = Absent
Hold == UNCHANGED lock

(* _migrate_state_layout_locked of a layout that is complete *)
CheckLayout(p) ==
    /\ At(p, "check")
    /\ IF \/ \E f \in marker.moved \cap Files : state[f] = Absent
          \/ "staging" \in marker.moved /\ newStage = Absent
       THEN Refuse(p) ELSE Go(p, "cleanup") /\ Hold
    /\ UNCHANGED << made, layout, config, oldLock, backup, history >> /\ Unused

(* Mutant: a copy that exists is trusted. *)
AgreesAlways(f) == TRUE

(* _copy_json: a copy that exists has to be equal. *)
Agrees(f) == state[f] \in {Absent, legacy[f]}

CopyJson(p) ==
    /\ At(p, "copy")
    /\ IF open[p].left = {} THEN Go(p, "stage") /\ Hold /\ UNCHANGED state
       ELSE \E f \in open[p].left :
            IF legacy[f] = Absent
            THEN open' = [open EXCEPT ![p].left = @ \ {f}] /\ Hold /\ UNCHANGED state
            ELSE IF Agrees(f)
            THEN /\ state' = [state EXCEPT ![f] = IF @ = Absent THEN legacy[f] ELSE @]
                 /\ open' = [open EXCEPT ![p].left = @ \ {f}, ![p].moved = @ \cup {f}]
                 /\ Hold
            ELSE Refuse(p) /\ UNCHANGED state
    /\ UNCHANGED << made, legacy, oldStage, newStage, marker, config, oldLock, backup, history >> /\ Unused

(* _copy_staging: the directory is made first, then filled. *)
CopyStaging(p) ==
    /\ \/ /\ At(p, "stage")
          /\ IF oldStage = Absent THEN Go(p, "mark") /\ Hold /\ UNCHANGED newStage
             ELSE IF newStage = Absent THEN newStage' = {} /\ Go(p, "fill") /\ Hold
             ELSE /\ IF newStage = oldStage
                     THEN open' = [open EXCEPT ![p].at = "mark", ![p].moved = @ \cup {"staging"}] /\ Hold
                     ELSE Refuse(p)
                  /\ UNCHANGED newStage
       \/ /\ At(p, "fill") /\ Hold
          /\ IF newStage = oldStage
             THEN /\ open' = [open EXCEPT ![p].at = "mark", ![p].moved = @ \cup {"staging"}]
                  /\ UNCHANGED newStage
             ELSE (\E part \in oldStage \ newStage : newStage' = newStage \cup {part}) /\ UNCHANGED open
    /\ UNCHANGED << made, legacy, state, oldStage, marker, config, oldLock, backup, history >> /\ Unused

MarkComplete(p) ==
    /\ At(p, "mark") /\ Go(p, "cleanup")
    /\ marker' = [marker EXCEPT !.complete = TRUE, !.moved = open[p].moved]
    /\ UNCHANGED << made, legacy, state, oldStage, newStage, config, oldLock, lock, backup, history >> /\ Unused

(* _cleanup_legacy, and the lock file once it was released *)
CleanupLegacy(p) ==
    /\ At(p, "cleanup")
    /\ \/ /\ \E f \in Files : legacy[f] # Absent /\ legacy' = [legacy EXCEPT ![f] = Absent]
          /\ UNCHANGED << oldStage, oldLock, open >>
       \/ /\ \A f \in Files : legacy[f] = Absent
          /\ oldStage' = Absent /\ oldLock' = FALSE /\ Go(p, "bind") /\ UNCHANGED legacy
    /\ UNCHANGED << made, state, newStage, marker, config, lock, backup, history >> /\ Unused

(* _bind_identity_unlocked *)
Bind(p) ==
    /\ At(p, "bind") /\ Go(p, "files")
    /\ marker' = IF open[p].fresh /\ marker.owner = Absent THEN [marker EXCEPT !.owner = p] ELSE marker
    /\ UNCHANGED << made, legacy, state, oldStage, newStage, config, oldLock, lock, backup, history >> /\ Unused

(* control_required *)
Required(f) == f \in Durable /\ (f \in marker.required \/ config)

EnsureFiles(p) ==
    /\ At(p, "files") /\ Go(p, "require")
    /\ state' = [f \in Files |-> IF state[f] = Absent /\ ~Required(f) /\ f \notin Passing THEN 0 ELSE state[f]]
    /\ last' = [f \in Files |-> IF state'[f] # state[f] THEN 0 ELSE last[f]]
    /\ UNCHANGED << made, legacy, oldStage, newStage, marker, config, oldLock, lock, backup, lost, gone, torn >>
    /\ Unused

(* require_control *)
RequireControl(p) ==
    /\ At(p, "require") /\ Go(p, "config")
    /\ marker' = [marker EXCEPT !.required = @ \cup {f \in Durable : state[f] # Absent}]
    /\ UNCHANGED << made, legacy, state, oldStage, newStage, config, oldLock, lock, backup, history >> /\ Unused

SaveConfig(p) ==
    /\ At(p, "config") /\ Go(p, "ready")
    /\ config' = TRUE /\ lock' = Absent
    /\ UNCHANGED << made, layout, oldLock, backup, history >> /\ Unused

Again(p) ==
    /\ open[p].at \in {"ready", "refused"} /\ Use("crashes")
    /\ open' = [open EXCEPT ![p] = Nobody]
    /\ UNCHANGED << made, layout, config, oldLock, lock, backup, history >>

Crash(p) ==
    /\ open[p].at \notin {"away", "ready", "refused"} /\ Use("crashes")
    /\ open' = [open EXCEPT ![p] = Nobody]
    /\ lock' = IF lock = p THEN Absent ELSE lock
    /\ torn' = (torn \/ At(p, "fill"))
    /\ UNCHANGED << made, layout, config, oldLock, backup, last, lost, gone >>

(***************************************************************************)
(* Writers of the state.                                                   *)
(***************************************************************************)

Next1(f) == IF last[f] = Absent THEN 1 ELSE last[f] + 1

(* A writer of this layout reads the file and replaces it under the lock.  *)
Write(p, f) ==
    /\ At(p, "ready") /\ lock = Absent /\ Use("writes")
    /\ state[f] = Absent => ~Required(f)
    /\ state' = [state EXCEPT ![f] = Next1(f)] /\ last' = [last EXCEPT ![f] = Next1(f)]
    /\ UNCHANGED << made, legacy, oldStage, newStage, marker, config, oldLock, lock, open, backup, lost, gone, torn >>

(* A worker of the older version that ran before the upgrade; the          *)
(* migration holds its lock, and it must have stopped when that is over.   *)
OldWrite(f) ==
    /\ oldLock /\ ~marker.complete /\ lock = Absent /\ legacy[f] # Absent /\ Use("writes")
    /\ legacy' = [legacy EXCEPT ![f] = Next1(f)] /\ last' = [last EXCEPT ![f] = Next1(f)]
    /\ UNCHANGED << made, state, oldStage, newStage, marker, config, oldLock, lock, open, backup, lost, gone, torn >>

(* A pending compaction is over: its journal goes. *)
Finish(p, f) ==
    /\ At(p, "ready") /\ lock = Absent /\ f \in Passing /\ state[f] # Absent
    /\ state' = [state EXCEPT ![f] = Absent] /\ last' = [last EXCEPT ![f] = Absent]
    /\ gone' = gone \cup {f}
    /\ UNCHANGED << made, legacy, oldStage, newStage, marker, config, oldLock, lock, open, backup, lost, torn >>
    /\ Unused

Lose(f) ==
    /\ f \in Durable /\ lock = Absent /\ state[f] # Absent /\ Required(f) /\ marker.complete /\ Use("losses")
    /\ state' = [state EXCEPT ![f] = Absent] /\ lost' = lost \cup {f}
    /\ UNCHANGED << made, legacy, oldStage, newStage, marker, config, oldLock, lock, open, backup, last, gone, torn >>

(***************************************************************************)
(* backup_for_migration, of the snapshot that a preflight showed.          *)
(***************************************************************************)

Snapshot == [f \in {k \in Files : state[k] # Absent} |-> state[f]]
Stage(place) == backup' = [backup EXCEPT !.at = place]
BackupOnly == UNCHANGED << made, layout, config, oldLock, open, history >> /\ Unused

Preflight ==
    /\ backup.at = "none" /\ config /\ load.backup
    /\ backup' = [backup EXCEPT !.at = "asked", !.wanted = Snapshot]
    /\ UNCHANGED lock /\ BackupOnly

BeginBackup ==
    /\ backup.at = "asked" /\ lock = Absent
    /\ IF backup.wanted = Snapshot
       THEN lock' = "backup" /\ backup' = [backup EXCEPT !.at = "copy", !.taken = Snapshot]
       ELSE backup' = NoBackup /\ UNCHANGED lock
    /\ BackupOnly

CopyOut ==
    /\ backup.at = "copy"
    /\ LET left == DOMAIN backup.taken \ DOMAIN backup.files IN
       IF left = {} THEN Stage("publish")
       ELSE \E f \in left : backup' = [backup EXCEPT !.files =
                [k \in DOMAIN @ \cup {f} |-> backup.taken[k]]]
    /\ UNCHANGED lock /\ BackupOnly

(* The manifest is published last, if the Vault is still the one copied.   *)
Publish ==
    /\ backup.at = "publish"
    /\ IF backup.taken = Snapshot
       THEN backup' = [backup EXCEPT !.at = "verify", !.manifest = backup.taken] /\ UNCHANGED lock
       ELSE Stage("failed") /\ lock' = Absent
    /\ BackupOnly

(* verify_migration_backup, and a last look at the Vault *)
Verify ==
    /\ backup.at = "verify" /\ lock' = Absent
    /\ Stage(IF backup.files = backup.manifest /\ backup.taken = Snapshot THEN "verified" ELSE "failed")
    /\ BackupOnly

CrashBackup ==
    /\ backup.at \in {"copy", "publish", "verify"} /\ Use("crashes")
    /\ Stage("failed") /\ lock' = Absent
    /\ UNCHANGED << made, layout, config, oldLock, open, history >>

(* Somebody edits a file in use, without the lock, while it is backed up.  *)
Edit(f) ==
    /\ lock = "backup" /\ marker.complete /\ state[f] # Absent /\ Use("writes")
    /\ state' = [state EXCEPT ![f] = Next1(f)] /\ last' = [last EXCEPT ![f] = Next1(f)]
    /\ UNCHANGED << made, legacy, oldStage, newStage, marker, config, oldLock, lock, open, backup, lost, gone, torn >>

Next ==
    \/ \E p \in Openers :
         \/ LookAround(p) \/ EnsureDirectories(p) \/ Enter(p) \/ CheckLayout(p) \/ CopyJson(p)
         \/ CopyStaging(p) \/ MarkComplete(p) \/ CleanupLegacy(p) \/ Bind(p) \/ EnsureFiles(p)
         \/ RequireControl(p) \/ SaveConfig(p) \/ Again(p) \/ Crash(p)
         \/ \E f \in Files : Write(p, f) \/ Finish(p, f)
    \/ \E f \in Files : OldWrite(f) \/ Lose(f) \/ Edit(f)
    \/ Preflight \/ BeginBackup \/ CopyOut \/ Publish \/ Verify \/ CrashBackup

(***************************************************************************)
(* Properties.                                                             *)
(***************************************************************************)

(* "Crash-safe migration [...] cannot be migrated without data loss": the  *)
(* newest value any writer gave a file is on file, where the layout says   *)
(* that it is read.                                                        *)
StateKept ==
    /\ \A f \in Files \ lost :
         last[f] = IF marker.complete \/ legacy[f] = Absent THEN state[f] ELSE legacy[f]
    /\ "staging" \in marker.moved => newStage = Parts

(* "Distinguish first-use absence from a lost durable authority file": a   *)
(* control that was lost is never made anew.                               *)
NotMadeAnew == \A f \in lost : state[f] = Absent

(* "Opening an existing Vault must not guess ownership or split its state" *)
OwnerStands ==
    /\ load.old => marker.owner = Absent
    /\ marker.owner # Absent => marker'.owner = marker.owner

(* A Vault stays closed only to spare what differs or was lost; but also   *)
(* after a cut copy of the staging directory, and once a file that was     *)
(* moved went in ordinary use.                                             *)
RefusedForCause ==
    \A p \in Openers : At(p, "refused") =>
        \/ torn \/ gone \cap marker.moved # {} \/ lost \cap marker.moved # {}
        \/ \E f \in Files : ~Agrees(f)

(* "A manifest is published last": a backup that has one holds what the    *)
(* preflight showed, whole.                                                *)
BackupWhole ==
    /\ backup.manifest # Absent => backup.files = backup.wanted
    /\ backup.at = "verified" => backup.manifest = backup.wanted

(* The state of the Vault, in every step. *)
StepsRight == (StateKept /\ NotMadeAnew /\ RefusedForCause /\ BackupWhole)' /\ OwnerStands

StateHolds == [][StepsRight]_vars

Spec == Init /\ [][Next]_vars
=============================================================================
