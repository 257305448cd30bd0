-------------------------- MODULE VaultMutations --------------------------
(***************************************************************************)
(* All mutations of memories together: commits, explicit updates and       *)
(* retractions, compaction and Forget, each behind the boundary            *)
(* service._mutation_boundary: under the lock of the Vault it recovers a   *)
(* compaction and acknowledges heads that were written already.            *)
(***************************************************************************)
EXTENDS IncrementalCommit, Compaction, ExplicitMutations

CONSTANTS
    Mixes          \* who acts in one behaviour: operations, people, hosts

(* Who writes a revision marks it: the id of the operation, the request or *)
(* the compaction is embedded in the text.                                 *)
ASSUME MarksAssumption ==
    /\ Person \cap (Ops \cup Updates \cup Retractions) = {}
    /\ Ops \cap (Updates \cup Retractions) = {}
    /\ \A m \in Mems : Short(m) \notin Person \cup Ops \cup Updates \cup Retractions \cup {Absent}

VARIABLES
    actors,       \* who acts in this behaviour
    had,           \* <<memory, revision>> the program replaced (history)
    forgetting,    \* memories whose Forget was begun and not completed
    forgotten      \* memories whose Forget was completed

ghosts == << actors, had, forgetting, forgotten >>

vars == << files, commit, compaction, explicit, ghosts >>

(* What a section is entered for; on disk nothing changes yet. *)
EnterSection ==
    /\ \/ \E w \in Works : Enter("commit", w)
       \/ \E q \in Updates : asked[q] # Absent /\ Enter("update", q)
       \/ \E q \in Retractions : asked[q] # Absent /\ Enter("retract", q)
       \/ \E m \in Mems : Enter("forget", m)
       \/ Enter("snapshot", Absent)
       \/ chosen # << >> /\ Enter("compact", Absent)
    /\ hold'.op \in actors
    /\ UNCHANGED << head, archive, trace, stale, written, commit, compaction, explicit, ghosts >>

(***************************************************************************)
(* forget_records_unlocked: pending work first, then the files, the head   *)
(* last: as long as it is there, Forget can be asked for again.            *)
(***************************************************************************)

HistoryOf(m) == {entry \in archive : entry[1] = m}

NothingToForget(m) ==
    /\ Holding("forget", "begin") /\ hold.on = m
    /\ head[m] = Absent /\ HistoryOf(m) = {}
    /\ Release
    /\ UNCHANGED << head, archive, trace, stale, written, commit, explicit, ghosts >>

(* The scan; whether there is a head to delete is decided now. *)
BeginForget(m) ==
    /\ Holding("forget", "begin") /\ hold.on = m
    /\ head[m] # Absent \/ HistoryOf(m) # {}
    /\ GoWith(IF head[m] # Absent THEN m ELSE Absent, "cancel")
    /\ forgetting' = forgetting \cup {m}
    /\ UNCHANGED << head, archive, trace, stale, written, commit, explicit, actors, had, forgotten >>

PendingCancelled(m) ==
    /\ Holding("forget", "cancel") /\ hold.on = m
    /\ AllCancelled(m)
    /\ GoTo("retraction")
    /\ UNCHANGED << head, archive, trace, stale, written, commit, explicit, ghosts >>

DeleteHistory(m) ==
    /\ Holding("forget", "history") /\ hold.on = m
    /\ \E entry \in HistoryOf(m) : archive' = archive \ {entry}
    /\ UNCHANGED << head, hold, trace, stale, written, commit, explicit, ghosts >>

DeleteHead(m) ==
    /\ Holding("forget", "history") /\ hold.on = m
    /\ HistoryOf(m) = {}
    /\ head' = IF hold.item = m THEN [head EXCEPT ![m] = Absent] ELSE head
    /\ had' = {pair \in had : pair[1] # m}
    /\ forgetting' = forgetting \ {m}
    /\ forgotten' = forgotten \cup {m}
    /\ Release
    /\ UNCHANGED << archive, trace, stale, written, commit, explicit, actors >>

Forgetting(m) ==
    \/ BeginForget(m) \/ NothingToForget(m) \/ PendingCancelled(m)
    \/ DeleteHistory(m) \/ DeleteHead(m)

(***************************************************************************)
(* The composition.                                                        *)
(***************************************************************************)

(* What the program writes over, it must be able to show later. *)
Recall ==
    had' = had \cup {<< m, head[m] >> : m \in {n \in Mems :
        head'[n] # head[n] /\ head[n] # Absent /\ head'[n] \in written'}}

Service ==
    \/ Recovery /\ UNCHANGED << commit, explicit, ghosts >>
    \/ Reconcile /\ UNCHANGED << compaction, explicit, ghosts >>
    \/ (Committing \/ \E m \in Mems, w \in Works : CancelWork(m, w))
         /\ Recall /\ UNCHANGED << compaction, explicit, actors, forgetting, forgotten >>
    \/ (Mutating \/ \E m \in Mems : CancelRetraction(m) \/ CancelUpdate(m))
         /\ Recall /\ UNCHANGED << commit, compaction, actors, forgetting, forgotten >>
    \/ (Snapshot \/ Stage \/ Decline \/ Transaction)
         /\ Recall /\ UNCHANGED << commit, explicit, actors, forgetting, forgotten >>
    \/ (\E m \in Mems : Forgetting(m)) /\ UNCHANGED compaction

Outside ==
    \/ "editor" \in actors /\ (\E m \in Mems : Edit(m))
         /\ UNCHANGED << commit, compaction, explicit, ghosts >>
    \/ (\E q \in Updates \cup Retractions : 
             /\ (IF q \in Updates THEN "update" ELSE "retract") \in actors
             /\ journal.phase = "none" /\ Ask(q))
         /\ UNCHANGED << commit, compaction, ghosts >>
    \/ "host" \in actors
         /\ (Revise \/ CleanUp \/ \E o \in Ops : Plan[o].scope # Absent /\ NewScope(Plan[o].scope))
         /\ UNCHANGED << compaction, explicit, ghosts >>
    \/ Stop /\ UNCHANGED << commit, compaction, explicit, ghosts >>

Init ==
    /\ InitFiles /\ InitCommit /\ InitCompaction /\ InitExplicit
    /\ actors \in Mixes
    /\ had = {} /\ forgetting = {} /\ forgotten = {}

Next == EnterSection \/ Service \/ Outside

Spec == Init /\ [][Next]_vars

(***************************************************************************)
(* Properties.                                                             *)
(***************************************************************************)

(* Every file has a shape that the next reader accepts. *)
TypeOK ==
    /\ FilesType /\ JournalType
    /\ \A w \in Works : WorkType(w)
    /\ \A m \in Mems : UpdateJournalType(m) /\ RetractionJournalType(m)

(* Once a Forget has returned, nothing that was pending for the memory can *)
(* bring it back: no operation, journal or staged copy of it is left, and  *)
(* only a person makes the file again (forget_records_unlocked).           *)
ForgottenStaysForgotten ==
    \A m \in forgotten \ touched :
        /\ head[m] = Absent
        /\ upd[m] = NoPlan /\ ret[m] = NoPlan
        /\ \A copy \in staged : copy[1] # m
        /\ \A w \in Works : \A o \in OpsIn(w) :
            Plan[o].mem = m => works[w].st[o] \in {"cancelled", "blocked", "settled"}

(* What the program wrote over is in the history, is current again, or     *)
(* waits in the staging directory of an unfinished compaction: whatever    *)
(* stops in between.  Excused are memories that a person edited while      *)
(* their compaction was pending (_write_history, _rollback_pending).       *)
OriginalKept ==
    \A pair \in had :
        \/ InHistory(pair[1], pair[2]) \/ head[pair[1]] = pair[2]
        \/ pair \in staged /\ journal.phase # "none"
        \/ pair[1] \in touched \cup forgetting

(* The receipt that completes another repeats its settled decisions:       *)
(* otherwise no turn of the session could be cleaned up any more.  Only    *)
(* an interrupted Forget may separate them (resolved_parent_ids).          *)
ParentAgrees ==
    \A c \in {w \in Works : Parent[w] # Absent /\ Saved(w)} :
        \A o \in OpsIn(Parent[c]) :
            works[Parent[c]].st[o] = "settled" =>
                \/ o \in OpsIn(c) /\ works[c].st[o] = "settled"
                \/ Plan[o].mem \in forgetting
=============================================================================
