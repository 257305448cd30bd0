----------------------------- MODULE Compaction -----------------------------
(***************************************************************************)
(* compaction.py: bodies of memories are replaced by shorter ones that a   *)
(* model wrote, all or none, with a rollback journal and staged copies.    *)
(***************************************************************************)
EXTENDS VaultFiles

VARIABLES
    journal,           \* phase and source revisions of the open transaction
    staged,            \* <<memory, revision>> copies in the staging directory
    chosen             \* the snapshot a model is asked about, or << >>

compaction == << journal, staged, chosen >>

NoJournal == [phase |-> "none", of |-> {}]

Phases == {"none", "staged", "histories", "replacements", "sources_removed", "committed"}

(* The replacement of one memory; one transaction writes one body each. *)
Short(m) == << "short", m >>

Valid(m) == head[m] # Absent /\ head[m] \notin Retired

Sources == {s[1] : s \in journal.of}

SourceOf(m) == CHOOSE r \in {s[2] : s \in {t \in journal.of : t[1] = m}} : TRUE

Enough(S) == \A m \in S : << m, SourceOf(m) >> \in staged

(* _snapshot, after the mutation boundary: the memories to ask about. *)
Snapshot ==
    /\ Holding("snapshot", "begin")
    /\ \E S \in SUBSET {m \in Mems : Valid(m) /\ Short(m) \notin written} :
        chosen' = [m \in S |-> head[m]]
    /\ Release
    /\ UNCHANGED << head, archive, trace, stale, written, journal, staged >>

(* _commit up to the preflight: every selected memory is as it was, none   *)
(* has an archive of this replacement; then the sources are staged.        *)
Unmoved ==
    \A m \in DOMAIN chosen :
        head[m] = chosen[m] /\ << m, chosen[m], "compactor" >> \notin archive

Stage ==
    /\ Holding("compact", "begin")
    /\ Unmoved
    /\ \E S \in (SUBSET DOMAIN chosen) \ {{}} :
        /\ staged' = {<< m, chosen[m] >> : m \in S}
        /\ hold' = [hold EXCEPT !.on = staged', !.at = "staged"]
    /\ chosen' = << >>
    /\ Scan
    /\ UNCHANGED << head, archive, trace, written, journal >>

Decline ==
    /\ Holding("compact", "begin")
    /\ ~ Unmoved
    /\ chosen' = << >>
    /\ Release
    /\ UNCHANGED << head, archive, trace, stale, written, journal, staged >>

(* _write_journal_unlocked, once per phase. *)
Mark(at, phase, next) ==
    /\ Holding("compact", at)
    /\ journal' = [phase |-> phase, of |-> hold.on]
    /\ GoTo(next)
    /\ UNCHANGED << head, archive, trace, stale, written, staged, chosen >>

ArchiveSources ==
    /\ Holding("compact", "histories")
    /\ \E s \in {t \in hold.on : << t[1], t[2], "compactor" >> \notin archive} :
        archive' = archive \cup {<< s[1], s[2], "compactor" >>}
    /\ UNCHANGED << head, hold, trace, stale, written, compaction >>

SourcesArchived ==
    \A s \in hold.on : << s[1], s[2], "compactor" >> \in archive

(* The file is read again before it is replaced. *)
Shorten ==
    /\ Holding("compact", "replacements")
    /\ \E s \in hold.on :
        /\ head[s[1]] = s[2]
        /\ Replace(s[1], Short(s[1]))
    /\ UNCHANGED << archive, hold, trace, stale, compaction >>

(* It was changed meanwhile: the exception rolls back in the same section. *)
Unshortened == {s \in hold.on : Short(s[1]) \notin written}

Disturbed ==
    /\ Holding("compact", "replacements")
    /\ \E s \in Unshortened : head[s[1]] # s[2]
    /\ hold' = [hold EXCEPT !.op = "undo", !.at = "recover"]
    /\ UNCHANGED << head, archive, trace, stale, written, compaction >>

Shortened ==
    /\ Holding("compact", "replacements")
    /\ Unshortened = {}
    /\ journal' = [journal EXCEPT !.phase = "replacements"]
    /\ GoTo("removed")
    /\ UNCHANGED << head, archive, trace, stale, written, staged, chosen >>

Transacting ==
    {"staged", "histories", "replacements", "removed", "index", "committed", "clear"}

(* An I/O error inside the transaction is caught and rolled back at once. *)
Caught ==
    /\ hold.op = "compact" /\ hold.at \in Transacting
    /\ faults < MaxFaults
    /\ faults' = faults + 1
    /\ hold' = [hold EXCEPT !.op = "undo", !.at = "recover"]
    /\ UNCHANGED << head, archive, edits, touched, stale, written, compaction >>

(* _clear_transaction_unlocked: the journal first, then the staged copies. *)
Unjournal(at, next) ==
    /\ hold.at = at
    /\ journal' = NoJournal
    /\ GoTo(next)
    /\ UNCHANGED << head, archive, trace, stale, written, staged, chosen >>

Unstage ==
    /\ hold.op = "compact" /\ hold.at = "clear"
    /\ staged' = {}
    /\ Release
    /\ UNCHANGED << head, archive, trace, stale, written, journal, chosen >>

Transaction ==
    \/ Mark("staged", "staged", "histories")
    \/ ArchiveSources
    \/ Holding("compact", "histories") /\ SourcesArchived
         /\ Mark("histories", "histories", "replacements")
    \/ Shorten \/ Disturbed \/ Shortened
    \/ Mark("removed", "sources_removed", "index")
    \/ Mark("index", "committed", "committed")
    \/ hold.op = "compact" /\ Unjournal("committed", "clear")
    \/ Unstage
    \/ Caught

(***************************************************************************)
(* _recover_pending_unlocked: the first part of every mutation.            *)
(***************************************************************************)

Nothing ==
    /\ hold.at = "recover"
    /\ journal.phase = "none"
    /\ staged' = {}
    /\ IF hold.op = "undo" THEN Release ELSE GoTo("reconcile")
    /\ UNCHANGED << head, archive, trace, stale, written, journal, chosen >>

Complete ==
    /\ journal.phase = "committed"
    /\ Unjournal("recover", "recover")

RollBack ==
    /\ hold.at = "recover"
    /\ journal.phase \notin {"none", "committed"}
    /\ GoTo("restore")
    /\ UNCHANGED << head, archive, trace, stale, written, compaction >>

OnlyGone(m) == head[m] = Absent

(* A source that is gone or still our replacement is written back; any     *)
(* other text is a person's and stays.                                     *)
Ours(m) == head[m] \in {Absent, Short(m)}

Restore ==
    /\ hold.at = "restore"
    /\ Enough(Sources)
    /\ \E m \in Sources :
        /\ Ours(m)
        /\ head' = [head EXCEPT ![m] = SourceOf(m)]
    /\ UNCHANGED << archive, hold, trace, stale, written, compaction >>

Restored ==
    /\ hold.at = "restore"
    /\ ~ \E m \in Sources : Ours(m)
    /\ GoTo("unarchive")
    /\ UNCHANGED << head, archive, trace, stale, written, compaction >>

Entries == {<< s[1], s[2], "compactor" >> : s \in journal.of}

Unarchive ==
    /\ hold.at = "unarchive"
    /\ \E entry \in archive \cap Entries : archive' = archive \ {entry}
    /\ UNCHANGED << head, hold, trace, stale, written, compaction >>

Unarchived ==
    /\ archive \cap Entries = {}
    /\ Unjournal("unarchive", "recover")

Recovery ==
    \/ Nothing \/ Complete \/ RollBack
    \/ Restore \/ Restored \/ Unarchive \/ Unarchived

(* _read_journal_unlocked: a journal names each memory and its source once. *)
JournalType ==
    /\ journal.phase \in Phases
    /\ journal.phase = "none" <=> journal.of = {}
    /\ \A s, t \in journal.of : s[1] = t[1] => s = t

InitCompaction == journal = NoJournal /\ staged = {} /\ chosen = << >>

(***************************************************************************)
(* Properties.                                                             *)
(***************************************************************************)

(* A transaction ends whole: committed, with every source archived, or     *)
(* undone, with no shortened text and no archive of it left               *)
(* (_commit, _rollback_pending_unlocked).                                  *)
WholeOrUndone ==
    [][ (journal.phase # "none" /\ journal'.phase = "none") =>
        \A s \in journal.of :
            IF journal.phase = "committed"
            THEN << s[1], s[2], "compactor" >> \in archive' /\ Short(s[1]) \in written
            ELSE /\ head'[s[1]] # Short(s[1])
                 /\ head'[s[1]] = Absent => s[1] \in touched
                 /\ << s[1], s[2], "compactor" >> \notin archive'
      ]_journal
=============================================================================
