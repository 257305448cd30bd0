----------------------------- MODULE VaultFiles -----------------------------
(***************************************************************************)
(* What the mutations of memories share: the Markdown files, the history   *)
(* beside them, the Vault lock, and what happens from outside: a person    *)
(* edits a file without the lock, a process dies or a write fails.         *)
(*                                                                         *)
(* A revision is a token: one a person wrote, or the operation, request or *)
(* compaction that wrote it (the code embeds the operation's id).  The     *)
(* section of the holder of the lock is cut at each write of a file.       *)
(***************************************************************************)
EXTENDS Integers, FiniteSets, Sequences

CONSTANTS
    Mems,        \* memory identities
    Seeded,      \* memories that have a file at first
    Person,      \* revisions written by people
    Absent,      \* no such file, nobody, nothing
    Retired,     \* revisions that retract their memory
    MaxFaults,   \* how often a holder may die or fail to write
    MaxEdits     \* how often a person edits a file

ASSUME FilesAssumption ==
    /\ Seeded \subseteq Mems /\ Absent \notin Mems \cup Person
    /\ MaxFaults \in Nat /\ MaxEdits \in Nat

VARIABLES
    head,        \* Mems -> revision of the current file, or Absent
    archive,     \* <<memory, revision, writer>> of the history files
    hold,        \* the section that has the Vault lock
    stale,       \* a file changed since the holder scanned the Vault
    faults,
    edits,
    written,     \* revisions the program ever put into a head (history)
    touched      \* memories a person ever edited (history)

files == << head, archive, hold, stale, faults, edits, written, touched >>
trace == << faults, edits, touched >>

Free == [op |-> "none", on |-> Absent, at |-> "free", item |-> Absent]

Holding(op, at) == hold.op = op /\ hold.at = at

(* Vault.lock: one section at a time, over all processes. *)
Enter(op, on) ==
    /\ hold = Free
    /\ hold' = [op |-> op, on |-> on, at |-> "recover", item |-> Absent]

GoTo(at) == hold' = [hold EXCEPT !.at = at]

GoWith(item, at) == hold' = [hold EXCEPT !.at = at, !.item = item]

Release == hold' = Free

(* _revision_target_unlocked: a scan of the current files. *)
Scan == stale' = FALSE

(* _write_history: an archive that exists already is accepted as it is. *)
Archived(m, r) == archive \cup {<< m, r, "writer" >>}

InHistory(m, r) == \E by \in {"writer", "compactor"} : << m, r, by >> \in archive

(* atomic_write_text of a head, after ensure_scan_current. *)
Replace(m, r) ==
    /\ head' = [head EXCEPT ![m] = r]
    /\ written' = written \cup {r}

(***************************************************************************)
(* From outside.                                                           *)
(***************************************************************************)

(* An editor saves or deletes a memory file; it does not take the lock. *)
Edit(m) ==
    /\ edits < MaxEdits
    /\ \E r \in (Person \cup {Absent}) \ {head[m]} :
        head' = [head EXCEPT ![m] = r]
    /\ edits' = edits + 1
    /\ touched' = touched \cup {m}
    /\ stale' = (hold # Free)
    /\ UNCHANGED << archive, hold, faults, written >>

(* The process dies, or a write raises OSError: the section ends here. *)
Stop ==
    /\ hold # Free
    /\ faults < MaxFaults
    /\ faults' = faults + 1
    /\ Release
    /\ stale' = FALSE
    /\ UNCHANGED << head, archive, edits, written, touched >>

Sections == {"commit", "update", "retract", "forget", "snapshot", "compact", "undo"}

FilesType ==
    /\ DOMAIN head = Mems
    /\ \A entry \in archive : entry[1] \in Mems /\ entry[3] \in {"writer", "compactor"}
    /\ hold = Free \/ hold.op \in Sections
    /\ stale \in BOOLEAN /\ faults \in 0..MaxFaults /\ edits \in 0..MaxEdits
    /\ touched \subseteq Mems

InitFiles ==
    /\ head \in [Mems -> Person \cup {Absent}]
    /\ \A m \in Mems : (head[m] # Absent) <=> m \in Seeded
    /\ archive = {}
    /\ hold = Free
    /\ stale = FALSE
    /\ faults = 0
    /\ edits = 0
    /\ written = {}
    /\ touched = {}
=============================================================================
