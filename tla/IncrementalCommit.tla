-------------------------- MODULE IncrementalCommit --------------------------
(***************************************************************************)
(* incremental_commit.py and incremental_journal.py: the receipt of a      *)
(* commit, its frozen operations one by one, the scopes they register,     *)
(* the settlement of the source, a partial commit and the one that         *)
(* completes it.                                                           *)
(***************************************************************************)
EXTENDS VaultFiles

CONSTANTS
    Works,       \* commits of one turn, each with a receipt
    Order,       \* Works -> sequence of its own operations
    Plan,        \* operation -> [act, mem, into, scope, from]
    Parent,      \* Works -> the work it completes, or Absent
    MaxMoves     \* how often the source or the registry changes

VARIABLES
    works,       \* Works -> receipt on disk
    registry,    \* scopes registered in the configuration
    source,      \* the turn: "same", "revised" or "cleaned"
    ready,       \* the turn is due for the cleanup of the inbox
    moves

commit == << works, registry, source, ready, moves >>

Ops == DOMAIN Plan

(* A new memory gets an identity that nothing had before it; a merge goes  *)
(* into an operation that writes.                                          *)
ASSUME PlanAssumption ==
    /\ Absent \notin Ops
    /\ \A o \in Ops :
        /\ Plan[o].act \in {"CREATE", "UPDATE", "NO_CHANGE", "NO_MEMORY"}
        /\ IF Plan[o].act = "NO_MEMORY" THEN Plan[o].mem = Absent ELSE Plan[o].mem \in Mems
        /\ Plan[o].into # Absent =>
            Plan[o].into \in Ops /\ Plan[Plan[o].into].act \in {"CREATE", "UPDATE"}
        /\ Plan[o].act = "CREATE" => Plan[o].mem \notin Seeded
    /\ \A o, p \in Ops :
        Plan[o].act = "CREATE" /\ Plan[p].act = "CREATE" /\ Plan[o].mem = Plan[p].mem => o = p

(* A receipt names its operations after itself. *)
ASSUME OrderAssumption ==
    /\ Absent \notin Works
    /\ \A w \in Works :
        /\ Parent[w] \in Works \cup {Absent}
        /\ \A i \in DOMAIN Order[w] : Order[w][i] \in Ops
    /\ \A v, w \in Works : \A i \in DOMAIN Order[v], j \in DOMAIN Order[w] :
        Order[v][i] = Order[w][j] => v = w

Terminal == {"settled", "blocked", "cancelled", "deferred"}

(* A receipt that was never saved. *)
NoWork == [st |-> << >>, base |-> << >>, guard |-> {}, issues |-> FALSE,
           index |-> "current", settled |-> FALSE]

Saved(w) == works[w] # NoWork
OpsIn(w) == DOMAIN works[w].st
Writes(o) == Plan[o].act \in {"CREATE", "UPDATE"}
Retires(o) == Plan[o].into # Absent

(* public_result *)
RecoveryRequired(w) ==
    \/ \E o \in OpsIn(w) : works[w].st[o] \in {"prepared", "applied"}
    \/ works[w].index # "current"
    \/ ~ works[w].settled

Unresolved(w) == works[w].issues \/ \E o \in OpsIn(w) : works[w].st[o] # "settled"

Completed(w) == Saved(w) /\ ~ RecoveryRequired(w) /\ ~ Unresolved(w)

(* frozen_state_applied_unlocked: the head is exactly the replacement. *)
Applied(o) == head[Plan[o].mem] = o

(* applied_additions *)
Additions(w) ==
    {Plan[o].scope : o \in {p \in OpsIn(w) : works[w].st[p] \in {"applied", "settled"}}}
        \ {Absent}

SaveOp(w, o, s) == works' = [works EXCEPT ![w].st[o] = s]

UnchangedFiles == UNCHANGED << head, archive, written, trace >>

(***************************************************************************)
(* The boundary of every mutation: reconcile_applied_unlocked.             *)
(***************************************************************************)

NothingUnacknowledged(w) == {}

Unacknowledged(w) == {o \in OpsIn(w) : Writes(o) /\ works[w].st[o] = "prepared" /\ Applied(o)}

Reconcile ==
    /\ hold.at = "reconcile"
    /\ IF \E w \in Works : Unacknowledged(w) # {}
       THEN /\ \E w \in Works :
                /\ Unacknowledged(w) # {}
                /\ works' = [works EXCEPT ![w].st =
                      [o \in OpsIn(w) |-> IF o \in Unacknowledged(w) THEN "applied" ELSE @[o]]]
            /\ UNCHANGED << hold, stale >>
       ELSE GoTo("begin") /\ Scan /\ UNCHANGED works
    /\ UnchangedFiles /\ UNCHANGED << registry, source, ready, moves >>

(***************************************************************************)
(* apply_incremental: the operations are frozen against what is there now, *)
(* and the receipt is durable before the first write.                      *)
(***************************************************************************)

Own(w) == {Order[w][i] : i \in DOMAIN Order[w]}

(* cumulative_result: settled and cancelled decisions of the parent are    *)
(* carried over, and no new operation updates their memories.              *)
Inherited(w) ==
    IF Parent[w] = Absent THEN {}
    ELSE {o \in OpsIn(Parent[w]) : works[Parent[w]].st[o] \in {"settled", "cancelled"}}

SettledMems(w) == {Plan[o].mem : o \in {p \in Inherited(w) : works[Parent[w]].st[p] = "settled"}}

Proposed(w) == {o \in Own(w) : ~ (Plan[o].act = "UPDATE" /\ Plan[o].mem \in SettledMems(w))}

Frozen(w) ==
    [o \in Inherited(w) \cup Proposed(w) |->
        IF o \in Inherited(w) THEN works[Parent[w]].st[o] ELSE "prepared"]

(* What a plan may name: a current memory, or a new identity. *)
Fits(o) ==
    CASE Plan[o].act = "CREATE" ->
            head[Plan[o].mem] = Absent /\ ~ \E r \in {a[2] : a \in archive} : InHistory(Plan[o].mem, r)
      [] Plan[o].act \in {"UPDATE", "NO_CHANGE"} -> head[Plan[o].mem] # Absent
      [] OTHER -> TRUE

Apply(w) ==
    /\ Holding("commit", "begin") /\ hold.on = w
    /\ ~ Saved(w)
    /\ Parent[w] # Absent => Saved(Parent[w]) /\ ~ RecoveryRequired(Parent[w]) /\ Unresolved(Parent[w])
    /\ source = "same"
    /\ \A o \in Proposed(w) : Fits(o)
    /\ \E issues \in BOOLEAN :
        /\ Own(w) # Proposed(w) => issues
        /\ works' = [works EXCEPT ![w] =
          [st |-> Frozen(w),
           base |-> [o \in Proposed(w) |-> IF Writes(o) \/ Plan[o].act = "NO_CHANGE"
                                           THEN head[Plan[o].mem] ELSE Absent],
           guard |-> registry,
           issues |-> issues,
           index |-> IF \E o \in Proposed(w) : Writes(o) THEN "dirty" ELSE "current",
           settled |-> FALSE]]
    /\ GoTo("ops") /\ Scan
    /\ UnchangedFiles /\ UNCHANGED << registry, source, ready, moves >>

(* Same intent again: resume what is open, or report. *)
Resume(w) ==
    /\ Holding("commit", "begin") /\ hold.on = w
    /\ Saved(w)
    /\ IF RecoveryRequired(w) THEN GoTo("ops") ELSE Release
    /\ Scan
    /\ UnchangedFiles /\ UNCHANGED commit

Refuse(w) ==
    /\ Holding("commit", "begin") /\ hold.on = w
    /\ ~ Saved(w)
    /\ Release
    /\ UnchangedFiles /\ UNCHANGED << stale, commit >>

(***************************************************************************)
(* _resume_unlocked, operation by operation in the order of the receipt.   *)
(***************************************************************************)

(* bind_merges puts the retired memories behind their survivor. *)
Todo(w) == {o \in OpsIn(w) : works[w].st[o] \notin Terminal}
Next1(w, o) ==
    /\ o \in Todo(w)
    /\ Retires(o) => Plan[o].into \notin Todo(w)
    /\ \A i, j \in DOMAIN Order[w] :
        (Order[w][j] = o /\ i < j) => Order[w][i] \notin Todo(w)

AtWork(w, at) == Holding("commit", at) /\ hold.on = w

(* The loop settles an applied operation: its scope, then its receipt. *)
Wanted(o) == IF Applied(o) THEN {Plan[o].scope} \ {Absent} ELSE {}

Register(w, o) ==
    /\ AtWork(w, "ops") /\ Next1(w, o)
    /\ works[w].st[o] = "applied" \/ (Writes(o) /\ Applied(o))
    /\ Wanted(o) \ registry # {}
    /\ registry' = registry \cup Wanted(o)
    /\ UnchangedFiles /\ UNCHANGED << hold, stale, works, source, ready, moves >>

SettleOp(w, o) ==
    /\ AtWork(w, "ops") /\ Next1(w, o)
    /\ works[w].st[o] = "applied" \/ (Writes(o) /\ Applied(o))
    /\ Wanted(o) \subseteq registry
    /\ SaveOp(w, o, "settled")
    /\ UnchangedFiles /\ UNCHANGED << hold, stale, registry, source, ready, moves >>

Pending(w, o) ==
    /\ AtWork(w, "ops") /\ Next1(w, o)
    /\ works[w].st[o] = "prepared"
    /\ ~ (Writes(o) /\ Applied(o))

OnlyPeersHold(w, o) ==
    \A p \in OpsIn(w) \cap DOMAIN works[w].base :
        Plan[p].into = o => head[Plan[p].mem] = works[w].base[p]

(* Peers of a merge: the survivor is current, or the retired are as read. *)
PeersHold(w, o) ==
    /\ Retires(o) =>
        /\ works[w].st[Plan[o].into] \in {"applied", "settled"}
        /\ head[Plan[Plan[o].into].mem] = Plan[o].into
    /\ \A p \in OpsIn(w) \cap DOMAIN works[w].base :
        Plan[p].into = o => head[Plan[p].mem] = works[w].base[p]

ScopesHold(w) == registry = works[w].guard \cup Additions(w)

StillThere(w, o) == head[Plan[o].mem] # Absent

Unchanged(w, o) == head[Plan[o].mem] = works[w].base[o]

Permitted(w, o) ==
    /\ source = "same"
    /\ Plan[o].act # "NO_MEMORY" => ScopesHold(w) /\ Unchanged(w, o)
    /\ Writes(o) => PeersHold(w, o)

Block(w, o) ==
    /\ Pending(w, o)
    /\ ~ Permitted(w, o)
    /\ SaveOp(w, o, "blocked")
    /\ UnchangedFiles /\ UNCHANGED << hold, stale, registry, source, ready, moves >>

SettleRead(w, o) ==
    /\ Pending(w, o)
    /\ Permitted(w, o) /\ ~ Writes(o)
    /\ SaveOp(w, o, "settled")
    /\ UnchangedFiles /\ UNCHANGED << hold, stale, registry, source, ready, moves >>

(* write_frozen_unlocked: scan and checks, the archive, checks, the head. *)
ArchiveBase(w, o) ==
    /\ Pending(w, o)
    /\ Permitted(w, o) /\ Writes(o)
    /\ archive' = IF Plan[o].act = "UPDATE" THEN Archived(Plan[o].mem, works[w].base[o]) ELSE archive
    /\ GoWith(o, "write") /\ Scan
    /\ UNCHANGED << head, written, trace, commit >>

WriteHead(w, o) ==
    /\ AtWork(w, "write") /\ hold.item = o
    /\ IF stale
       THEN /\ SaveOp(w, o, "blocked")
            /\ GoTo("ops")
            /\ UNCHANGED << head, written >>
       ELSE /\ Replace(Plan[o].mem, o)
            /\ GoTo("wrote")
            /\ UNCHANGED works
    /\ UNCHANGED << archive, stale, trace, registry, source, ready, moves >>

Acknowledge(w, o) ==
    /\ AtWork(w, "wrote") /\ hold.item = o
    /\ SaveOp(w, o, "applied")
    /\ GoTo("ops")
    /\ UnchangedFiles /\ UNCHANGED << stale, registry, source, ready, moves >>

(* The index, then receipt_settled and the source in one save              *)
(* (_settle_source): a completed work makes the turn due for cleanup.      *)
SettleReceipt(w) ==
    /\ AtWork(w, "ops") /\ Todo(w) = {}
    /\ works' = [works EXCEPT ![w].index = "current", ![w].settled = TRUE]
    /\ ready' = (source = "same" /\ ~ Unresolved(w))
    /\ Release
    /\ UnchangedFiles /\ UNCHANGED << stale, registry, source, moves >>

Committing ==
    \/ \E w \in Works : Apply(w) \/ Resume(w) \/ Refuse(w) \/ SettleReceipt(w)
    \/ \E w \in Works : \E o \in OpsIn(w) :
        \/ Register(w, o) \/ SettleOp(w, o) \/ Block(w, o) \/ SettleRead(w, o)
        \/ ArchiveBase(w, o) \/ WriteHead(w, o) \/ Acknowledge(w, o)

(***************************************************************************)
(* Forget cancels, one receipt at a time.                                  *)
(***************************************************************************)

(* A memory carries the evidence of every operation that wrote it. *)
SourcesOf(m) == UNION {Plan[o].from : o \in {p \in Ops \cap written : Plan[p].mem = m}}

Cancels(m, w) ==
    {o \in OpsIn(w) :
        \/ Plan[o].mem = m /\ works[w].st[o] # "cancelled"
        \/ Plan[o].from \cap SourcesOf(m) # {} /\ works[w].st[o] \notin Terminal}

CancelWork(m, w) ==
    /\ Holding("forget", "cancel") /\ hold.on = m
    /\ Cancels(m, w) # {}
    /\ works' = [works EXCEPT
          ![w].st = [o \in OpsIn(w) |-> IF o \in Cancels(m, w) THEN "cancelled" ELSE @[o]],
          ![w].issues = TRUE]
    /\ UnchangedFiles /\ UNCHANGED << hold, stale, registry, source, ready, moves >>

OneCancelled(m) == \E w \in Works : Saved(w) /\ Cancels(m, w) = {}

AllCancelled(m) == \A w \in Works : Cancels(m, w) = {}

(***************************************************************************)
(* The source and the registry change between sections.                    *)
(***************************************************************************)

(* resolved_parent_ids: the work whose rest a completed work settled. *)
Resolved(w) == \E c \in Works : Parent[c] = w /\ Completed(c)

(* protected_turn_keys *)
Protected == \E w \in Works : Saved(w) /\ ~ Completed(w) /\ ~ Resolved(w)

Revise ==
    /\ hold = Free /\ source = "same" /\ moves < MaxMoves
    /\ source' = "revised" /\ ready' = FALSE
    /\ moves' = moves + 1
    /\ UnchangedFiles /\ UNCHANGED << hold, stale, works, registry >>

(* The inbox loses a turn that is due and that no receipt protects. *)
CleanUp ==
    /\ hold = Free /\ ready /\ ~ Protected
    /\ source' = "cleaned" /\ ready' = FALSE
    /\ UnchangedFiles /\ UNCHANGED << hold, stale, works, registry, moves >>

(* A person registers a scope. *)
NewScope(s) ==
    /\ hold = Free /\ moves < MaxMoves /\ s \notin registry
    /\ registry' = registry \cup {s}
    /\ moves' = moves + 1
    /\ UnchangedFiles /\ UNCHANGED << hold, stale, works, source, ready >>

(* load_work *)
WorkType(w) ==
    LET work == works[w] IN
    /\ OpsIn(w) \subseteq Ops
    /\ \A o \in OpsIn(w) : work.st[o] \in {"prepared", "applied"} \cup Terminal
    /\ DOMAIN work.base \subseteq OpsIn(w)
    /\ work.issues \in BOOLEAN /\ work.settled \in BOOLEAN
    /\ work.index \in {"dirty", "current"}

InitCommit ==
    /\ works = [w \in Works |-> NoWork]
    /\ registry = {}
    /\ source = "same"
    /\ ready = FALSE
    /\ moves = 0

(***************************************************************************)
(* Properties.                                                             *)
(***************************************************************************)

(* A receipt says of a write what happened to the file, however its commit *)
(* was interrupted: an operation whose text reached the head is not        *)
(* reported blocked (unless a person edited the memory), and none is       *)
(* reported written that was not (_resume_unlocked, public_result).        *)
ReceiptsAreTrue ==
    \A w \in Works : \A o \in {p \in OpsIn(w) : Writes(p)} :
        /\ works[w].st[o] = "blocked" => o \notin written \/ Plan[o].mem \in touched
        /\ works[w].st[o] \in {"applied", "settled"} => o \in written

(* A memory merged into another is retired only after the survivor holds   *)
(* the merged text, over crashes, blocks and Forget (merged_into).         *)
SurvivorFirst == \A o \in written \cap Ops : Retires(o) => Plan[o].into \in written
=============================================================================
