------------------------------- MODULE TurnDraft -------------------------------
(***************************************************************************)
(* What an answer of the model becomes: the context it is given, the review*)
(* of its rows, their compilation into decisions that may be written, and  *)
(* the one recovery of a turn of which a part stayed open                  *)
(* (incremental_preview, _semantics, _merge, _protocol, _recovery).        *)
(* A message is a number, the order of its observation.                    *)
(***************************************************************************)
EXTENDS Integers, Sequences, FiniteSets, FiniteSetsExt, SequencesExt, Functions

CONSTANTS
    Memories,
    Fresh,        \* messages of the turn
    Later,        \* messages of later turns, context only
    ByUser,       \* those of the user
    Worlds,       \* by name, Vault and request of the start, and what the
                  \* model and the reviewer may answer, sequences of rows
    Absent

VARIABLES
    world,
    snap,         \* PlanningSnapshot
    asked,        \* the answer as it came
    answer,       \* after its review
    vouched,      \* rows whose omissions a reviewer accounted for (history)
    spared,       \* rows a reviewer found not worth keeping (history)
    work,         \* decisions and open issues of the commit
    focus,        \* messages a recovery decides again
    phase

vars == << world, snap, asked, answer, vouched, spared, work, focus, phase >>

Here == Worlds[world]

GroupOf == [body |-> "content", status |-> "status", validity |-> "status",
            assignee |-> "responsibility"]

(***************************************************************************)
(* The context of the request (_prepare_incremental_unlocked).             *)
(***************************************************************************)

Records(w) == {m \in Memories : w.mem[m].area \in {"knowledge", "native"}}

(* A required memory of the history stands for its current head, if any. *)
Required(w) ==
    (w.need \cap Records(w))
    \cup ({w.mem[m].head : m \in {n \in w.need : w.mem[n].area = "history"}} \ {Absent})

Blocked(w) == w.later # "complete" \/ \E m \in w.need : w.mem[m].area = "none"

Snapshot(w, recalled) ==
    LET chosen == Required(w) \cup recalled IN
    [chosen |-> chosen, fresh |-> Fresh, explicit |-> w.explicit,
     writable |-> {m \in chosen : w.mem[m].area = "knowledge" /\ w.mem[m].inside}]

Init ==
    /\ world \in DOMAIN Worlds
    /\ snap = Absent /\ asked = << >> /\ answer = << >> /\ vouched = {} /\ spared = {}
    /\ work = Absent /\ focus = {} /\ phase = "new"

Prepare ==
    /\ phase = "new" /\ ~Blocked(Here) /\ phase' = "asking"
    /\ \E recalled \in SUBSET (Records(Here) \ Required(Here)) :
         /\ Cardinality(recalled) <= Max({0, Here.limit - Cardinality(Required(Here))})
         /\ snap' = Snapshot(Here, recalled)
    /\ UNCHANGED << world, asked, answer, vouched, spared, work, focus >>

(***************************************************************************)
(* Rows.                                                                   *)
(***************************************************************************)

Old(m) == Here.mem[m]
Fields(row) == DOMAIN row.patch
Retracts(row) == "validity" \in Fields(row) /\ row.patch.validity = "retracted"
Targets(row) == (IF row.on = Absent THEN {} ELSE {row.on}) \cup row.dups
NewOf(s, row) == row.ev \cap s.fresh
At(s, row) == LET users == NewOf(s, row) \cap ByUser IN
              Max(IF users # {} THEN users ELSE NewOf(s, row))

(* omissions: an old text that is no longer there *)
Omits(s, row) ==
    /\ row.act \in {"UPDATE", "MERGE"}
    /\ Retracts(row) \/ ("body" \in Fields(row) /\ row.patch.body = "cut")
    /\ \E m \in Targets(row) \cap s.chosen : Old(m).valid

WholeTurn(row) == row.act = "NO_MEMORY" /\ row.ev = {}

(* _parse_row, _review_fields *)
Unread(s, row) ==
    \/ row.act = "MERGE" \/ row.shape # "plain"
    \/ row.act = "NO_MEMORY" /\ s.explicit
    \/ ~WholeTurn(row) /\ NewOf(s, row) = {}
    \/ row.act \in {"UPDATE", "NO_CHANGE"} /\ row.on \notin s.chosen
    \/ row.act = "UPDATE" /\ row.on \notin s.writable
    \/ row.act \in {"CREATE", "UPDATE"} /\ Fields(row) = {}
    \/ "assignee" \in Fields(row) /\ row.proof # "shown"

(***************************************************************************)
(* Merges (incremental_merge.py): one row becomes an update of each member.*)
(***************************************************************************)

Mergeable(s, row, claimed) ==
    /\ row.shape # "odd" /\ row.dups # {} /\ row.on \notin row.dups
    /\ "body" \in Fields(row) /\ ~Retracts(row)
    /\ Targets(row) \cap claimed = {} /\ Targets(row) \subseteq s.writable
    /\ \A m \in Targets(row) : Old(m).valid /\ Old(m).kind = Old(row.on).kind

Retiring(row, m) ==
    [row EXCEPT !.act = "UPDATE", !.on = m, !.dups = {}, !.proof = "none",
                !.shape = IF @ = "bare" THEN @ ELSE "plain",
                !.patch = [validity |-> "retracted", body |-> "note"]]

Expand(s, rows) ==
    LET one(acc, row) ==
          IF row.act = "MERGE" /\ Mergeable(s, row, acc.claimed)
          THEN [rows |-> acc.rows \o << [row EXCEPT !.act = "UPDATE", !.dups = {}] >>
                         \o [i \in 1..Cardinality(row.dups) |-> Retiring(row, SetToSeq(row.dups)[i])],
                groups |-> Append(acc.groups, << row.on, row.dups >>),
                claimed |-> acc.claimed \cup Targets(row)]
          ELSE [acc EXCEPT !.rows = Append(@, row)] IN
    FoldLeft(one, [rows |-> << >>, groups |-> << >>, claimed |-> {}], rows)

(***************************************************************************)
(* Compilation (compile_incremental, _compile_group).                      *)
(***************************************************************************)

Issue(row, ev) == [row |-> row, ev |-> ev]
Located(row) == IF row.shape = "bare" THEN {} ELSE row.ev
Op(row, s) == [act |-> row.act, on |-> row.on, ev |-> IF WholeTurn(row) THEN s.fresh ELSE row.ev,
               says |-> {row.says}, patch |-> row.patch, from |-> {}, into |-> Absent]

Older(s, row, field) ==
    row.on # Absent /\ Old(row.on).seen[GroupOf[field]] > At(s, row)

NotLater(s, row, field) ==
    LET seen == Old(row.on).seen[GroupOf[field]] IN seen # 0 /\ seen >= At(s, row)

Refused(s, rows) ==
    \/ \E a, b \in rows : \E f \in Fields(a) \cap Fields(b) : a.patch[f] # b.patch[f]
    \/ \E row \in rows : \E f \in Fields(row) : Older(s, row, f)
    \/ \E row \in rows : row.act = "UPDATE" /\ "status" \in Fields(row) /\ row.patch.status = "active"
                         /\ Old(row.on).status = "completed" /\ NotLater(s, row, "status")
    \/ \E row \in rows : row.act = "UPDATE" /\ ~Old(row.on).valid
                         /\ ~(\E a, b \in rows : /\ "validity" \in Fields(a) /\ a.patch.validity = "valid"
                                                 /\ "body" \in Fields(b) /\ ~NotLater(s, a, "validity"))

Bind(acc, group) ==
    LET members == {group[1]} \cup group[2]
        updated == {acc.ops[i].on : i \in {j \in DOMAIN acc.ops : acc.ops[j].act = "UPDATE"}} IN
    IF members \subseteq updated
    THEN [acc EXCEPT !.ops = [i \in DOMAIN @ |->
              IF @[i].act # "UPDATE" THEN @[i]
              ELSE IF @[i].on = group[1] THEN [@[i] EXCEPT !.from = group[2]]
              ELSE IF @[i].on \in group[2] THEN [@[i] EXCEPT !.into = group[1]] ELSE @[i]]]
    ELSE [ops |-> SelectSeq(acc.ops, LAMBDA op : op.on \notin members),
          issues |-> acc.issues \cup {Issue(0, {})}]

Bad(s, rows) == {i \in DOMAIN rows : Unread(s, rows[i])}
SameTarget(rows, bad, i) ==
    IF rows[i].on = Absent THEN {i} ELSE {j \in DOMAIN rows \ bad : rows[j].on = rows[i].on}
Writing(rows, same) == {j \in same : rows[j].act \in {"CREATE", "UPDATE"}}

Failed(s, rows, bad) ==
    bad \cup {i \in DOMAIN rows \ bad :
                 \/ rows[i].on \in {rows[j].on : j \in bad} \cap s.chosen
                 \/ Refused(s, {rows[j] : j \in Writing(rows, SameTarget(rows, bad, i))})}

(* The rows of one memory make one decision. *)
Whole(s, rows, same, writes) ==
    [Op(rows[Min(writes)], s) EXCEPT
        !.ev = UNION {rows[j].ev : j \in same}, !.says = {rows[j].says : j \in same},
        !.patch = [f \in UNION {Fields(rows[j]) : j \in writes} |->
                     rows[CHOOSE j \in writes : f \in Fields(rows[j])].patch[f]]]

OpsOf(s, rows, failed, i, same) ==
    IF i \in failed \/ (Writing(rows, same) # {} /\ i # Min(same)) THEN << >>
    ELSE IF Writing(rows, same) = {} THEN << Op(rows[i], s) >>
    ELSE << Whole(s, rows, same, Writing(rows, same)) >>

Draft(s, rows, groups, bad, failed) ==
    FoldLeft(Bind,
             [ops |-> FlattenSeq([i \in DOMAIN rows |-> OpsOf(s, rows, failed, i, SameTarget(rows, bad, i))]),
              issues |-> {Issue(i, Located(rows[i])) : i \in failed}],
             groups)

(* What a merge takes over comes last, and a whole turn without memory     *)
(* stands alone.                                                           *)
Ordered(s, draft, single) ==
    LET last == SelectSeq(draft.ops, LAMBDA op : op.into # Absent)
        ops == SelectSeq(draft.ops, LAMBDA op : op.into = Absent) \o last IN
    IF single \/ \A op \in Range(draft.ops) : op.act # "NO_MEMORY"
    THEN [draft EXCEPT !.ops = ops]
    ELSE [ops |-> SelectSeq(ops, LAMBDA op : op.act # "NO_MEMORY"),
          issues |-> draft.issues \cup {Issue(0, s.fresh)}]

(* No message of the turn is left without a decision or an issue. *)
Closed(s, draft) ==
    IF draft = [ops |-> << >>, issues |-> {}] THEN [draft EXCEPT !.issues = {Issue(0, s.fresh)}]
    ELSE IF \A x \in draft.issues : x.ev # {} THEN draft
    ELSE [draft EXCEPT !.issues = @ \cup {Issue(0, {e}) : e \in s.fresh \
              (UNION {op.ev : op \in Range(draft.ops)} \cup UNION {x.ev : x \in @})}]

Compiled(s, rows, groups, bad) ==
    Closed(s, Ordered(s, Draft(s, rows, groups, bad, Failed(s, rows, bad)), Len(rows) = 1))
Read(s, expanded) == Compiled(s, expanded.rows, expanded.groups, Bad(s, expanded.rows))
Compile(s, answered) == Read(s, Expand(s, answered))

(***************************************************************************)
(* Review (incremental_semantics.py, body_preservation.py).                *)
(***************************************************************************)

NeedsReview(s, rows) ==
    LET updated == {op.on : op \in {o \in Range(Compile(s, rows).ops) : o.act = "UPDATE"}}
        acts == {row.act : row \in Range(rows)} IN
    \/ "MERGE" \in acts \/ {"UPDATE", "NO_CHANGE"} \subseteq acts
    \/ \E row \in Range(rows) : \/ row.on \in updated /\ Omits(s, row)
                                \/ {"assignee", "status"} \cap Fields(row) # {}

Deferred(row) == [row EXCEPT !.act = "DEFERRED", !.on = Absent, !.dups = {}, !.patch = << >>]
AllDeferred(s) == [act |-> "DEFERRED", on |-> Absent, dups |-> {}, ev |-> s.fresh, patch |-> << >>,
                   proof |-> "none", shape |-> "plain", says |-> "all"]
NoMemory == [act |-> "NO_MEMORY", on |-> Absent, dups |-> {}, ev |-> {}, patch |-> << >>,
             proof |-> "none", shape |-> "plain", says |-> "none"]

Control == {"NO_CHANGE", "NO_MEMORY", "DEFERRED"}

(* What a reviewer may say of a row. *)
Verdicts(s, row) ==
    {"keep"} \cup (IF row.act \in Control THEN {} ELSE {"drop"})
    \cup (IF Omits(s, row) THEN {"cover"} ELSE {})
    \cup (IF Omits(s, row) /\ ~Retracts(row) THEN {"restore"} ELSE {})
    \cup (IF row.act \in {"UPDATE", "NO_CHANGE"} /\ row.on \in s.writable THEN {"replace"} ELSE {})
    \cup (IF "status" \in Fields(row) THEN {"strip"} ELSE {})

Without(f, S) == [k \in DOMAIN f \ S |-> f[k]]

(* The row after its decision, its citations and its omissions. *)
Corrected(row, verdict) ==
    CASE verdict = "restore" -> [row EXCEPT !.patch.body = "kept"]
      [] verdict = "replace" -> [row EXCEPT !.act = "UPDATE", !.patch = [body |-> "kept"], !.shape = "plain",
                                            !.ev = @ \cup Fresh]
      [] verdict = "strip" -> [row EXCEPT !.patch = Without(@, {"status"})]
      [] OTHER -> row

Uncited(row) == "assignee" \in Fields(row) /\ row.proof = "none"

Judged(s, row, verdict) ==
    LET now == Corrected(row, verdict)
        cited == IF Uncited(now) THEN [now EXCEPT !.patch = Without(@, {"assignee"})] ELSE now IN
    IF now.act \in Control THEN now
    ELSE IF verdict = "drop" THEN Absent
    ELSE IF now.act = "UPDATE" /\ Uncited(now) THEN Deferred(now)
    ELSE IF Fields(cited) = {} \/ (Omits(s, cited) /\ verdict # "cover") THEN Absent
    ELSE cited

(* Mutant: a rejected change is dropped like a fact not worth keeping. *)
RejectedNever(s, row) == s.explicit

Rejected(s, row) == row.act \in {"UPDATE", "MERGE"} \/ s.explicit

Replaced(row, rows) ==
    row.act = "UPDATE" /\ \E other \in rows : /\ other.act = "UPDATE" /\ other.on = row.on
                                              /\ row.ev \subseteq other.ev /\ Fields(row) \subseteq Fields(other)

(* apply_review: verdicts, then the updates the reviewer adds *)
Reviewed(s, rows, verdict, added) ==
    LET judged == [i \in DOMAIN rows |-> Judged(s, rows[i], verdict[i])]
        kept == SelectSeq(judged, LAMBDA row : row # Absent)
        used == {row.on : row \in Range(kept)}
        fit == /\ added # Absent /\ added.on \in s.writable /\ NewOf(s, added) # {}
               /\ added.on \notin used /\ ~Uncited(added)
        more == IF added = Absent THEN << >>
                ELSE IF ~fit THEN << AllDeferred(s) >>
                ELSE IF Omits(s, added) THEN << >> ELSE << added >>
        lost == SelectSeq([i \in DOMAIN rows |-> IF judged[i] = Absent THEN Corrected(rows[i], verdict[i]) ELSE NoMemory],
                          LAMBDA row : row # NoMemory /\ Rejected(s, row))
                \o (IF fit /\ Omits(s, added) THEN << added >> ELSE << >>)
        open == SelectSeq(lost, LAMBDA row : ~Replaced(row, Range(kept \o more)))
        all == kept \o more \o [i \in DOMAIN open |-> Deferred(open[i])] IN
    IF all # << >> THEN all
    ELSE IF s.explicit THEN << AllDeferred(s) >> ELSE << NoMemory >>

(* The answer, of the turn or of a recovery. *)
Ask ==
    /\ phase \in {"asking", "replanning"}
    /\ \E rows \in IF phase = "asking" THEN Here.drafts ELSE Here.redrafts :
         /\ asked' = asked \o rows
         /\ answer' = rows
         /\ phase' = IF phase = "asking"
                     THEN IF NeedsReview(snap, rows) THEN "reviewing" ELSE "answered"
                     ELSE IF NeedsReview(snap, rows) THEN "rereviewing" ELSE "reanswered"
    /\ UNCHANGED << world, snap, vouched, spared, work, focus >>

Review ==
    /\ phase \in {"reviewing", "rereviewing"}
    /\ phase' = IF phase = "reviewing" THEN "answered" ELSE "reanswered"
    /\ \E verdict \in [DOMAIN answer -> UNION {Verdicts(snap, row) : row \in Range(answer)}],
          added \in Here.additions \cup {Absent} :
         /\ \A i \in DOMAIN answer : verdict[i] \in Verdicts(snap, answer[i])
         /\ answer' = Reviewed(snap, answer, verdict, added)
         /\ vouched' = vouched \cup {answer[i].says : i \in {j \in DOMAIN answer : verdict[j] = "cover"}}
         /\ spared' = spared \cup {answer[i].says : i \in {j \in DOMAIN answer :
                           answer[j].act = "CREATE" /\ Judged(snap, answer[j], verdict[j]) = Absent}}
    /\ UNCHANGED << world, snap, asked, work, focus >>

(***************************************************************************)
(* The commit, of which each decision is settled or blocked.               *)
(***************************************************************************)

Settled(w) == {op \in Range(w.ops) : op.state = "settled"}
SettledRefs(w) == UNION {op.ev : op \in Settled(w)}
SettledIds(w) == {op.on : op \in Settled(w)} \ {Absent}
Completed(w) == w.issues = {} /\ \A op \in Range(w.ops) : op.state = "settled"

(* A decision meets a memory that changed since it was read, or its group. *)
StateOf(op, ops, edited) ==
    LET group == {op.on, op.into} \cup op.from
                 \cup UNION {x.from : x \in {y \in Range(ops) : y.on = op.into}} IN
    IF op.act = "DEFERRED" THEN "deferred"
    ELSE IF op.act \in {"UPDATE", "NO_CHANGE"} /\ group \cap edited # {} THEN "blocked" ELSE "settled"

Decided(ops, edited) ==
    [i \in DOMAIN ops |-> [act |-> ops[i].act, on |-> ops[i].on, ev |-> ops[i].ev, says |-> ops[i].says,
                           patch |-> ops[i].patch, from |-> ops[i].from, into |-> ops[i].into,
                           state |-> StateOf(ops[i], ops, edited)]]

Commit ==
    /\ phase = "answered" /\ phase' = "committed"
    /\ \E edited \in {{}} \cup {{m} : m \in snap.writable \cap Here.edits} :
         LET result == Compile(snap, answer) IN
         /\ work' = [ops |-> Decided(result.ops, edited), issues |-> result.issues,
                     edited |-> edited, rows |-> answer]
    /\ UNCHANGED << world, snap, asked, answer, vouched, spared, focus >>

(***************************************************************************)
(* Recovery (incremental_partial.py, incremental_recovery.py).             *)
(***************************************************************************)

Unresolved ==
    snap.fresh \cap (UNION {x.ev : x \in work.issues}
                     \cup UNION {op.ev : op \in Range(work.ops) \ Settled(work)})

IssueRows == {x.row : x \in work.issues}

(* isolated_focus: a group of rows is decided again as a whole or not *)
Isolated ==
    LET free == Unresolved \ SettledRefs(work)
        key(i) == IF work.rows[i].on \in snap.chosen THEN work.rows[i].on ELSE i
        open == {i \in DOMAIN work.rows : \/ i \in IssueRows \/ work.rows[i].act = "DEFERRED"
                                          \/ work.rows[i].ev \cap free # {}}
        refs(k) == UNION {work.rows[i].ev \cap Fresh : i \in {j \in open : key(j) = k}}
        split(S) == UNION {refs(k) : k \in {key(i) : i \in {j \in open :
                               refs(key(j)) \cap S # {} /\ refs(key(j)) \ S # {}}}}
        reduce[n \in 0..Cardinality(Fresh)] == IF n = 0 THEN free ELSE reduce[n - 1] \ split(reduce[n - 1]) IN
    reduce[Cardinality(Fresh)]

(* recovery_snapshot: what is settled is read only *)
Narrowed(refs) == [snap EXCEPT !.fresh = refs, !.writable = @ \ SettledIds(work)]

(* cumulative_result *)
Selected(x, refs) == LET mine == x.ev \cap Fresh IN mine # {} /\ mine \subseteq refs

Cumulative(result, refs, repaired) ==
    LET again(op) == \/ op.act = "NO_MEMORY" /\ SettledRefs(work) \cap op.ev # {}
                     \/ op.act = "UPDATE" /\ op.on \in SettledIds(work)
        proposals == SelectSeq(result.ops, LAMBDA op : ~again(op)) IN
    [work EXCEPT
        !.ops = SelectSeq(@, LAMBDA op : op.state = "settled" \/ ~Selected(op, refs))
                \o Decided(proposals, {}),
        !.issues = {x \in @ : ~Selected(x, refs) /\ x.row \notin repaired} \cup result.issues
                   \cup {Issue(0, op.ev) : op \in {o \in Range(result.ops) : again(o)}}]

(* normalized_rows: the rows of the answer that an issue names, their      *)
(* containers put right                                                    *)
RepairRows ==
    {i \in DOMAIN work.rows :
        \/ i \in IssueRows \/ work.rows[i].act = "DEFERRED"
        \/ \E op \in Range(work.ops) : op.state = "blocked" /\ op.on # Absent /\ op.on = work.rows[i].on}

Repaired ==
    LET indices == SetToSortSeq(RepairRows, LAMBDA a, b : a < b) IN
    [i \in DOMAIN indices |->
        [work.rows[indices[i]] EXCEPT !.shape = IF @ \in {"bare", "boxed"} THEN "plain" ELSE @]]

(* defer_unreviewed *)
Unreviewed(s, rows) ==
    [i \in DOMAIN rows |-> IF Omits(s, rows[i]) /\ Compile(s, << rows[i] >>).issues = {}
                           THEN Deferred(rows[i]) ELSE rows[i]]

Repair ==
    /\ phase = "committed" /\ ~Completed(work) /\ work.edited = {} /\ Unresolved # {}
    /\ \E i \in RepairRows : work.rows[i].shape \in {"bare", "boxed"}
    /\ LET s == Narrowed(Unresolved)
           result == Compile(s, Unreviewed(s, Repaired)) IN
       /\ \E op \in Range(Cumulative(Compile(s, Repaired), Unresolved, RepairRows).ops) :
            op \notin Range(work.ops) /\ op.act # "DEFERRED"
       /\ work' = Cumulative(result, Unresolved, RepairRows)
       /\ focus' = Unresolved
    /\ phase' = "repaired"
    /\ UNCHANGED << world, snap, asked, answer, vouched, spared >>

(* A new plan needs a context that changed: the blocked memory, or another.*)
Replan ==
    /\ phase = "committed" /\ ~Completed(work) /\ Isolated # {}
    /\ Here.redrafts # {} /\ (work.edited # {} \/ snap.chosen # Records(Here))
    /\ focus' = Isolated
    /\ snap' = [Narrowed(Isolated) EXCEPT !.chosen = @ \cup Records(Here)]
    /\ phase' = "replanning"
    /\ UNCHANGED << world, asked, answer, vouched, spared, work >>

Recommit ==
    /\ phase = "reanswered" /\ phase' = "replanned"
    /\ work' = Cumulative(Compile(snap, answer), focus, {})
    /\ UNCHANGED << world, snap, asked, answer, vouched, spared, focus >>

Next == Prepare \/ Ask \/ Review \/ Commit \/ Repair \/ Replan \/ Recommit

(***************************************************************************)
(* Properties.                                                             *)
(***************************************************************************)

Has == work # Absent

(* "A merge is one decision": the memory that stays comes first, and what  *)
(* it takes over is retired with it or not at all.                         *)
MergesWhole ==
    Has => \A i \in DOMAIN work.ops :
        /\ \A m \in work.ops[i].from : \E j \in DOMAIN work.ops :
             j > i /\ work.ops[j].on = m /\ work.ops[j].into = work.ops[i].on
                   /\ work.ops[j].state = work.ops[i].state
        /\ work.ops[i].into # Absent =>
             \E j \in 1..(i - 1) : work.ops[j].on = work.ops[i].into /\ work.ops[i].on \in work.ops[j].from

Writes == {i \in DOMAIN work.ops : work.ops[i].act = "UPDATE" /\ work.ops[i].state = "settled"}

(* A memory is changed at most once for a turn, if it may be, for a reason *)
(* the turn gives, and never by what was observed earlier.                 *)
Rightful ==
    Has => \A i \in Writes :
        LET op == work.ops[i] IN
        /\ Here.mem[op.on].area = "knowledge" /\ Here.mem[op.on].inside
        /\ op.ev \cap Fresh # {}
        /\ \A f \in DOMAIN op.patch : Here.mem[op.on].seen[GroupOf[f]] <= Max(op.ev \cap Fresh)
        /\ \A j \in Writes : work.ops[j].on = op.on => i = j

(* "Core checks that every omission has a real, source-bound disposition." *)
ProseIsKept ==
    Has => \A i \in Writes :
        LET op == work.ops[i]
            merged == op.into # Absent /\ \E j \in Writes : work.ops[j].on = op.into /\ work.ops[j].patch.body = "kept" IN
        \/ ~("validity" \in DOMAIN op.patch /\ op.patch.validity = "retracted")
             /\ ~("body" \in DOMAIN op.patch /\ op.patch.body = "cut")
        \/ ~Old(op.on).valid \/ merged \/ op.says \cap vouched # {}

(* A turn that is complete accounts for every row the model answered: it   *)
(* is settled, or replaced, or planned again, or a new fact that the       *)
(* review found not worth keeping.                                         *)
Accounted(row) ==
    \/ row.act = "NO_MEMORY"
    \/ \E op \in Settled(work) : \/ row.says \in op.says
                                 \/ row.act \in {"UPDATE", "NO_CHANGE"} /\ op.act = "UPDATE" /\ op.on = row.on
    \/ row.says \in spared
    \/ phase = "replanned" /\ NewOf([fresh |-> Fresh], row) # {} /\ NewOf([fresh |-> Fresh], row) \subseteq focus

NothingSilent == Has /\ Completed(work) => \A row \in Range(asked) : Accounted(row)

(* A merge moves the rows that follow it: a recovery then takes others for *)
(* those an issue names.                                                   *)
Shifted == phase = "repaired" /\ \E row \in Range(work.rows) : row.act = "MERGE"

(* What is settled stays, and is not decided again. *)
SettledStays == Has => Settled(work) \subseteq Settled(work')

DraftHolds ==
    [][(MergesWhole /\ Rightful /\ ProseIsKept /\ (NothingSilent \/ Shifted))' /\ SettledStays]_vars

Spec == Init /\ [][Next]_vars
=============================================================================
