---------------------------- MODULE HostProposal ----------------------------
(***************************************************************************)
(* What the host's agent may change in one work (host_v2_proposal.py and   *)
(* the calls of host_v2.py that lead to it): it reads pages of a snapshot, *)
(* proposes items with quotes of the visible messages, and the compiler    *)
(* turns each into frozen replacements or refuses it.  How a group is then *)
(* written in spite of crashes is HostWork; here it is written at once.    *)
(* A message and a body are sequences of words, FragmentLength words of a  *)
(* body make a fragment.  A memory an item creates has the item's name.    *)
(***************************************************************************)
EXTENDS Naturals, Sequences, FiniteSets, SequencesExt, FiniteSetsExt

CONSTANTS
    Mems,       \* memories, native ones and the names of items included
    Worlds,     \* name -> what the work is about and what its agent proposes
    None

VARIABLES
    mem,        \* the head of each memory, native ones included, or None
    config,     \* version of config.json
    work,
    cursors,    \* pages of targets the agent may continue
    world,
    shown,      \* <<memory, head, fragment>> given to the agent (history)
    edits,      \* changes made by a person
    fresh,      \* nothing was written since the last refresh (history)
    vain        \* why a call asked for a refresh that cannot help (history)

vars == << mem, config, work, cursors, world, shown, edits, fresh, vain >>
outside == << mem, config, world, edits >>

FragmentLength == 2
PageLength == 2
BodyLimit == 6

W == Worlds[world]
ActionFields == {"status", "assignee", "due_date", "completed_at"}
Nullable == {"assignee", "due_date", "completed_at"}
Scalars == {"type", "title", "status", "actionable"} \cup Nullable
Settled == {"saved", "unchanged", "not_recorded", "cancelled"}
Role(s) == W.sources[s].role
Natives == {m \in W.native : mem[m] # None}

(***************************************************************************)
(* Evidence and fields.                                                    *)
(***************************************************************************)

Occurrences(b) == {k \in 1..Len(W.sources[b.source].text) : W.sources[b.source].text[k] = b.quote}

Quoted(b) ==
    /\ b.source \in DOMAIN W.sources
    /\ IF b.occurrence = None THEN Cardinality(Occurrences(b)) = 1
       ELSE b.occurrence \in 1..Cardinality(Occurrences(b))

Roles(quotes) == {Role(b.source) : b \in quotes}

Evidence(quotes, user, assertion) ==
    /\ quotes # {}
    /\ \A b \in quotes : Quoted(b)
    /\ user => "user" \in Roles(quotes)
    /\ assertion # None =>
        (IF assertion = "assistant_report" THEN "assistant" ELSE "user") \in Roles(quotes)

ScopesGranted(scopes) == scopes # {} /\ scopes \subseteq W.writeScopes

Fields(fields, required) ==
    /\ DOMAIN fields # {} /\ required \subseteq DOMAIN fields
    /\ \A n \in DOMAIN fields : fields[n] = None => n \in Nullable
    /\ "scopes" \in DOMAIN fields => ScopesGranted(fields["scopes"])

(* selected_calendar: a relative day needs a time the host vouches for. *)
Day(b) == IF b.quote \in DOMAIN W.days THEN W.days[b.quote]
          ELSE IF b.quote = "tomorrow" /\ W.sources[b.source].time # None
               THEN W.sources[b.source].time + 1
          ELSE None

SelectedFor(item, n, quotes) == IF n \in DOMAIN item.basis THEN item.basis[n] ELSE quotes

FieldBasis(item, fields, quotes, user) ==
    /\ DOMAIN item.basis \subseteq DOMAIN fields
    /\ \A n \in DOMAIN item.basis : Evidence(item.basis[n], user, item.assertion)
    /\ \A n \in DOMAIN fields :
        LET selected == SelectedFor(item, n, quotes) IN
        /\ user => "user" \in Roles(selected)
        /\ n \in {"assignee", "completed_at"} /\ fields[n] # None =>
            \/ n = "assignee" /\ fields[n] = "user" /\ "user" \in Roles(selected)
            \/ \E b \in selected : b.quote = fields[n]
        /\ n = "due_date" /\ fields[n] # None => \E b \in selected : Day(b) = fields[n]

BasisQuotes(item) == UNION {item.basis[n] : n \in DOMAIN item.basis}

Actionable(value) == value.type = "todo" \/ value.actionable

TaskState(value, before, fields, transition, quotes) ==
    /\ Actionable(value) => value.status # None
    /\ ~Actionable(value) =>
        \A n \in ActionFields : IF before = None THEN value[n] = None
                                ELSE n \in DOMAIN fields => fields[n] = None
    /\ IF before # None /\ before.status \in {"completed", "cancelled"} /\ value.status = "active"
       THEN transition = "reopen" /\ "user" \in Roles(quotes)
       ELSE transition # "reopen"
    /\ value.completed_at # None => value.status = "completed"

With(value, fields) == [n \in DOMAIN value |-> IF n \in DOMAIN fields THEN fields[n] ELSE value[n]]

(***************************************************************************)
(* Targets of the snapshot, and how much of them was read.                 *)
(***************************************************************************)

FragmentsOf(body) == 1..((Len(body) + FragmentLength - 1) \div FragmentLength)
Positions(body, f) == {k \in 1..Len(body) : (k - 1) \div FragmentLength = f - 1}

WritableTarget(m) ==
    /\ m \notin W.native /\ ScopesGranted(work.targets[m].scopes)
    /\ work.targets[m].merged_into = None

Target(m, write) ==
    /\ work.targets[m] # None /\ m \in work.fields
    /\ write => WritableTarget(m)

(* _full_fragments *)
FullyRead(m) == FragmentsOf(work.targets[m].body) \subseteq work.fragments[m]

Change(m, before, after) == [memory |-> m, before |-> before, after |-> after]

Plan(changes, quotes, refs, mems, ranges) ==
    [changes |-> changes, refs |-> refs \cup {b.source : b \in quotes}, quotes |-> quotes,
     mems |-> mems, ranges |-> ranges]
NoPlan == Plan(<< >>, {}, {}, {}, {})

(***************************************************************************)
(* Patches of a body.                                                      *)
(***************************************************************************)

Anchors(p, body) == {k \in Positions(body, p.fragment) : body[k] = p.old}
Edits(item) == {k \in 1..Len(item.patches) : item.patches[k].op # "append"}
Replaced(item, body) == UNION {Anchors(item.patches[k], body) : k \in Edits(item)}

PatchQuotes(item) == UNION {item.patches[k].evidence : k \in 1..Len(item.patches)}

(* Mutant: a fragment the agent has not read. *)
AnchoredUnread(item, m) ==
    LET body == work.targets[m].body IN
    \A k \in Edits(item) : Cardinality(Anchors(item.patches[k], body)) = 1

Anchored(item, m) ==
    LET body == work.targets[m].body IN
    \A k \in Edits(item) :
        /\ item.patches[k].fragment \in work.fragments[m]
        /\ Cardinality(Anchors(item.patches[k], body)) = 1

NoOverlap(item, body) ==
    \A j, k \in Edits(item) :
        j # k => Anchors(item.patches[j], body) \cap Anchors(item.patches[k], body) = {}

(* The ranges removed by this work, and now, must not be the whole body. *)
RemovedRanges(item, m) == work.removed[m] \cup Replaced(item, work.targets[m].body)

PartOnly(item, m) ==
    LET body == work.targets[m].body IN
    /\ work.removed[m] \subseteq 1..Len(body)
    /\ RemovedRanges(item, m) # {} => RemovedRanges(item, m) # 1..Len(body)

PatchedBody(item, body) ==
    LET patchAt(k) == {j \in Edits(item) : k \in Anchors(item.patches[j], body)}
        piece(k) == IF patchAt(k) = {} THEN << body[k] >>
                    ELSE LET p == item.patches[CHOOSE j \in patchAt(k) : TRUE] IN
                         IF p.op = "retract" THEN << >> ELSE << p.new >>
        appended == SelectSeq(item.patches, LAMBDA p : p.op = "append")
    IN FlattenSeq([k \in 1..Len(body) |-> piece(k)]) \o [k \in 1..Len(appended) |-> appended[k].new]

PatchBody(item, m) ==
    LET body == work.targets[m].body  new == PatchedBody(item, body) IN
    /\ \A k \in 1..Len(item.patches) :
        Evidence(item.patches[k].evidence, item.patches[k].op = "retract", item.assertion)
    /\ Anchored(item, m) /\ NoOverlap(item, body) /\ PartOnly(item, m)
    /\ new # << >> /\ (Len(new) > BodyLimit => Len(new) <= Len(body))

(***************************************************************************)
(* compile_item: per action, whether it is admitted and what it becomes.   *)
(***************************************************************************)

Blank == [type |-> "fact", title |-> "", body |-> << >>, scopes |-> {}, status |-> None,
          actionable |-> FALSE, assignee |-> None, due_date |-> None, completed_at |-> None,
          validity |-> "valid", merged_into |-> None, explicit |-> FALSE]

NewMemory(item) == [With(Blank, item.fields) EXCEPT !.explicit = W.purpose = "explicit"]

CreateAdmitted(item) ==
    /\ Evidence(item.evidence, FALSE, item.assertion) /\ item.assertion # None
    /\ Fields(item.fields, {"type", "title", "body", "scopes"})
    /\ TaskState(NewMemory(item), None, item.fields, "normal", item.evidence)
    /\ FieldBasis(item, item.fields, item.evidence, FALSE)

CreatePlan(i, item) ==
    Plan(<< Change(i, None, NewMemory(item)) >>, item.evidence \cup BasisQuotes(item), {}, {i}, {})

UpdateQuotes(item) == item.evidence \cup PatchQuotes(item) \cup BasisQuotes(item)

PatchFields(item, m) ==
    IF item.patches = << >> THEN item.fields
    ELSE With([n \in DOMAIN item.fields \cup {"body"} |-> << >>], item.fields)
PatchValue(item, m) ==
    LET value == With(work.targets[m], item.fields) IN
    IF item.patches = << >> THEN value
    ELSE [value EXCEPT !.body = PatchedBody(item, work.targets[m].body)]

PatchAdmitted(item) ==
    LET m == item.target  quotes == UpdateQuotes(item) IN
    /\ Evidence(item.evidence, FALSE, item.assertion) /\ item.assertion # None
    /\ Target(m, TRUE) /\ work.targets[m].validity = "valid"
    /\ DOMAIN item.fields # {} => Fields(item.fields, {})
    /\ DOMAIN item.fields # {} \/ item.patches # << >>
    /\ item.patches # << >> => PatchBody(item, m)
    /\ FieldBasis(item, PatchFields(item, m), quotes, FALSE)
    /\ TaskState(PatchValue(item, m), work.targets[m], PatchFields(item, m), item.transition, quotes)

PatchPlan(item) ==
    LET m == item.target IN
    Plan(<< Change(m, work.targets[m], PatchValue(item, m)) >>, UpdateQuotes(item), {}, {m},
         Replaced(item, work.targets[m].body))

RetractAdmitted(item) ==
    /\ Evidence(item.evidence, TRUE, None)
    /\ Target(item.target, TRUE) /\ work.targets[item.target].validity = "valid"

RetractPlan(item) ==
    LET before == work.targets[item.target] IN
    Plan(<< Change(item.target, before, [before EXCEPT !.body = << >>, !.validity = "retracted"]) >>,
         item.evidence, {}, {item.target}, {})

RestoreValue(item) ==
    [With(work.targets[item.target], item.fields) EXCEPT !.body = item.body, !.validity = "valid"]

RestoreAdmitted(item) ==
    /\ Evidence(item.evidence, TRUE, None)
    /\ Target(item.target, TRUE)
    /\ work.targets[item.target].validity = "retracted" /\ item.body # << >>
    /\ work.targets[item.target].merged_into = None
    /\ DOMAIN item.fields # {} => Fields(item.fields, {})
    /\ FieldBasis(item, item.fields, item.evidence, TRUE)
    /\ TaskState(RestoreValue(item), work.targets[item.target], item.fields, "normal", item.evidence)

RestorePlan(item) ==
    Plan(<< Change(item.target, work.targets[item.target], RestoreValue(item)) >>,
         item.evidence, {}, {item.target}, {})

(* A merge keeps every body, and asks the user where scalars differ. *)
Participants(item) == << item.target >> \o item.duplicates
Values(item, n) == {work.targets[m][n] : m \in ToSet(Participants(item))}
Conflicts(item) == {n \in Scalars : Cardinality(Values(item, n)) > 1}

Resolutions(item) ==
    /\ {r.field : r \in item.resolutions} = Conflicts(item)
    /\ Cardinality(item.resolutions) = Cardinality(Conflicts(item))
    /\ \A r \in item.resolutions :
        r.keep \in ToSet(Participants(item)) /\ Evidence(r.evidence, TRUE, None)

Resolved(item, n) ==
    LET row == CHOOSE r \in item.resolutions : r.field = n IN work.targets[row.keep][n]

DistinctBodies(item) ==
    LET bodies == [k \in 1..Len(Participants(item)) |-> work.targets[Participants(item)[k]].body] IN
    FlattenSeq(SelectSeq([k \in 1..Len(bodies) |->
        IF \E j \in 1..(k - 1) : bodies[j] = bodies[k] THEN << >> ELSE bodies[k]],
        LAMBDA b : b # << >>))

MergeQuotes(item) == UNION {r.evidence : r \in item.resolutions}

MergedValue(item) ==
    [n \in DOMAIN Blank |->
        CASE n \in Conflicts(item) -> Resolved(item, n)
          [] n = "scopes" -> UNION Values(item, "scopes")
          [] n = "body" -> DistinctBodies(item)
          [] n = "explicit" -> TRUE \in Values(item, "explicit")
          [] OTHER -> work.targets[item.target][n]]

MergeAdmitted(item) ==
    LET all == Participants(item) IN
    /\ item.duplicates # << >> /\ IsInjective(all)
    /\ \A m \in ToSet(all) : Target(m, TRUE) /\ FullyRead(m) /\ work.targets[m].validity = "valid"
    /\ Resolutions(item) /\ ScopesGranted(MergedValue(item).scopes)
    /\ Len(DistinctBodies(item)) <= BodyLimit
    /\ TaskState(MergedValue(item), None, [n \in {} |-> None], "normal", MergeQuotes(item))

RetiredInto(m, target) ==
    [work.targets[m] EXCEPT !.body = << >>, !.validity = "retracted", !.merged_into = target]

MergePlan(item) ==
    Plan([k \in 1..Len(Participants(item)) |->
            LET m == Participants(item)[k] IN
            Change(m, work.targets[m], IF k = 1 THEN MergedValue(item) ELSE RetiredInto(m, item.target))],
         MergeQuotes(item), {}, ToSet(Participants(item)), {})

(* The owner approved this body for this revision. *)
CompactAdmitted(item) ==
    LET body == work.targets[item.target].body IN
    /\ W.purpose = "maintenance"
    /\ Target(item.target, TRUE) /\ FullyRead(item.target)
    /\ work.targets[item.target].validity = "valid"
    /\ DOMAIN item.mapping = FragmentsOf(body) /\ DOMAIN item.mapping # {}
    /\ \A f \in DOMAIN item.mapping :
        Cardinality({k \in 1..Len(item.body) : item.body[k] = item.mapping[f]}) = 1
    /\ ToSet(item.body) \subseteq {item.mapping[f] : f \in DOMAIN item.mapping}
    /\ [target |-> item.target, revision |-> work.targets[item.target], body |-> item.body] \in W.approved

CompactPlan(item) ==
    LET before == work.targets[item.target] IN
    Plan(<< Change(item.target, before, [before EXCEPT !.body = item.body]) >>, {}, {}, {item.target}, {})

NoChangeAdmitted(item) == Target(item.target, FALSE) /\ Evidence(item.evidence, FALSE, None)
NoMemoryAdmitted(item) ==
    W.purpose # "explicit" /\ item.refs # {} /\ item.refs \subseteq DOMAIN W.sources
DeferredAdmitted(item) ==
    /\ item.refs # {} \/ item.duplicates # << >>
    /\ item.refs \subseteq DOMAIN W.sources
    /\ \A m \in ToSet(item.duplicates) : work.targets[m] # None

Admitted(item) ==
    CASE item.action = "CREATE" -> CreateAdmitted(item)
      [] item.action = "patch" -> PatchAdmitted(item)
      [] item.action = "retract_memory" -> RetractAdmitted(item)
      [] item.action = "restore" -> RestoreAdmitted(item)
      [] item.action = "MERGE" -> MergeAdmitted(item)
      [] item.action = "COMPACT" -> CompactAdmitted(item)
      [] item.action = "NO_CHANGE" -> NoChangeAdmitted(item)
      [] item.action = "NO_MEMORY" -> NoMemoryAdmitted(item)
      [] item.action = "DEFERRED" -> DeferredAdmitted(item)

Compiled(i, item) ==
    CASE item.action = "CREATE" -> CreatePlan(i, item)
      [] item.action = "patch" -> PatchPlan(item)
      [] item.action = "retract_memory" -> RetractPlan(item)
      [] item.action = "restore" -> RestorePlan(item)
      [] item.action = "MERGE" -> MergePlan(item)
      [] item.action = "COMPACT" -> CompactPlan(item)
      [] item.action = "NO_CHANGE" -> Plan(<< >>, item.evidence, {}, {item.target}, {})
      [] OTHER -> Plan(<< >>, {}, item.refs, {}, {})

(***************************************************************************)
(* prepare_memory: a work, its snapshot and what it may read.              *)
(***************************************************************************)

NativeGuard == [m \in W.native |-> mem[m]]

Snapshot(old) ==
    [old EXCEPT !.targets = [m \in Mems |-> IF m \in W.asked THEN mem[m] ELSE None],
                !.fields = {}, !.fragments = [m \in Mems |-> {}], !.guard = NativeGuard]

NewWork ==
    [targets |-> [m \in Mems |-> None], fields |-> {}, fragments |-> [m \in Mems |-> {}],
     guard |-> NativeGuard, policy |-> config, used |-> 0, items |-> [i \in {} |-> None],
     removed |-> [m \in Mems |-> {}], status |-> "pending", terminal |-> FALSE]

Statuses == {work.items[i].status : i \in DOMAIN work.items}
Recovery == Statuses \cap {"prepared", "recovery_required"} # {}
Focus == {i \in DOMAIN work.items : work.items[i].status \notin Settled}

AdmissibleSources ==
    LET roles == [k \in 1..Len(W.order) |-> Role(W.order[k])] IN
    CASE W.purpose = "automatic" -> roles # << >> /\ Head(roles) = "user" /\ Last(roles) = "assistant"
      [] W.purpose = "explicit" -> "user" \in ToSet(roles)
      [] OTHER -> TRUE

Prepare ==
    /\ work = None /\ AdmissibleSources
    /\ work' = Snapshot(NewWork)
    /\ fresh' = TRUE
    /\ UNCHANGED << outside, cursors, shown, vain >>

GuardCurrent == work.guard = NativeGuard

(* _work: a native target binds every call to the files it was read from. *)
Reached == (\E m \in W.native : work.targets[m] # None) => GuardCurrent

(* A call says "refresh": in vain if that was just done, or is refused. *)
Told(cause, useless) == vain' = vain \cup (IF useless THEN {cause} ELSE {})

RefusedByWork ==
    /\ work # None /\ ~Reached
    /\ Told("native", TRUE)
    /\ UNCHANGED << outside, work, cursors, shown, fresh >>

Refresh ==
    /\ work # None /\ Reached /\ ~work.terminal /\ ~Recovery /\ ~fresh
    /\ work' = Snapshot(work)
    /\ fresh' = TRUE /\ cursors' = {}
    /\ UNCHANGED << outside, shown, vain >>

(***************************************************************************)
(* memory_work, view targets: two fragments a page, bound to the snapshot. *)
(***************************************************************************)

Rows(refs) ==
    FlattenSeq([k \in 1..Len(refs) |->
        [f \in FragmentsOf(work.targets[refs[k]].body) |-> << refs[k], f >>]])

Page(rows, offset) ==
    {rows[k] : k \in {j \in 1..Len(rows) : j > offset /\ j <= offset + PageLength}}

HeadMoved(refs) == \E m \in ToSet(refs) : m \notin W.native /\ mem[m] # work.targets[m]

ReadTargets(refs, offset) ==
    /\ work # None /\ Reached
    /\ \A m \in ToSet(refs) : work.targets[m] # None
    /\ offset # 0 => [refs |-> refs, offset |-> offset] \in cursors
    /\ IF HeadMoved(refs)
       THEN /\ Told("target", fresh)
            /\ UNCHANGED << work, cursors, shown >>
       ELSE LET rows == Rows(refs)  page == Page(rows, offset) IN
            /\ work' = [work EXCEPT !.fields = @ \cup ToSet(refs),
                    !.fragments = [m \in Mems |-> @[m] \cup {r[2] : r \in {q \in page : q[1] = m}}]]
            /\ cursors' = cursors \cup (IF offset + PageLength >= Len(rows) THEN {}
                                       ELSE {[refs |-> refs, offset |-> offset + PageLength]})
            /\ shown' = shown \cup {<< r[1], work.targets[r[1]], r[2] >> : r \in page}
            /\ UNCHANGED vain
    /\ UNCHANGED << outside, fresh >>

(***************************************************************************)
(* submit_memory.                                                          *)
(***************************************************************************)

Expected ==
    {s \in DOMAIN W.sources \ W.covered :
        Focus = {} \/ \E i \in Focus : s \in work.items[i].refs}

CoverageHolds(offer) ==
    /\ DOMAIN offer.coverage = Expected
    /\ \A s \in DOMAIN offer.coverage :
        offer.coverage[s] # {} /\ offer.coverage[s] \subseteq DOMAIN offer.items
    /\ W.purpose = "maintenance" => offer.basis = {m \in Mems : work.targets[m] # None}

CoveredBy(offer, i) == {s \in DOMAIN offer.coverage : i \in offer.coverage[s]}

ChangedBy(plan) == {c.memory : c \in ToSet(plan.changes)}

(* Memories an earlier item of the work has settled. *)
SettledMems(offer, i) ==
    UNION {work.items[j].mems : j \in {k \in DOMAIN work.items : work.items[k].status \in Settled}}
    \cup {offer.items[j].target : j \in {k \in DOMAIN offer.items :
             offer.items[k].action = "NO_CHANGE" /\ offer.place[k] < offer.place[i]
             /\ Admitted(offer.items[k])
             /\ CoveredBy(offer, k) = Compiled(k, offer.items[k]).refs \ W.covered}}

Permitted(item) ==
    /\ item.action \in {"MERGE", "COMPACT"} => "memory.maintain" \in W.permissions
    /\ \/ item.action = "retract_memory"
       \/ \E k \in 1..Len(item.patches) : item.patches[k].op = "retract"
       => "memory.retract" \in W.permissions

Writable(plan) ==
    \A k \in 1..Len(plan.changes) :
        LET c == plan.changes[k] IN
        /\ ScopesGranted(c.after.scopes)
        /\ c.before # None => mem[c.memory] = c.before

Accepted(offer, i) ==
    LET item == offer.items[i] IN
    /\ Admitted(item)
    /\ LET plan == Compiled(i, item) IN
       /\ CoveredBy(offer, i) = plan.refs \ W.covered
       /\ ChangedBy(plan) \cap SettledMems(offer, i) = {}
       /\ Writable(plan) /\ Permitted(item)

StatusOf(action) ==
    CASE action = "DEFERRED" -> "deferred"
      [] action = "NO_CHANGE" -> "unchanged"
      [] action = "NO_MEMORY" -> "not_recorded"
      [] OTHER -> "prepared"

Entry(item, status, mems, refs, plan) ==
    [action |-> item.action, status |-> status, mems |-> mems, refs |-> refs, plan |-> plan]

(* Two items of one submission may not change one memory: all are refused. *)
Tangled(offer, accepted) ==
    \E i, j \in accepted : i # j /\
        ChangedBy(Compiled(i, offer.items[i])) \cap ChangedBy(Compiled(j, offer.items[j])) # {}

Entries(offer, accepted, tangled) ==
    [i \in DOMAIN offer.items |->
        LET item == offer.items[i] IN
        IF i \notin accepted THEN Entry(item, "invalid", {}, CoveredBy(offer, i), NoPlan)
        ELSE LET plan == Compiled(i, item) IN
             Entry(item, IF tangled THEN "invalid" ELSE StatusOf(item.action),
                   IF item.action = "DEFERRED" THEN {} ELSE plan.mems, plan.refs,
                   IF tangled THEN NoPlan ELSE plan)]

Proposed(offer) ==
    LET accepted == {i \in DOMAIN offer.items : Accepted(offer, i)} IN
    Entries(offer, accepted, Tangled(offer, accepted))

(* The items of the work, of which a submission replaces some.  A function  *)
(* of its own, as the provers know nothing of @@.                           *)
Renewed(items, entries) ==
    [i \in DOMAIN entries \cup DOMAIN items |-> IF i \in DOMAIN entries THEN entries[i] ELSE items[i]]

PartlyDone(statuses) == statuses \cap Settled # {}

(* _derive_status, and what call() leaves after a charged error. *)
Derived(new) ==
    LET statuses == {new.items[i].status : i \in DOMAIN new.items} IN
    CASE statuses # {} /\ statuses \subseteq {"saved", "unchanged", "not_recorded"} ->
            [new EXCEPT !.status = "completed", !.terminal = TRUE]
      [] statuses \cap {"prepared", "recovery_required"} # {} ->
            [new EXCEPT !.status = IF PartlyDone(statuses) THEN "partial" ELSE "submitted"]
      [] OTHER -> [new EXCEPT !.terminal = @ \/ new.used = 3,
            !.status = IF PartlyDone(statuses) THEN "partial" ELSE IF new.used = 3 THEN "failed" ELSE "pending"]

AfterError(new) ==
    LET partly == PartlyDone({new.items[i].status : i \in DOMAIN new.items}) IN
    [new EXCEPT !.terminal = @ \/ new.used = 3,
                !.status = IF partly THEN "partial" ELSE IF new.used = 3 THEN "failed" ELSE "pending"]

(* _execute, in one step: groups whose members all stand where they were. *)
Unmoved(plan) ==
    \A k \in 1..Len(plan.changes) :
        plan.changes[k].before = mem[plan.changes[k].memory]

ToWrite(new) == {i \in DOMAIN new.items : new.items[i].status \in {"prepared", "recovery_required"}
                                          /\ Unmoved(new.items[i].plan)}

Written(new) ==
    [m \in Mems |->
        LET writes == {c \in UNION {ToSet(new.items[i].plan.changes) : i \in ToWrite(new)} : c.memory = m}
        IN IF writes = {} THEN mem[m] ELSE (CHOOSE c \in writes : TRUE).after]

Executed(new) ==
    Derived([new EXCEPT
        !.items = [i \in DOMAIN new.items |->
            IF i \in ToWrite(new) THEN [new.items[i] EXCEPT !.status = "saved"]
            ELSE IF new.items[i].status = "prepared" THEN [new.items[i] EXCEPT !.status = "recovery_required"]
            ELSE new.items[i]],
        !.removed = [m \in Mems |->
            @[m] \cup UNION {IF m \in new.items[i].mems THEN new.items[i].plan.ranges ELSE {} : i \in ToWrite(new)}]])

Execute(new) ==
    /\ mem' = Written(new) /\ work' = Executed(new)
    /\ fresh' = (fresh /\ mem' = mem)

Charged == [work EXCEPT !.used = @ + 1]

Refuse(cause) ==
    /\ work' = AfterError(Charged)
    /\ IF cause = None THEN UNCHANGED vain ELSE Told(cause, fresh)
    /\ UNCHANGED << mem, fresh >>

Submit(offer) ==
    /\ work # None /\ Reached /\ ~work.terminal /\ ~Recovery /\ work.used < 3
    /\ IF work.policy # config THEN Refuse("policy")
       ELSE IF (Focus # {} /\ DOMAIN offer.items # Focus) \/ ~CoverageHolds(offer) THEN Refuse(None)
       ELSE LET new == [Charged EXCEPT !.items = Renewed(@, Proposed(offer))] IN
            IF GuardCurrent THEN Execute(new) /\ UNCHANGED vain
            ELSE /\ work' = AfterError(new)
                 /\ Told("native", fresh) /\ UNCHANGED << mem, fresh >>
    /\ cursors' = {}
    /\ UNCHANGED << config, world, edits, shown >>

Resume ==
    /\ work # None /\ Reached /\ Recovery
    /\ IF GuardCurrent THEN Execute(work) /\ UNCHANGED vain
       ELSE Told("native", Recovery) /\ UNCHANGED << work, mem, fresh >>
    /\ cursors' = {}
    /\ UNCHANGED << config, world, edits, shown >>

(* _cancel: what was written, or may have been, is kept for recovery. *)
Uncertain(i) == work.items[i].status \notin Settled /\ ~Unmoved(work.items[i].plan)

Cancel ==
    /\ work # None /\ Reached /\ work.status # "cancelled"
    /\ LET unsure == {i \in DOMAIN work.items : Uncertain(i)} IN
       work' = [work EXCEPT
        !.items = [i \in DOMAIN work.items |->
            IF i \in unsure THEN [work.items[i] EXCEPT !.status = "recovery_required"]
            ELSE IF work.items[i].status \in Settled THEN work.items[i]
            ELSE [work.items[i] EXCEPT !.status = "cancelled", !.plan = NoPlan]],
        !.terminal = (unsure = {}),
        !.status = IF "saved" \in Statuses THEN "partial" ELSE IF unsure # {} THEN "submitted" ELSE "cancelled"]
    /\ cursors' = {}
    /\ UNCHANGED << outside, shown, fresh, vain >>

(***************************************************************************)
(* A person edits a memory or a native file, or config.json.               *)
(***************************************************************************)

EditOutside(m) ==
    /\ edits < W.edits /\ m \in DOMAIN W.edited
    /\ \E head \in W.edited[m] \ {mem[m]} : mem' = [mem EXCEPT ![m] = head]
    /\ edits' = edits + 1 /\ fresh' = FALSE
    /\ UNCHANGED << config, work, cursors, world, shown, vain >>

Configure ==
    /\ edits < W.edits /\ W.configurable
    /\ config' = config + 1
    /\ edits' = edits + 1 /\ fresh' = FALSE
    /\ UNCHANGED << mem, work, cursors, world, shown, vain >>

Init ==
    /\ world \in DOMAIN Worlds
    /\ mem = Worlds[world].mem /\ config = 0 /\ work = None /\ cursors = {}
    /\ shown = {} /\ edits = 0 /\ fresh = FALSE /\ vain = {}

Next ==
    \/ Prepare \/ RefusedByWork \/ Refresh \/ Resume \/ Cancel \/ Configure
    \/ \E refs \in W.reads : \E offset \in {0} \cup {c.offset : c \in cursors} : ReadTargets(refs, offset)
    \/ \E offer \in W.offers : Submit(offer)
    \/ \E m \in Mems : EditOutside(m)

Spec == Init /\ [][Next]_vars

(***************************************************************************)
(* Properties, stated over what the items of the work have saved.          *)
(***************************************************************************)

SavedItems == {i \in DOMAIN work.items : work.items[i].status = "saved"}
SavedChanges(i) == ToSet(work.items[i].plan.changes)
UserSaid(i) == "user" \in Roles({b \in work.items[i].plan.quotes : Quoted(b)})
WordsOf(memories) == UNION {ToSet(m.body) : m \in memories}

(* No word of a memory is replaced or removed that the agent was not shown  *)
(* in that very revision: what a patch takes out lies in fragments it read, *)
(* a merge and a compaction have read the whole of every body.              *)
ReadFirst ==
    \A i \in SavedItems : \A c \in SavedChanges(i) :
        c.before # None =>
            LET body == c.before.body  action == work.items[i].action IN
            \A f \in FragmentsOf(body) :
                \/ action \in {"MERGE", "COMPACT"}
                \/ action = "patch" /\ Positions(body, f) \cap work.items[i].plan.ranges # {}
                => << c.memory, c.before, f >> \in shown

(* A merge loses nothing: every word of every participant is in the         *)
(* survivor, and ...                                                        *)
MergeKeepsWords ==
    \A i \in SavedItems : work.items[i].action = "MERGE" =>
        LET changes == SavedChanges(i)
            survivor == CHOOSE c \in changes : c.after.merged_into = None IN
        WordsOf({c.before : c \in changes}) \subseteq ToSet(survivor.after.body)

(* ... so are their scopes and the mark of an explicit request; where       *)
(* single values differed the user chose, and the others point to it.       *)
MergeLosesNothing ==
    \A i \in SavedItems : work.items[i].action = "MERGE" =>
        LET changes == SavedChanges(i)
            survivor == CHOOSE c \in changes : c.after.merged_into = None
            befores == {c.before : c \in changes} IN
        /\ UNION {m.scopes : m \in befores} \subseteq survivor.after.scopes
        /\ (\E m \in befores : m.explicit) => survivor.after.explicit
        /\ (\E n \in Scalars : \E m \in befores : m[n] # survivor.after[n]) => UserSaid(i)
        /\ \A c \in changes \ {survivor} : c.after.merged_into = survivor.memory

(* Only a user's own words retract a memory, bring one back or reopen a     *)
(* closed action.                                                           *)
UserDecides ==
    \A i \in SavedItems : \A c \in SavedChanges(i) :
        /\ c.before # None /\ c.after.merged_into = None
        /\ \/ c.before.validity # c.after.validity
           \/ c.before.status \in {"completed", "cancelled"} /\ c.after.status = "active"
        => UserSaid(i)

(* Nor does a patch cut words out of a body without new ones.               *)
UserCuts ==
    \A i \in SavedItems : \A c \in SavedChanges(i) :
        work.items[i].action = "patch" /\ Len(c.after.body) < Len(c.before.body) => UserSaid(i)

(* What is written is a consistent action: a todo has a status, a time of   *)
(* completion only a completed one, and no owner or time the sources do not *)
(* name.                                                                    *)
ActionsMakeSense ==
    \A i \in SavedItems : \A c \in SavedChanges(i) :
        c.after.validity = "valid" /\ work.items[i].action # "COMPACT" =>
            /\ Actionable(c.after) => c.after.status # None
            /\ c.after.completed_at # None => c.after.status = "completed"
            /\ c.after.due_date # None /\ (c.before = None \/ c.before.due_date # c.after.due_date) =>
                \/ \E b \in work.items[i].plan.quotes : Day(b) = c.after.due_date
                \/ work.items[i].action = "MERGE"

(* A retired duplicate stays one: it points to another memory, is not valid *)
(* and no two memories point to each other.                                 *)
AliasesOf(heads) ==
    \A m \in Mems : heads[m] # None /\ heads[m].merged_into # None =>
        LET other == heads[m].merged_into IN
        /\ other \in Mems \ {m} /\ heads[m].validity = "retracted"
        /\ heads[other] # None => heads[other].merged_into # m

AliasesStay == AliasesOf(mem)

(* One item of a work changes a memory, so that no two of its submissions   *)
(* together rewrite what neither may rewrite alone.                         *)
OncePerMemory ==
    \A i, j \in SavedItems : i # j =>
        ChangedBy(work.items[i].plan) \cap ChangedBy(work.items[j].plan) = {}

(* A patch never takes out the whole of what was there.                     *)
PatchesKeepSome ==
    \A i \in SavedItems : work.items[i].action = "patch" =>
        \A c \in SavedChanges(i) : work.items[i].plan.ranges # {} =>
            work.items[i].plan.ranges # 1..Len(c.before.body)

(* A completed work answers every message it took on, and a request to      *)
(* remember is not answered by "nothing to keep".                           *)
CompleteIsWhole ==
    work.status = "completed" =>
        /\ DOMAIN W.sources \ W.covered \subseteq UNION {work.items[i].refs : i \in DOMAIN work.items}
        /\ W.purpose = "explicit" => \A i \in DOMAIN work.items : work.items[i].status # "not_recorded"

(* Native memories are read and never written by a work.                    *)
NativeIsRead == [][\A m \in W.native : mem'[m] # mem[m] => edits' # edits]_vars

(* "Refresh" is advice that helps: where nothing was written since, it is   *)
(* asked for again only because config.json or a native file had changed    *)
(* earlier (both are never taken up by a refresh).                          *)
RefreshHelps == vain \subseteq {"policy", "native"}

(* What a work may change, and on whose word (host_v2_proposal.py).         *)
ProposalKept ==
    /\ [](work # None =>
            /\ ReadFirst /\ MergeLosesNothing /\ UserDecides /\ ActionsMakeSense
            /\ OncePerMemory /\ PatchesKeepSome /\ CompleteIsWhole)
    /\ []AliasesStay
    /\ NativeIsRead
    /\ []RefreshHelps

ProposalHolds == ProposalKept /\ [](work # None => MergeKeepsWords /\ UserCuts)

(***************************************************************************)
(* What is there, and what a proposal that the schema accepts may hold.    *)
(***************************************************************************)

IsHead(head) == DOMAIN head = DOMAIN Blank
Proposable == DOMAIN Blank \ {"validity", "merged_into", "explicit"}

WellFormed(item) ==
    /\ DOMAIN item.fields \subseteq Proposable
    /\ item.action \notin {"CREATE", "NO_MEMORY", "DEFERRED"} => item.target \in Mems
    /\ item.action = "MERGE" => item.duplicates \in Seq(Mems)
    /\ item.action = "restore" => DOMAIN item.basis = {}
    /\ \A k \in 1..Len(item.patches) : item.patches[k].fragment \in Nat

(* Memories are whole, aliases as the program leaves them, and what the     *)
(* agent or a person adds is of the forms above.                            *)
WorldsRight ==
    /\ None \notin Mems
    /\ \A w \in DOMAIN Worlds : LET d == Worlds[w] IN
        /\ d.native \subseteq Mems /\ DOMAIN d.mem = Mems /\ AliasesOf(d.mem)
        /\ \A m \in Mems : d.mem[m] # None => IsHead(d.mem[m])
        /\ \A m \in DOMAIN d.edited : \A head \in d.edited[m] :
                head # None => IsHead(head) /\ head.merged_into = None
        /\ \A refs \in d.reads : refs \in Seq(Mems)
        /\ \A offer \in d.offers :
                /\ DOMAIN offer.items \subseteq Mems \ d.native
                /\ \A i \in DOMAIN offer.items : WellFormed(offer.items[i])
=============================================================================
