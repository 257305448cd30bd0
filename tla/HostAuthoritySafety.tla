------------------------ MODULE HostAuthoritySafety ------------------------
(* The inductive invariant of HostAuthority, and the theorem that its      *)
(* properties hold in every step.  Grants appear in none of its parts:     *)
(* what they may change is decided by the guards of each step.             *)
EXTENDS HostAuthority, TLAPS

-----------------------------------------------------------------------------
(* The records on file. *)

IsWork(k) ==
    k = [grant |-> k.grant, epoch |-> k.epoch, owner |-> k.owner, used |-> k.used, st |-> k.st,
         op |-> k.op, before |-> k.before, marked |-> k.marked, moved |-> k.moved,
         terminal |-> k.terminal, recovery |-> k.recovery, processing |-> k.processing,
         purpose |-> k.purpose]

IsApproval(p) ==
    /\ p.kind = "none" \/ p.grant # Absent
    /\ p = [kind |-> p.kind, target |-> p.target, plan |-> p.plan, grant |-> p.grant,
            epoch |-> p.epoch, used |-> p.used, late |-> p.late]

IsDeletion(d) ==
    d = [plan |-> d.plan, grant |-> d.grant, epoch |-> d.epoch, approved |-> d.approved,
         done |-> d.done, buried |-> d.buried]

Typed ==
    /\ DOMAIN works = WorkIds
    /\ \A w \in WorkIds :
        /\ IsWork(works[w]) /\ works[w].used \in Nat /\ works[w].op \in WorkIds \cup {Absent}
        /\ OnFile(w) \/ works[w] = NoWork
    /\ DOMAIN approval = Approvals /\ \A a \in Approvals :
        IsApproval(approval[a]) /\ approval[a].target \in WorkIds \cup {Absent}
    /\ IsDeletion(deletion)

\* A work whose item was not decided on yet.
Fresh(w) == works[w].st \in {"none", "deferred"}

\* A frozen operation is named after a work that froze it, for good, and among
\* the works that have it all but one have given it away.
Stamped ==
    /\ \A w \in WorkIds :
        /\ Fresh(w) => works[w].op = Absent /\ (OnFile(w) => works[w].owner = w)
        /\ works[w].st = "open" => works[w].op # Absent
        /\ works[w].op # Absent => ~Fresh(works[w].op)
    /\ \A v, w \in WorkIds : v # w /\ works[v].op # Absent /\ works[v].op = works[w].op =>
        works[v].moved # Absent \/ works[w].moved # Absent

\* A child is of the parent and of the kind it was approved for.
Descended ==
    \A a \in Approvals : OnFile(a) =>
        LET ap == approval[a] IN
        /\ ap.used /\ works[a].grant = ap.grant /\ works[a].epoch = ap.epoch
        /\ ap.target \in WorkIds
        /\ \/ ap.kind = "resume_after_revocation" /\ works[ap.target].recovery = a /\ ~Fresh(a)
           \/ ap.kind = "new_processing_budget" /\ works[ap.target].processing = a

\* Between its consumption and the save the plan of an approval still holds.
Consumed ==
    saving # Absent =>
        LET ap == approval[saving] IN
        /\ saving \in Approvals /\ ap.used
        /\ ap.kind \in {"resume_after_revocation", "new_processing_budget"} =>
            ~OnFile(saving) /\ ap.target \in WorkIds /\ OnFile(ap.target)
        /\ ap.kind = "resume_after_revocation" =>
            /\ works[ap.target].recovery = Absent
            /\ works[ap.target].op # Absent /\ works[ap.target].moved = Absent
        /\ ap.kind = "new_processing_budget" => Processable(ap.target)
        /\ ap.kind = "permanent_delete" => ~deletion.done

\* What was buried was frozen before.
Buried ==
    /\ \A o \in deletion.buried : o \in WorkIds /\ ~Fresh(o)
    /\ BuriedForGood

Inv == Typed /\ Stamped /\ Descended /\ Consumed /\ BudgetsApproved /\ Buried

-----------------------------------------------------------------------------
(* Steps that leave the works as they are. *)

LEMMA InitInv == Named /\ Init => Inv
<1> SUFFICES ASSUME Named, Init PROVE Inv
  OBVIOUS
<1>1. \A w \in WorkIds : works[w] = NoWork /\ ~OnFile(w)
  BY DEF Init, OnFile, NoWork
<1>2. \A a \in Approvals : approval[a] = NoApproval
  BY DEF Init
<1>3. Typed
  BY <1>1, <1>2 DEF Init, Typed, IsWork, IsApproval, IsDeletion, NoWork, NoApproval, NoPlan
<1>4. Stamped
  BY <1>1 DEF Stamped, Fresh, NoWork
<1>5. BudgetsApproved
  BY <1>1 DEF Named, BudgetsApproved, NoWork
<1>6. Descended /\ Consumed /\ Buried
  BY <1>1 DEF Init, Descended, Consumed, Buried, BuriedForGood, NoPlan, WorkIds
<1>7. QED
  BY <1>3, <1>4, <1>5, <1>6 DEF Inv

\* An approval that was used stays as it is.
Standing ==
    \A a \in Approvals : approval[a].used =>
        /\ approval'[a].used /\ approval'[a].kind = approval[a].kind
        /\ approval'[a].target = approval[a].target
        /\ approval'[a].grant = approval[a].grant /\ approval'[a].epoch = approval[a].epoch

\* A budget that was drawn on is of a root or of an approved child.
LEMMA DrawnOn ==
    ASSUME Named, Inv, NEW w \in WorkIds \ Roots, works[w].used > 0
    PROVE  w \in Approvals /\ approval[w].used
<1>1. w \in Approvals
  BY DEF WorkIds
<1>2. OnFile(w)
  BY DEF Inv, Typed, NoWork
<1>3. QED
  BY <1>1, <1>2 DEF Inv, Descended

LEMMA WorksStay ==
    ASSUME Named, Inv, UNCHANGED works, Standing
    PROVE  Stamped' /\ Descended' /\ BudgetsApproved'
<1>1. Stamped'
  BY DEF Inv, Stamped, Fresh, OnFile
<1>2. Descended'
  BY DEF Inv, Descended, Standing, OnFile, Fresh
<1>3. BudgetsApproved'
  BY DrawnOn DEF Inv, BudgetsApproved, Standing
<1>4. QED
  BY <1>1, <1>2, <1>3

LEMMA QuietInv ==
    ASSUME Named, Inv, UNCHANGED << works, approval, saving >>,
           UNCHANGED deletion \/ (~deletion.done /\ deletion' = [NoPlan EXCEPT !.plan = deletion'.plan,
                                     !.grant = deletion'.grant, !.epoch = deletion'.epoch]),
           head' = head \/ head' \notin WorkIds
    PROVE  Inv'
<1>1. Stamped' /\ Descended' /\ BudgetsApproved'
  BY WorksStay DEF Standing
<1>2. Typed' /\ Consumed'
  BY DEF Inv, Typed, Consumed, OnFile, Processable, IsDeletion, NoPlan
<1>3. Buried'
  BY DEF Inv, Buried, BuriedForGood, Fresh, NoPlan
<1>4. QED
  BY <1>1, <1>2, <1>3 DEF Inv

\* The owner approves, an approval expires or is consumed, or its use is lost.
LEMMA ApprovalInv ==
    ASSUME Named, Inv, UNCHANGED << works, deletion, head >>, Standing, DOMAIN approval' = Approvals,
           \A a \in Approvals : IsApproval(approval'[a]) /\ approval'[a].target \in WorkIds \cup {Absent},
           Consumed'
    PROVE  Inv'
<1>1. Stamped' /\ Descended' /\ BudgetsApproved'
  BY WorksStay
<1>2. Typed'
  BY DEF Inv, Typed, OnFile
<1>3. Buried'
  BY DEF Inv, Buried, BuriedForGood, Fresh
<1>4. QED
  BY <1>1, <1>2, <1>3 DEF Inv

LEMMA ApproveInv ==
    ASSUME Named, Inv, NEW a \in Approvals, NEW g \in Grants, NEW kind, NEW w \in WorkIds \cup {Absent},
           Approve(a, kind, w, g)
    PROVE  Inv'
<1>1. UNCHANGED << works, deletion, head, saving >> /\ saving = Absent
  BY DEF Approve, Context, Free
<1>2. ~approval[a].used
  BY DEF Approve, NoApproval
<1>3. /\ DOMAIN approval' = Approvals /\ \A b \in Approvals : b # a => approval'[b] = approval[b]
      /\ IsApproval(approval'[a]) /\ approval'[a].target = w
  BY DEF Approve, Inv, Typed, IsApproval, Named
<1>4. Standing
  BY <1>2, <1>3 DEF Standing
<1>5. \A b \in Approvals : IsApproval(approval'[b]) /\ approval'[b].target \in WorkIds \cup {Absent}
  BY <1>3 DEF Inv, Typed
<1>6. Consumed'
  BY <1>1 DEF Consumed
<1>7. QED
  BY <1>1, <1>3, <1>4, <1>5, <1>6, ApprovalInv

LEMMA ExpiresInv == ASSUME Named, Inv, NEW a \in Approvals, ApprovalExpires(a) PROVE Inv'
<1>1. UNCHANGED << works, deletion, head, saving >> /\ ~approval[a].used
  BY DEF ApprovalExpires
<1>2. /\ DOMAIN approval' = Approvals /\ \A b \in Approvals : b # a => approval'[b] = approval[b]
      /\ approval'[a] = [approval[a] EXCEPT !.late = TRUE]
  BY DEF ApprovalExpires, Inv, Typed
<1>3. IsApproval(approval'[a]) /\ approval'[a].target = approval[a].target
  BY <1>2 DEF Inv, Typed, IsApproval
<1>4. Standing
  BY <1>1, <1>2 DEF Standing
<1>5. \A b \in Approvals : IsApproval(approval'[b]) /\ approval'[b].target \in WorkIds \cup {Absent}
  BY <1>2, <1>3 DEF Inv, Typed
<1>6. Consumed'
  BY <1>1, <1>2 DEF Inv, Consumed, OnFile, Processable
<1>7. QED
  BY <1>1, <1>2, <1>4, <1>5, <1>6, ApprovalInv

LEMMA ConsumeInv == ASSUME Named, Inv, NEW a \in Approvals, Consume(a) PROVE Inv'
<1>1. UNCHANGED << works, deletion, head >> /\ saving' = a /\ Bound(a) /\ Resources(a)
  BY DEF Consume, Usable
<1>2. /\ DOMAIN approval' = Approvals /\ \A b \in Approvals : b # a => approval'[b] = approval[b]
      /\ approval'[a] = [approval[a] EXCEPT !.used = TRUE]
  BY DEF Consume, Inv, Typed
<1>3. /\ IsApproval(approval'[a]) /\ approval'[a].target = approval[a].target /\ approval'[a].used
      /\ approval'[a].kind = approval[a].kind
      /\ approval'[a].grant = approval[a].grant /\ approval'[a].epoch = approval[a].epoch
  BY <1>2 DEF Inv, Typed, IsApproval
<1>4. Standing
  BY <1>2, <1>3 DEF Standing
<1>5. \A b \in Approvals : IsApproval(approval'[b]) /\ approval'[b].target \in WorkIds \cup {Absent}
  BY <1>2, <1>3 DEF Inv, Typed
<1>6. Consumed'
  <2>1. approval[a].kind = "resume_after_revocation" =>
            /\ approval[a].target # Absent /\ OnFile(approval[a].target) /\ ~OnFile(a)
            /\ works[approval[a].target].recovery = Absent
            /\ works[approval[a].target].op # Absent /\ works[approval[a].target].moved = Absent
    BY <1>1 DEF Consume, Bound, MayPlan, Recoverable, Orphan
  <2>2. approval[a].kind = "new_processing_budget" =>
            approval[a].target # Absent /\ Processable(approval[a].target) /\ ~OnFile(a)
    BY <1>1 DEF Consume, Bound, MayPlan
  <2>3. approval[a].kind = "permanent_delete" => ~deletion.done
    BY <1>1 DEF Resources
  <2>4. approval[a].target \in WorkIds \cup {Absent}
    BY DEF Inv, Typed
  <2>5. QED
    BY <1>1, <1>3, <2>1, <2>2, <2>3, <2>4 DEF Consumed, OnFile, Processable
<1>7. QED
  BY <1>1, <1>2, <1>4, <1>5, <1>6, ApprovalInv

LEMMA LoseInv == Named /\ Inv /\ Lose => Inv'
<1> SUFFICES ASSUME Named, Inv, Lose PROVE Inv'
  OBVIOUS
<1>1. UNCHANGED << works, approval, deletion, head >> /\ Consumed'
  BY DEF Lose, Consumed
<1>2. QED
  BY <1>1, ApprovalInv DEF Standing, Inv, Typed

-----------------------------------------------------------------------------
(* Steps that change one work. *)

Becomes(w, k) ==
    DOMAIN works' = WorkIds /\ works'[w] = k /\ \A v \in WorkIds : v # w => works'[v] = works[v]

LEMMA PutBecomes == ASSUME Inv, NEW w \in WorkIds, NEW k, Put(w, k) PROVE Becomes(w, k)
BY DEF Put, Inv, Typed, Becomes

LEMMA PutKept ==
    ASSUME Named, Inv, NEW w \in WorkIds, NEW k, Becomes(w, k), OnFile(w), Free,
           UNCHANGED << approval, deletion, saving >>,
           IsWork(k), k.grant = works[w].grant, k.epoch = works[w].epoch, k.owner = works[w].owner,
           k.recovery = works[w].recovery, k.processing = works[w].processing,
           k.moved = works[w].moved,
           k.used \in Nat, k.used <= Limit,
           k.used > 0 => works[w].used > 0 \/ w \in Roots \/ approval[w].kind = "new_processing_budget",
           k.op \in {Absent, works[w].op} \/ (k.op = w /\ Fresh(w) /\ k.st = "open"),
           k.st \in {"none", "deferred"} => Fresh(w) /\ k.op = Absent,
           k.st = "open" => k.op # Absent
    PROVE  /\ Typed' /\ Stamped' /\ Descended' /\ Consumed' /\ BudgetsApproved'
           /\ \A o \in WorkIds : ~Fresh(o) => ~Fresh(o)'
           /\ \A v \in WorkIds : works'[v].op \in {Absent, works[v].op} \/ (works'[v].op = v /\ Fresh(v))
<1>1. DOMAIN works' = WorkIds /\ works'[w] = k /\ \A v \in WorkIds : v # w => works'[v] = works[v]
  BY DEF Becomes
<1>2. Absent \notin WorkIds
  BY DEF Named
<1>3. Typed'
  BY <1>1 DEF Inv, Typed, OnFile, Fresh
<1>4. \A o \in WorkIds : ~Fresh(o) => ~Fresh(o)'
  BY <1>1 DEF Fresh
<1>5. \A v \in WorkIds : works'[v].op \in {Absent, works[v].op} \/ (works'[v].op = v /\ Fresh(v) /\ ~Fresh(v)')
  BY <1>1 DEF Fresh
<1>6. \A v \in WorkIds :
        /\ Fresh(v)' => works'[v].op = Absent /\ (OnFile(v)' => works'[v].owner = v)
        /\ works'[v].st = "open" => works'[v].op # Absent
  BY <1>1 DEF Inv, Stamped, Fresh, OnFile
<1>7. ASSUME NEW v \in WorkIds, works'[v].op # Absent
      PROVE  works'[works'[v].op].st \notin {"none", "deferred"}
  <2>1. CASE works'[v].op = works[v].op
    BY <1>3, <1>4, <1>7, <2>1 DEF Inv, Stamped, Typed, Fresh
  <2>2. CASE works'[v].op = v /\ ~Fresh(v)'
    BY <2>2 DEF Fresh
  <2>3. QED
    BY <1>5, <1>7, <2>1, <2>2
<1>8. ASSUME NEW u \in WorkIds, NEW v \in WorkIds, u # v, works'[u].op # Absent, works'[u].op = works'[v].op
      PROVE  works'[u].moved # Absent \/ works'[v].moved # Absent
  <2>1. \A x \in WorkIds : works'[x].moved = works[x].moved
    BY <1>1
  <2>2. ASSUME NEW x \in WorkIds, NEW y \in WorkIds, x # y, works'[x].op = x, Fresh(x), works'[y].op = x,
               x # Absent
        PROVE  FALSE
    <3>1. works[y].op = x
      BY <1>5, <2>2
    <3>2. QED
      BY <2>2, <3>1 DEF Inv, Stamped
  <2>3. CASE works'[u].op = works[u].op /\ works'[v].op = works[v].op
    BY <1>8, <2>1, <2>3 DEF Inv, Stamped
  <2>4. QED
    BY <1>2, <1>5, <1>8, <2>2, <2>3
<1>9. Stamped'
  BY <1>6, <1>7, <1>8 DEF Stamped, Fresh
<1>10. Descended'
  <2>1. \A v \in WorkIds : OnFile(v)' => OnFile(v)
    BY <1>1 DEF OnFile
  <2>2. \A v \in WorkIds : /\ works'[v].grant = works[v].grant /\ works'[v].epoch = works[v].epoch
                           /\ works'[v].recovery = works[v].recovery
                           /\ works'[v].processing = works[v].processing
    BY <1>1
  <2>3. Approvals \subseteq WorkIds
    BY DEF WorkIds
  <2>4. QED
    BY <1>4, <2>1, <2>2, <2>3 DEF Inv, Descended
<1>11. Consumed'
  BY DEF Consumed, Free
<1>12. BudgetsApproved'
  BY <1>1 DEF Inv, BudgetsApproved
<1>13. QED
  BY <1>3, <1>4, <1>5, <1>9, <1>10, <1>11, <1>12

\* A file that was forgotten is not made again by what was frozen before.
LEMMA BuriedKept ==
    ASSUME Named, Inv, UNCHANGED deletion, head' = head \/ head' \notin deletion.buried,
           \A o \in WorkIds : ~Fresh(o) => ~Fresh(o)',
           \A v \in WorkIds : works'[v].op \in {Absent, works[v].op} \/ (works'[v].op = v /\ Fresh(v))
    PROVE  Buried'
<1>1. \A o \in deletion.buried : o \in WorkIds /\ ~Fresh(o) /\ o # Absent
  BY DEF Named, Inv, Buried
<1>2. \A v \in WorkIds : works[v].op \notin deletion.buried => works'[v].op \notin deletion.buried
  BY <1>1
<1>3. QED
  BY <1>1, <1>2 DEF Inv, Buried, BuriedForGood

LEMMA ExecuteInv == ASSUME Named, Inv, NEW w \in WorkIds, NEW g, Execute(w, g) PROVE Inv'
<1> DEFINE k == works[w]
<1>1. Free /\ OnFile(w) /\ Held(k) /\ UNCHANGED << approval, deletion, saving >>
  BY DEF Execute, Context, Same
<1>2. IsWork(k) /\ k.st = "open" /\ k.op \in WorkIds
  BY <1>1 DEF Inv, Typed, Stamped, Held
<1>3. deletion.done => k.op \notin deletion.buried
  BY DEF Inv, Buried, BuriedForGood
<1>4. PICK j \in {k, Saved(k), [k EXCEPT !.marked = TRUE]} : Becomes(w, j)
  <2>1. UNCHANGED works => Becomes(w, k)
    BY DEF Becomes, Inv, Typed
  <2>2. QED
    BY <2>1, PutBecomes DEF Execute
<1>5. /\ IsWork(j) /\ j.grant = k.grant /\ j.epoch = k.epoch /\ j.owner = k.owner
      /\ j.recovery = k.recovery /\ j.processing = k.processing /\ j.moved = k.moved
      /\ j.used = k.used /\ j.op = k.op /\ j.st \in {"open", "saved"}
  BY <1>2, <1>4 DEF Saved, IsWork
<1>6. k.used \in Nat /\ k.used <= Limit
  BY DEF Inv, Typed, BudgetsApproved
<1>7. Absent \notin WorkIds
  BY DEF Named
<1>8. /\ Typed' /\ Stamped' /\ Descended' /\ Consumed' /\ BudgetsApproved'
      /\ \A o \in WorkIds : ~Fresh(o) => ~Fresh(o)'
      /\ \A v \in WorkIds : works'[v].op \in {Absent, works[v].op} \/ (works'[v].op = v /\ Fresh(v))
  BY <1>1, <1>2, <1>4, <1>5, <1>6, <1>7, PutKept
<1>9. head' = head \/ head' = k.op
  BY DEF Execute
<1>10. Buried'
  BY <1>1, <1>3, <1>8, <1>9, BuriedKept DEF Inv, Buried, BuriedForGood
<1>11. QED
  BY <1>8, <1>10 DEF Inv

LEMMA CancelInv == ASSUME Named, Inv, NEW w \in WorkIds, NEW g, Cancel(w, g) PROVE Inv'
<1> DEFINE k == works[w]
           j == IF k.op # Absent /\ Applied(k) # "no" THEN [k EXCEPT !.st = "open"]
                ELSE [k EXCEPT !.st = "cancelled", !.op = Absent, !.before = Absent, !.terminal = TRUE]
<1>1. Free /\ OnFile(w) /\ UNCHANGED << approval, deletion, saving, head >> /\ Becomes(w, j)
  BY PutBecomes DEF Cancel, Context, Same
<1>2. IsWork(k) /\ k.used \in Nat /\ k.used <= Limit
  BY DEF Inv, Typed, BudgetsApproved
<1>3. /\ IsWork(j) /\ j.grant = k.grant /\ j.epoch = k.epoch /\ j.owner = k.owner
      /\ j.recovery = k.recovery /\ j.processing = k.processing /\ j.moved = k.moved
      /\ j.used = k.used /\ j.op \in {Absent, k.op} /\ j.st \in {"open", "cancelled"}
      /\ j.st = "open" => j.op # Absent
  <2>1. CASE k.op # Absent /\ Applied(k) # "no"
    BY <1>2, <2>1 DEF IsWork
  <2>2. CASE ~(k.op # Absent /\ Applied(k) # "no")
    BY <1>2, <2>2 DEF IsWork
  <2>3. QED
    BY <2>1, <2>2
<1> HIDE DEF j
<1>4. /\ Typed' /\ Stamped' /\ Descended' /\ Consumed' /\ BudgetsApproved'
      /\ \A o \in WorkIds : ~Fresh(o) => ~Fresh(o)'
      /\ \A v \in WorkIds : works'[v].op \in {Absent, works[v].op} \/ (works'[v].op = v /\ Fresh(v))
  BY <1>1, <1>2, <1>3, PutKept
<1>5. QED
  BY <1>1, <1>4, BuriedKept DEF Inv

\* What a record that is changed has in its fields.
Marked(k, st, marked, end) == [k EXCEPT !.st = st, !.marked = marked, !.terminal = end]

LEMMA Marking ==
    ASSUME NEW k, IsWork(k), NEW st, NEW marked, NEW end
    PROVE  LET j == Marked(k, st, marked, end) IN
           /\ IsWork(j) /\ j.grant = k.grant /\ j.epoch = k.epoch /\ j.owner = k.owner
           /\ j.recovery = k.recovery /\ j.processing = k.processing /\ j.moved = k.moved
           /\ j.used = k.used /\ j.op = k.op /\ j.st = st
<1>1. ASSUME NEW j, j = Marked(k, st, marked, end)
      PROVE  j = [grant |-> k.grant, epoch |-> k.epoch, owner |-> k.owner, used |-> k.used, st |-> st,
           op |-> k.op, before |-> k.before, marked |-> marked, moved |-> k.moved,
           terminal |-> end, recovery |-> k.recovery, processing |-> k.processing,
           purpose |-> k.purpose]
  BY <1>1 DEF IsWork, Marked
<1>2. QED
  BY <1>1 DEF IsWork

Frozen(k, used, st, op, before, end) ==
    [k EXCEPT !.used = used, !.st = st, !.op = op, !.before = before, !.terminal = end]

LEMMA Freezing ==
    ASSUME NEW k, IsWork(k), NEW used, NEW st, NEW op, NEW before, NEW end
    PROVE  LET j == Frozen(k, used, st, op, before, end) IN
           /\ IsWork(j) /\ j.grant = k.grant /\ j.epoch = k.epoch /\ j.owner = k.owner
           /\ j.recovery = k.recovery /\ j.processing = k.processing /\ j.moved = k.moved
           /\ j.used = used /\ j.op = op /\ j.st = st
<1>1. ASSUME NEW j, j = Frozen(k, used, st, op, before, end)
      PROVE  j = [grant |-> k.grant, epoch |-> k.epoch, owner |-> k.owner, used |-> used, st |-> st,
           op |-> op, before |-> before, marked |-> k.marked, moved |-> k.moved,
           terminal |-> end, recovery |-> k.recovery, processing |-> k.processing,
           purpose |-> k.purpose]
  BY <1>1 DEF IsWork, Frozen
<1>2. QED
  BY <1>1 DEF IsWork

LEMMA AccountInv == ASSUME Named, Inv, NEW w \in WorkIds, Account(w) PROVE Inv'
<1> DEFINE k == works[w]
           j == Accounted(k)
<1>1. Free /\ OnFile(w) /\ UNCHANGED << approval, deletion, saving, head >> /\ Becomes(w, j) /\ j # k
  BY PutBecomes DEF Account, Same
<1>2. IsWork(k) /\ k.used \in Nat /\ k.used <= Limit
  BY DEF Inv, Typed, BudgetsApproved
<1>3. \E st \in {"open", "cancelled", "saved"}, marked \in {k.marked, TRUE}, end \in {TRUE, FALSE, ~k.marked} :
        /\ j = Marked(k, st, marked, end)
        /\ st = "open" => k.op # Absent
  <2>1. k.st \notin Final
    BY <1>1 DEF Accounted
  <2>2. CASE k.op = Absent
    <3>1. j = Marked(k, "cancelled", k.marked, TRUE)
      BY <1>2, <2>1, <2>2 DEF Accounted, IsWork, Marked
    <3>2. QED
      BY <3>1
  <2>3. CASE k.op # Absent /\ Applied(k) = "yes"
    <3>1. j = Marked(k, "saved", TRUE, TRUE)
      BY <1>2, <2>1, <2>3 DEF Accounted, Saved, IsWork, Marked
    <3>2. QED
      BY <3>1
  <2>4. CASE k.op # Absent /\ Applied(k) = "unknown"
    <3>1. j = Marked(k, "open", k.marked, FALSE)
      BY <1>2, <2>1, <2>4 DEF Accounted, IsWork, Marked
    <3>2. QED
      BY <2>4, <3>1
  <2>5. CASE k.op # Absent /\ Applied(k) \notin {"yes", "unknown"}
    <3>1. j = Marked(k, IF k.marked THEN "open" ELSE "cancelled", k.marked, ~k.marked)
      BY <1>2, <2>1, <2>5 DEF Accounted, IsWork, Marked
    <3>2. QED
      BY <2>5, <3>1
  <2>6. QED
    BY <2>2, <2>3, <2>4, <2>5
<1>4. /\ IsWork(j) /\ j.grant = k.grant /\ j.epoch = k.epoch /\ j.owner = k.owner
      /\ j.recovery = k.recovery /\ j.processing = k.processing /\ j.moved = k.moved
      /\ j.used = k.used /\ j.op = k.op /\ j.st \in {"open", "cancelled", "saved"}
      /\ j.st = "open" => j.op # Absent
  <2>1. PICK st \in {"open", "cancelled", "saved"} :
          \E marked \in {k.marked, TRUE}, end \in {TRUE, FALSE, ~k.marked} :
            /\ j = Marked(k, st, marked, end)
            /\ st = "open" => k.op # Absent
    BY <1>3
  <2>2. PICK marked, end :
            /\ j = Marked(k, st, marked, end)
            /\ st = "open" => k.op # Absent
    BY <2>1
  <2> HIDE DEF j
  <2>3. QED
    BY <1>2, <2>2, Marking
<1> HIDE DEF j
<1>5. /\ Typed' /\ Stamped' /\ Descended' /\ Consumed' /\ BudgetsApproved'
      /\ \A o \in WorkIds : ~Fresh(o) => ~Fresh(o)'
      /\ \A v \in WorkIds : works'[v].op \in {Absent, works[v].op} \/ (works'[v].op = v /\ Fresh(v))
  BY <1>1, <1>2, <1>4, PutKept
<1>6. QED
  BY <1>1, <1>5, BuriedKept DEF Inv

LEMMA SubmitInv == ASSUME Named, Inv, NEW w \in WorkIds, NEW g, Submit(w, g) PROVE Inv'
<1> DEFINE k == works[w]
           j(st, end) == Frozen(k, k.used + 1, st, IF st = "open" THEN w ELSE Absent,
                               IF st = "open" THEN head ELSE Absent, end)
<1>1. /\ Free /\ OnFile(w) /\ Fresh(w) /\ UNCHANGED << approval, deletion, saving, head >>
      /\ works[k.owner].used < Limit
  BY DEF Submit, Context, Same, Fresh
<1>2. IsWork(k) /\ k.used \in Nat /\ k.owner = w /\ k.op = Absent /\ DOMAIN works = WorkIds
  BY <1>1 DEF Inv, Typed, Stamped
<1>3. \E st \in {"deferred", "open"} : \E end : Becomes(w, j(st, end))
  <2> DEFINE spent(o) == [works EXCEPT ![o].used = @ + 1]
             next(o, st) == [spent(o) EXCEPT
                 ![w].st = st,
                 ![w].op = IF st = "open" THEN w ELSE Absent,
                 ![w].before = IF st = "open" THEN head ELSE Absent,
                 ![w].terminal = st = "deferred" /\ spent(o)[o].used = Limit]
  <2>1. PICK st \in {"deferred", "open"} : works' = next(w, st)
    <3>1. \E st \in {"deferred", "open"} : works' = next(k.owner, st)
      BY DEF Submit
    <3> HIDE DEF next
    <3>2. QED
      BY <1>2, <3>1
  <2>2. /\ DOMAIN next(w, st) = WorkIds /\ \A v \in WorkIds : v # w => next(w, st)[v] = works[v]
        /\ next(w, st)[w] = j(st, st = "deferred" /\ spent(w)[w].used = Limit)
    BY <1>2 DEF Frozen
  <2>3. Becomes(w, j(st, st = "deferred" /\ spent(w)[w].used = Limit))
    BY <2>1, <2>2 DEF Becomes
  <2>4. QED
    BY <2>3
<1>4. PICK st \in {"deferred", "open"} : \E end : Becomes(w, j(st, end))
  BY <1>3
<1>5. PICK end : Becomes(w, j(st, end))
  BY <1>4
<1>6. /\ IsWork(j(st, end)) /\ j(st, end).grant = k.grant /\ j(st, end).epoch = k.epoch
      /\ j(st, end).owner = k.owner /\ j(st, end).recovery = k.recovery
      /\ j(st, end).processing = k.processing /\ j(st, end).moved = k.moved
      /\ j(st, end).used = k.used + 1 /\ j(st, end).st = st
      /\ j(st, end).op = IF st = "open" THEN w ELSE Absent
  BY <1>2, Freezing
<1>7. k.used < Limit /\ k.used + 1 \in Nat /\ k.used + 1 <= Limit
  BY <1>1, <1>2 DEF Named
<1>8. w \in Roots \/ approval[w].kind = "new_processing_budget"
  BY <1>1 DEF Inv, Descended, WorkIds
<1>9. w # Absent
  BY DEF Named
<1> HIDE DEF j
<1>10. /\ Typed' /\ Stamped' /\ Descended' /\ Consumed' /\ BudgetsApproved'
       /\ \A o \in WorkIds : ~Fresh(o) => ~Fresh(o)'
       /\ \A v \in WorkIds : works'[v].op \in {Absent, works[v].op} \/ (works'[v].op = v /\ Fresh(v))
  BY <1>1, <1>2, <1>5, <1>6, <1>7, <1>8, <1>9, PutKept
<1>11. QED
  BY <1>1, <1>10, BuriedKept DEF Inv

-----------------------------------------------------------------------------
(* Steps that put a work on file. *)

Prepared(g, epoch, w) ==
    [NoWork EXCEPT !.grant = g, !.epoch = epoch, !.owner = w, !.purpose = "semantic"]

LEMMA PreparedFields ==
    ASSUME NEW g, NEW epoch, NEW w
    PROVE  LET j == Prepared(g, epoch, w) IN
           /\ IsWork(j) /\ j.grant = g /\ j.op = Absent /\ j.st = "none" /\ j.used = 0
           /\ j.owner = w
<1>1. ASSUME NEW k, NEW j, k = NoWork,
             j = [k EXCEPT !.grant = g, !.epoch = epoch, !.owner = w, !.purpose = "semantic"]
      PROVE  /\ IsWork(j) /\ j.grant = g /\ j.op = Absent /\ j.st = "none" /\ j.used = 0
             /\ j.owner = w
  BY <1>1 DEF IsWork, NoWork
<1>2. ASSUME NEW k, k = NoWork
      PROVE  Prepared(g, epoch, w) =
                [k EXCEPT !.grant = g, !.epoch = epoch, !.owner = w, !.purpose = "semantic"]
  BY <1>2 DEF Prepared
<1> HIDE DEF NoWork
<1>3. QED
  BY <1>1, <1>2

LEMMA PrepareInv ==
    ASSUME Named, Inv, NEW w \in Roots, NEW g \in Grants, Prepare(w, g)
    PROVE  Inv'
<1> DEFINE k == Prepared(g, grant[g].epoch, w)
<1>1. /\ Free /\ ~OnFile(w) /\ w \in WorkIds
      /\ UNCHANGED << approval, deletion, saving, head >> /\ Put(w, k)
  BY DEF Prepare, Context, Same, WorkIds, Prepared
<1>2. Becomes(w, k)
  BY <1>1, PutBecomes
<1>3. /\ IsWork(k) /\ k.grant = g /\ k.op = Absent /\ k.st = "none" /\ k.used = 0 /\ k.owner = w
      /\ k.used \in Nat
  BY PreparedFields
<1>4. /\ works[w] = NoWork /\ works[w].op = Absent /\ works[w].recovery = Absent
      /\ works[w].processing = Absent /\ Fresh(w)
  BY <1>1 DEF Inv, Typed, NoWork, Fresh
<1>5. w \notin Approvals /\ g # Absent /\ Absent \notin WorkIds /\ Approvals \subseteq WorkIds
  BY DEF Named, WorkIds
<1> HIDE DEF k
<1>6. DOMAIN works' = WorkIds /\ works'[w] = k /\ \A v \in WorkIds : v # w => works'[v] = works[v]
  BY <1>2 DEF Becomes
<1>7. Typed'
  BY <1>1, <1>3, <1>5, <1>6 DEF Inv, Typed, OnFile
<1>8. Stamped'
  <2>1. \A v \in WorkIds : works'[v].op = works[v].op /\ (v # w => works'[v].moved = works[v].moved)
    BY <1>3, <1>4, <1>6
  <2>2. \A v \in WorkIds : Fresh(v)' <=> Fresh(v)
    BY <1>3, <1>4, <1>6 DEF Fresh
  <2>3. \A v \in WorkIds :
          /\ Fresh(v)' => works'[v].op = Absent /\ (OnFile(v)' => works'[v].owner = v)
          /\ works'[v].st = "open" => works'[v].op # Absent
    BY <1>3, <1>6 DEF Inv, Stamped, Fresh, OnFile
  <2>4. \A v \in WorkIds : works'[v].op # Absent => works'[works'[v].op].st \notin {"none", "deferred"}
    BY <1>7, <2>1, <2>2 DEF Inv, Stamped, Typed, Fresh
  <2>5. \A u, v \in WorkIds : u # v /\ works'[u].op # Absent /\ works'[u].op = works'[v].op =>
          works'[u].moved # Absent \/ works'[v].moved # Absent
    BY <1>4, <2>1 DEF Inv, Stamped
  <2>6. QED
    BY <2>3, <2>4, <2>5 DEF Stamped, Fresh
<1>9. Descended'
  BY <1>1, <1>4, <1>5, <1>6 DEF Inv, Descended, OnFile, Fresh
<1>10. Consumed'
  BY <1>1 DEF Consumed, Free
<1>11. BudgetsApproved'
  BY <1>1, <1>3, <1>6 DEF Inv, BudgetsApproved, Named
<1>12. Buried'
  BY <1>1, <1>3, <1>4, <1>5, <1>6 DEF Inv, Buried, BuriedForGood, Fresh
<1>13. QED
  BY <1>7, <1>8, <1>9, <1>10, <1>11, <1>12 DEF Inv

\* A child a of p, of either kind: p is on file and knows of no other child of
\* this kind, and what was frozen goes from p to a or stays where it is.
LEMMA ChildInv ==
    ASSUME Named, Inv, NEW a \in Approvals, NEW p \in WorkIds, NEW k, NEW j,
           ~OnFile(a), OnFile(p), saving' = Absent, UNCHANGED << approval, deletion, head >>,
           approval[a].used, approval[a].target = p, approval[a].grant # Absent,
           DOMAIN works' = WorkIds, works'[a] = k, works'[p] = j,
           \A v \in WorkIds : v \notin {a, p} => works'[v] = works[v],
           IsWork(k), k.grant = approval[a].grant, k.epoch = approval[a].epoch, k.used = 0,
           IsWork(j), j.grant = works[p].grant, j.epoch = works[p].epoch, j.used = works[p].used,
           j.owner = works[p].owner, j.st = works[p].st, j.op = works[p].op,
           k.op = works[p].op,
           \/ /\ approval[a].kind = "resume_after_revocation" /\ j.recovery = a
              /\ works[p].recovery = Absent /\ j.processing = works[p].processing
              /\ k.st = "open" /\ works[p].op # Absent /\ works[p].moved = Absent /\ j.moved = a
           \/ /\ approval[a].kind = "new_processing_budget" /\ j.processing = a
              /\ works[p].processing = Absent /\ j.recovery = works[p].recovery
              /\ Fresh(p) /\ k.st = works[p].st /\ k.owner = a /\ j.moved = works[p].moved
    PROVE  Inv'
<1>1. /\ works[a] = NoWork /\ works[a].op = Absent /\ works[a].recovery = Absent /\ works[a].used = 0
      /\ works[a].processing = Absent /\ Fresh(a) /\ a \in WorkIds /\ a # p /\ a # Absent
  BY DEF Named, Inv, Typed, NoWork, Fresh, WorkIds
<1>2. Absent \notin WorkIds /\ Approvals \subseteq WorkIds
  BY DEF Named, WorkIds
<1>3. \A v \in WorkIds : v # a => /\ works'[v].op = works[v].op /\ works'[v].st = works[v].st
                                  /\ works'[v].grant = works[v].grant /\ works'[v].epoch = works[v].epoch
                                  /\ works'[v].used = works[v].used /\ works'[v].owner = works[v].owner
                                  /\ works[v].moved # Absent => works'[v].moved # Absent
                                  /\ IsWork(works'[v]) \/ v \notin {a, p}
  BY <1>1
<1>4. Typed'
  <2>1. \A v \in WorkIds : /\ IsWork(works'[v]) /\ works'[v].used \in Nat
                           /\ works'[v].op \in WorkIds \cup {Absent}
                           /\ OnFile(v)' \/ works'[v] = NoWork
    <3>1. IsWork(k) /\ k.used \in Nat /\ k.op \in WorkIds \cup {Absent} /\ k.grant # Absent
      BY DEF Inv, Typed
    <3>2. IsWork(j) /\ j.used \in Nat /\ j.op \in WorkIds \cup {Absent} /\ j.grant # Absent
      BY DEF Inv, Typed, OnFile
    <3>3. QED
      BY <3>1, <3>2 DEF Inv, Typed, OnFile
  <2>2. QED
    BY <2>1 DEF Inv, Typed
<1>5. \A o \in WorkIds : ~Fresh(o) => ~Fresh(o)'
  BY <1>1, <1>3 DEF Fresh
<1>6. Stamped'
  <2>1. \A v \in WorkIds :
          /\ Fresh(v)' => works'[v].op = Absent /\ (OnFile(v)' => works'[v].owner = v)
          /\ works'[v].st = "open" => works'[v].op # Absent
    <3>1. ASSUME NEW v \in WorkIds, v # a
          PROVE  /\ Fresh(v)' => works'[v].op = Absent /\ (OnFile(v)' => works'[v].owner = v)
                 /\ works'[v].st = "open" => works'[v].op # Absent
      BY <1>3, <3>1 DEF Inv, Stamped, Fresh, OnFile
    <3>2. /\ Fresh(a)' => works'[a].op = Absent /\ works'[a].owner = a
          /\ works'[a].st = "open" => works'[a].op # Absent
      BY DEF Inv, Stamped, Fresh
    <3>3. QED
      BY <3>1, <3>2
  <2>2. ASSUME NEW v \in WorkIds, works'[v].op # Absent
        PROVE  works'[works'[v].op].st \notin {"none", "deferred"}
    <3>1. PICK u \in WorkIds : works'[v].op = works[u].op
      BY <1>3
    <3>2. QED
      BY <1>5, <2>2, <3>1 DEF Inv, Stamped, Typed, Fresh
  <2>3. ASSUME NEW u \in WorkIds, NEW v \in WorkIds, u # v, works'[u].op # Absent,
               works'[u].op = works'[v].op
        PROVE  works'[u].moved # Absent \/ works'[v].moved # Absent
    <3>1. CASE u # a /\ v # a
      BY <1>3, <2>3, <3>1 DEF Inv, Stamped
    <3>2. ASSUME NEW x \in WorkIds, x # a, works'[x].op = works'[a].op, works'[a].op # Absent
          PROVE  works'[x].moved # Absent
      <4>1. works[p].op # Absent /\ works[p].moved = Absent /\ works'[p].moved = a
        BY <3>2 DEF Inv, Stamped
      <4>2. CASE x = p
        BY <1>1, <4>1, <4>2
      <4>3. CASE x # p
        <5>1. works[x].op = works[p].op
          BY <1>3, <3>2
        <5>2. works[x].moved # Absent
          BY <4>1, <4>3, <5>1 DEF Inv, Stamped
        <5>3. QED
          BY <1>3, <3>2, <5>2
      <4>4. QED
        BY <4>2, <4>3
    <3>3. QED
      BY <2>3, <3>1, <3>2
  <2>4. QED
    BY <2>1, <2>2, <2>3 DEF Stamped, Fresh
<1>7. Descended'
  <2>1. ASSUME NEW b \in Approvals, b # a, OnFile(b)'
        PROVE  LET ap == approval[b] IN
               /\ ap.used /\ works'[b].grant = ap.grant /\ works'[b].epoch = ap.epoch
               /\ ap.target \in WorkIds
               /\ \/ /\ ap.kind = "resume_after_revocation"
                     /\ works'[ap.target].recovery = b /\ ~Fresh(b)'
                  \/ ap.kind = "new_processing_budget" /\ works'[ap.target].processing = b
    <3>1. OnFile(b) /\ b # Absent
      BY <1>2, <1>3, <2>1 DEF OnFile
    <3>2. \A v \in WorkIds : works[v].recovery = b => works'[v].recovery = b
      BY <1>1, <3>1
    <3>3. \A v \in WorkIds : works[v].processing = b => works'[v].processing = b
      BY <1>1, <3>1
    <3>4. QED
      BY <1>2, <1>3, <1>5, <2>1, <3>1, <3>2, <3>3 DEF Inv, Descended
  <2>2. LET ap == approval[a] IN
        /\ ap.used /\ works'[a].grant = ap.grant /\ works'[a].epoch = ap.epoch
        /\ ap.target \in WorkIds
        /\ \/ ap.kind = "resume_after_revocation" /\ works'[ap.target].recovery = a /\ ~Fresh(a)'
           \/ ap.kind = "new_processing_budget" /\ works'[ap.target].processing = a
    BY DEF Fresh
  <2>3. QED
    BY <2>1, <2>2 DEF Descended
<1>8. Consumed'
  BY DEF Consumed
<1>9. BudgetsApproved'
  <2>1. \A v \in WorkIds : works'[v].used = works[v].used
    BY <1>1, <1>3
  <2>2. QED
    BY <2>1 DEF Inv, BudgetsApproved
<1>10. Buried'
  <2>1. \A v \in WorkIds : \E u \in WorkIds : works'[v].op = works[u].op
    BY <1>3
  <2>2. QED
    BY <1>5, <2>1 DEF Inv, Buried, BuriedForGood
<1>11. QED
  BY <1>4, <1>6, <1>7, <1>8, <1>9, <1>10 DEF Inv

\* What an approval was consumed for is saved.
Recovering(k, g, epoch) ==
    [k EXCEPT !.grant = g, !.epoch = epoch, !.used = 0, !.st = "open", !.moved = Absent,
              !.terminal = FALSE, !.recovery = Absent, !.purpose = "authorized_recovery"]

LEMMA RecoveringFields ==
    ASSUME NEW k, IsWork(k), NEW g, NEW epoch
    PROVE  LET j == Recovering(k, g, epoch) IN
           /\ IsWork(j) /\ j.grant = g /\ j.epoch = epoch /\ j.used = 0 /\ j.st = "open"
           /\ j.op = k.op
<1>1. ASSUME NEW j, j = Recovering(k, g, epoch)
      PROVE
           /\ IsWork(j) /\ j.grant = g /\ j.epoch = epoch /\ j.used = 0 /\ j.st = "open"
           /\ j.op = k.op
  BY <1>1 DEF IsWork, Recovering
<1>2. QED
  BY <1>1

Recovered(k, a) ==
    [k EXCEPT !.recovery = a, !.moved = a, !.terminal = TRUE]

LEMMA RecoveredFields ==
    ASSUME NEW k, IsWork(k), NEW a
    PROVE  LET j == Recovered(k, a) IN
           /\ IsWork(j) /\ j.grant = k.grant /\ j.epoch = k.epoch /\ j.used = k.used
           /\ j.owner = k.owner /\ j.st = k.st /\ j.op = k.op
           /\ j.recovery = a /\ j.processing = k.processing /\ j.moved = a
<1>1. ASSUME NEW j, j = Recovered(k, a)
      PROVE
           /\ IsWork(j) /\ j.grant = k.grant /\ j.epoch = k.epoch /\ j.used = k.used
           /\ j.owner = k.owner /\ j.st = k.st /\ j.op = k.op
           /\ j.recovery = a /\ j.processing = k.processing /\ j.moved = a
  BY <1>1 DEF IsWork, Recovered
<1>2. QED
  BY <1>1

LEMMA SaveRecoveryInv ==
    Named /\ Inv /\ Save /\ SaveRecovery(saving) => Inv'
<1> SUFFICES ASSUME Named, Inv, Save, SaveRecovery(saving) PROVE Inv'
  OBVIOUS
<1> DEFINE a == saving
           p == approval[a].target
           k == Recovering(works[p], approval[a].grant, approval[a].epoch)
           j == Recovered(works[p], a)
<1>1. /\ a \in Approvals /\ approval[a].used /\ approval[a].kind = "resume_after_revocation"
      /\ ~OnFile(a) /\ p \in WorkIds /\ OnFile(p) /\ works[p].recovery = Absent
      /\ works[p].op # Absent /\ works[p].moved = Absent
  BY DEF Inv, Consumed, Save, SaveRecovery, Free
<1>2. saving' = Absent /\ UNCHANGED << approval, deletion, head >>
  BY DEF Save, SaveRecovery
<1>3. approval[a].grant # Absent /\ IsWork(works[p]) /\ a \in WorkIds /\ a # p
  BY <1>1 DEF Inv, Typed, IsApproval, WorkIds
<1>4. /\ DOMAIN works' = WorkIds /\ works'[a] = k /\ works'[p] = j
      /\ \A v \in WorkIds : v \notin {a, p} => works'[v] = works[v]
  BY <1>1, <1>3 DEF SaveRecovery, Inv, Typed, Recovering, Recovered
<1>5. /\ IsWork(k) /\ k.grant = approval[a].grant /\ k.epoch = approval[a].epoch /\ k.used = 0
      /\ k.st = "open" /\ k.op = works[p].op
  BY <1>3, RecoveringFields
<1>6. /\ IsWork(j) /\ j.grant = works[p].grant /\ j.epoch = works[p].epoch /\ j.used = works[p].used
      /\ j.owner = works[p].owner /\ j.st = works[p].st /\ j.op = works[p].op
      /\ j.recovery = a /\ j.processing = works[p].processing /\ j.moved = a
  BY <1>3, RecoveredFields
<1> HIDE DEF k, j
<1>7. QED
  BY <1>1, <1>2, <1>3, <1>4, <1>5, <1>6, ChildInv

Processing(k, g, epoch, a) ==
    [k EXCEPT !.grant = g, !.epoch = epoch, !.owner = a, !.used = 0, !.terminal = FALSE]

LEMMA ProcessingFields ==
    ASSUME NEW k, IsWork(k), NEW g, NEW epoch, NEW a
    PROVE  LET j == Processing(k, g, epoch, a) IN
           /\ IsWork(j) /\ j.grant = g /\ j.epoch = epoch /\ j.used = 0 /\ j.st = k.st
           /\ j.op = k.op /\ j.owner = a
<1>1. ASSUME NEW j, j = Processing(k, g, epoch, a)
      PROVE
           /\ IsWork(j) /\ j.grant = g /\ j.epoch = epoch /\ j.used = 0 /\ j.st = k.st
           /\ j.op = k.op /\ j.owner = a
  BY <1>1 DEF IsWork, Processing
<1>2. QED
  BY <1>1

Processed(k, a) ==
    [k EXCEPT !.processing = a]

LEMMA ProcessedFields ==
    ASSUME NEW k, IsWork(k), NEW a
    PROVE  LET j == Processed(k, a) IN
           /\ IsWork(j) /\ j.grant = k.grant /\ j.epoch = k.epoch /\ j.used = k.used
           /\ j.owner = k.owner /\ j.st = k.st /\ j.op = k.op
           /\ j.recovery = k.recovery /\ j.processing = a /\ j.moved = k.moved
<1>1. ASSUME NEW j, j = Processed(k, a)
      PROVE
           /\ IsWork(j) /\ j.grant = k.grant /\ j.epoch = k.epoch /\ j.used = k.used
           /\ j.owner = k.owner /\ j.st = k.st /\ j.op = k.op
           /\ j.recovery = k.recovery /\ j.processing = a /\ j.moved = k.moved
  BY <1>1 DEF IsWork, Processed
<1>2. QED
  BY <1>1

LEMMA SaveProcessingInv ==
    Named /\ Inv /\ Save /\ SaveProcessing(saving) => Inv'
<1> SUFFICES ASSUME Named, Inv, Save, SaveProcessing(saving) PROVE Inv'
  OBVIOUS
<1> DEFINE a == saving
           p == approval[a].target
           k == Processing(works[p], approval[a].grant, approval[a].epoch, a)
           j == Processed(works[p], a)
<1>1. /\ a \in Approvals /\ approval[a].used /\ approval[a].kind = "new_processing_budget"
      /\ ~OnFile(a) /\ p \in WorkIds /\ OnFile(p) /\ Processable(p)
  BY DEF Inv, Consumed, Save, SaveProcessing, Free
<1>2. saving' = Absent /\ UNCHANGED << approval, deletion, head >>
  BY DEF Save, SaveProcessing
<1>3. approval[a].grant # Absent /\ IsWork(works[p]) /\ a \in WorkIds /\ a # p
  BY <1>1 DEF Inv, Typed, IsApproval, WorkIds
<1>4. /\ DOMAIN works' = WorkIds /\ works'[a] = k /\ works'[p] = j
      /\ \A v \in WorkIds : v \notin {a, p} => works'[v] = works[v]
  BY <1>1, <1>3 DEF SaveProcessing, OwnBudget, Inv, Typed, Processing, Processed
<1>5. /\ IsWork(k) /\ k.grant = approval[a].grant /\ k.epoch = approval[a].epoch /\ k.used = 0
      /\ k.st = works[p].st /\ k.op = works[p].op /\ k.owner = a
  BY <1>3, ProcessingFields
<1>6. /\ IsWork(j) /\ j.grant = works[p].grant /\ j.epoch = works[p].epoch /\ j.used = works[p].used
      /\ j.owner = works[p].owner /\ j.st = works[p].st /\ j.op = works[p].op
      /\ j.recovery = works[p].recovery /\ j.processing = a /\ j.moved = works[p].moved
  BY <1>3, ProcessedFields
<1>7. works[p].processing = Absent /\ Fresh(p)
  BY <1>1 DEF Processable, Fresh
<1> HIDE DEF k, j
<1>8. QED
  BY <1>1, <1>2, <1>3, <1>4, <1>5, <1>6, <1>7, ChildInv

-----------------------------------------------------------------------------
(* The deletion of the memory. *)

Cleared(k, st) ==
    [k EXCEPT !.op = Absent, !.before = Absent, !.st = st]

LEMMA ClearedFields ==
    ASSUME NEW k, IsWork(k), NEW st
    PROVE  LET j == Cleared(k, st) IN
           /\ IsWork(j) /\ j.grant = k.grant /\ j.epoch = k.epoch /\ j.owner = k.owner
           /\ j.used = k.used /\ j.op = Absent /\ j.recovery = k.recovery
           /\ j.processing = k.processing /\ j.st = st
<1>1. ASSUME NEW j, j = Cleared(k, st)
      PROVE
           /\ IsWork(j) /\ j.grant = k.grant /\ j.epoch = k.epoch /\ j.owner = k.owner
           /\ j.used = k.used /\ j.op = Absent /\ j.recovery = k.recovery
           /\ j.processing = k.processing /\ j.st = st
  BY <1>1 DEF IsWork, Cleared
<1>2. QED
  BY <1>1

LEMMA WithdrawnInv ==
    ASSUME Named, Inv, works' = Withdrawn, UNCHANGED approval, Consumed', IsDeletion(deletion)',
           deletion'.buried \subseteq deletion.buried \cup Operations, ~deletion'.done \/ head' = Absent
    PROVE  Inv'
<1>1. /\ DOMAIN works' = WorkIds
      /\ \A v \in WorkIds : works[v].op = Absent => works'[v] = works[v]
  BY DEF Withdrawn
<1>2. ASSUME NEW v \in WorkIds, works[v].op # Absent
      PROVE  LET k == works'[v] IN
             /\ IsWork(k) /\ k.grant = works[v].grant /\ k.epoch = works[v].epoch
             /\ k.owner = works[v].owner /\ k.used = works[v].used /\ k.op = Absent
             /\ k.recovery = works[v].recovery /\ k.processing = works[v].processing
             /\ k.st = IF works[v].st = "open" THEN "cancelled" ELSE works[v].st
  <2>1. IsWork(works[v])
    BY DEF Inv, Typed
  <2>2. works'[v] = Cleared(works[v], IF works[v].st = "open" THEN "cancelled" ELSE works[v].st)
    BY <1>2 DEF Withdrawn, Cleared
  <2>3. QED
    BY <2>1, <2>2, ClearedFields
<1>3. \A v \in WorkIds :
        /\ IsWork(works'[v]) /\ works'[v].grant = works[v].grant /\ works'[v].epoch = works[v].epoch
        /\ works'[v].owner = works[v].owner /\ works'[v].used = works[v].used
        /\ works'[v].op = Absent /\ works'[v].recovery = works[v].recovery
        /\ works'[v].processing = works[v].processing
        /\ works'[v].st # "open" /\ (Fresh(v)' <=> Fresh(v))
  BY <1>1, <1>2 DEF Inv, Typed, Stamped, Fresh
<1>4. Typed'
  <2>1. \A v \in WorkIds : OnFile(v)' \/ works'[v] = NoWork
    BY <1>1, <1>3 DEF Inv, Typed, OnFile, NoWork
  <2>2. QED
    BY <1>1, <1>3, <2>1 DEF Inv, Typed
<1>5. Stamped'
  BY <1>3 DEF Inv, Stamped, OnFile
<1>6. Descended'
  <2>1. Approvals \subseteq WorkIds
    BY DEF WorkIds
  <2>2. QED
    BY <1>3, <2>1 DEF Inv, Descended, OnFile
<1>7. BudgetsApproved'
  BY <1>3 DEF Inv, BudgetsApproved
<1>8. Buried'
  <2>1. \A o \in deletion'.buried : o \in WorkIds /\ ~Fresh(o) /\ o # Absent
    BY DEF Named, Inv, Buried, Operations, Stamped, Typed
  <2>2. QED
    BY <1>3, <2>1 DEF Buried, BuriedForGood
<1>9. QED
  BY <1>4, <1>5, <1>6, <1>7, <1>8 DEF Inv

LEMMA SaveDeletionInv == Named /\ Inv /\ Save /\ SaveDeletion(saving) => Inv'
<1> SUFFICES ASSUME Named, Inv, Save, SaveDeletion(saving) PROVE Inv'
  OBVIOUS
<1>1. works' = Withdrawn /\ UNCHANGED approval /\ saving' = Absent /\ ~deletion.done
  BY DEF Save, SaveDeletion, Inv, Consumed, Free
<1>2. IsDeletion(deletion)' /\ deletion'.buried = Operations /\ ~deletion'.done
  BY <1>1 DEF SaveDeletion, Inv, Typed, IsDeletion
<1>3. Consumed'
  BY <1>1 DEF Consumed
<1>4. QED
  BY <1>1, <1>2, <1>3, WithdrawnInv

LEMMA DeleteInv == ASSUME Named, Inv, NEW g, Delete(g) PROVE Inv'
<1>1. works' = Withdrawn /\ UNCHANGED approval /\ saving' = Absent /\ head' = Absent
  BY DEF Delete, Context, Free
<1>2. IsDeletion(deletion)' /\ deletion'.buried = deletion.buried \cup Operations
  BY DEF Delete, Inv, Typed, IsDeletion
<1>3. Consumed'
  BY <1>1 DEF Consumed
<1>4. QED
  BY <1>1, <1>2, <1>3, WithdrawnInv

LEMMA SaveInv == Named /\ Inv /\ Save => Inv'
<1> SUFFICES ASSUME Named, Inv, Save PROVE Inv'
  OBVIOUS
<1>1. CASE SaveSource(saving)
  <2>1. UNCHANGED << works, approval, deletion, head >> /\ Consumed'
    BY <1>1 DEF Save, SaveSource, Consumed
  <2>2. QED
    BY <2>1, ApprovalInv DEF Standing, Inv, Typed
<1>2. QED
  BY <1>1, SaveRecoveryInv, SaveProcessingInv, SaveDeletionInv DEF Save

-----------------------------------------------------------------------------
(* Every step. *)

LEMMA NextInv == Named /\ Inv /\ [Next]_vars => Inv'
<1> SUFFICES ASSUME Named, Inv, [Next]_vars PROVE Inv'
  OBVIOUS
<1>1. CASE UNCHANGED vars
  BY <1>1, QuietInv DEF vars
<1>2. ASSUME NEW g \in Grants, Revoke(g) \/ Alter(g) PROVE Inv'
  BY <1>2, QuietInv DEF Revoke, Alter
<1>3. ASSUME NEW g \in Grants, Preview(g) PROVE Inv'
  <2>1. deletion' = [NoPlan EXCEPT !.plan = deletion'.plan, !.grant = deletion'.grant,
                                   !.epoch = deletion'.epoch]
    BY <1>3 DEF Preview, NoPlan
  <2>2. QED
    BY <1>3, <2>1, QuietInv DEF Preview
<1>4. CASE Edit
  BY <1>4, QuietInv DEF Edit, Named
<1>5. CASE Owner
  BY <1>2, <1>5, ExpiresInv DEF Owner
<1>6. CASE Books
  BY <1>6, AccountInv, ApproveInv DEF Books
<1>7. CASE Client
  <2>1. ASSUME NEW w \in Roots, NEW g \in Grants, Prepare(w, g) PROVE Inv'
    BY <2>1, PrepareInv
  <2>2. ASSUME NEW w \in WorkIds, NEW g \in Grants, Submit(w, g) \/ Execute(w, g) \/ Cancel(w, g)
        PROVE  Inv'
    BY <2>2, SubmitInv, ExecuteInv, CancelInv
  <2>3. ASSUME NEW a \in Approvals, Consume(a) PROVE Inv'
    BY <2>3, ConsumeInv
  <2>4. QED
    BY <1>3, <1>7, <2>1, <2>2, <2>3, DeleteInv DEF Client
<1>8. QED
  BY <1>1, <1>4, <1>5, <1>6, <1>7, SaveInv, LoseInv DEF Next

\* What the parts of the invariant say of a state.
LEMMA StatesRight ==
    ASSUME Named, Inv
    PROVE  OneHolder /\ ChildrenApproved /\ InterruptedGoesOn /\ BudgetsApproved /\ BuriedForGood
<1>1. OneHolder
  BY DEF Inv, Stamped, OneHolder, Held
<1>2. ChildrenApproved
  BY DEF Inv, Descended, ChildrenApproved
<1>3. InterruptedGoesOn
  <2>1. ASSUME NEW a \in Approvals, approval[a].used, Bound(a), Resources(a),
               approval[a].kind \in {"resume_after_revocation", "new_processing_budget"}
        PROVE  Usable(a) /\ ~OnFile(a)
    <3>1. Usable(a)
      BY <2>1 DEF Usable, Exact
    <3>2. a # Absent
      BY DEF Named, WorkIds
    <3>3. \/ /\ approval[a].kind = "resume_after_revocation"
             /\ works[approval[a].target].recovery = Absent
          \/ /\ approval[a].kind = "new_processing_budget"
             /\ works[approval[a].target].processing = Absent
      BY <2>1 DEF Bound, MayPlan, Recoverable, Orphan, Processable
    <3>4. QED
      BY <3>1, <3>2, <3>3 DEF Inv, Descended
  <2>2. QED
    BY <2>1 DEF InterruptedGoesOn
<1>4. QED
  BY <1>1, <1>2, <1>3 DEF Inv, Buried

LEMMA WrittenRight == Named /\ Inv /\ [Next]_vars => WrittenUnderAuthority
<1> SUFFICES ASSUME Named, Inv, [Next]_vars, head' # head,
                    NEW w \in WorkIds, works[w].op = head', Held(works[w])
             PROVE  Active(works[w].grant, works[w].epoch)
  BY DEF WrittenUnderAuthority, Active
<1>1. head' \notin {Absent, "edited"}
  BY DEF Named, Inv, Typed, Stamped, Held
<1>2. PICK v \in WorkIds, g \in Grants : Execute(v, g)
  BY <1>1 DEF Next, vars, Owner, Books, Client, Save, Lose, Edit, Revoke, Alter, ApprovalExpires,
     Account, Same, Approve, Prepare, Submit, Cancel, Preview, Delete, Consume
<1>3. works[v].op = head' /\ Held(works[v]) /\ FrozenActive(works[v])
  BY <1>2 DEF Execute
<1>4. v = w
  BY <1>1, <1>3 DEF Inv, Stamped, Held
<1>5. QED
  BY <1>3, <1>4 DEF FrozenActive

\* In every behaviour a frozen operation is held by one work, and written only
\* under the authority that it was frozen with or that its owner approved; a
\* child is of the approval that allows it; an interrupted use of an approval
\* can go on; only approvals add to a budget; what was forgotten stays away.
\* This is what host_v2_auth.py and host_v2_owner.py promise for every number of
\* grants, works and approvals, and any history of theirs.
THEOREM AuthorityKept ==
    ASSUME Named
    PROVE  Spec => AuthorityHolds
<1>1. Init => Inv
  BY InitInv
<1>2. Inv /\ [Next]_vars => Inv'
  BY NextInv
<1>3. Inv => OneHolder /\ ChildrenApproved /\ InterruptedGoesOn /\ BudgetsApproved /\ BuriedForGood
  BY StatesRight
<1>4. Inv /\ [Next]_vars => WrittenUnderAuthority
  BY WrittenRight
<1>5. (OneHolder /\ ChildrenApproved /\ InterruptedGoesOn /\ BudgetsApproved /\ BuriedForGood)'
      /\ WrittenUnderAuthority => StepsRight
  BY DEF StepsRight
<1>6. QED
  BY <1>1, <1>2, <1>3, <1>4, <1>5, PTL DEF Spec, AuthorityHolds
=============================================================================
