--------------------------- MODULE HostAuthority ---------------------------
(***************************************************************************)
(* Who may write, and on whose approval (host_v2_auth.py, host_v2_owner.py *)
(* and the parts of host_v2.py that ask them).  Grants and approvals are   *)
(* in one file, works and deletion plans in another: an approval is        *)
(* consumed in the first before what it allows is saved in the second, and *)
(* the process may die in between.  One memory, one item per work; an      *)
(* operation is named after the work that froze it, a child after the      *)
(* approval that allows it.  How a frozen operation reaches its file is    *)
(* the subject of HostWork.                                                *)
(***************************************************************************)
EXTENDS Naturals, FiniteSets

CONSTANTS
    Grants, Roots, Approvals,
    Absent,
    Limit,        \* submissions a semantic budget allows
    Mixes         \* what happens in one behaviour: kinds of approvals given,
                  \* bounds on approvals, changes of authority and edits, the first head

VARIABLES
    grant,        \* grants by id: state and epoch
    approval,     \* approvals by id
    works,        \* the works of the host ledger
    deletion,     \* the deletion plan of the ledger
    head,         \* what the file of the memory holds
    saving,       \* the approval whose operation is about to be saved
    edits, changes,
    mix           \* what happens in this behaviour

vars == << grant, approval, works, deletion, head, saving, edits, changes, mix >>

WorkIds == Roots \cup Approvals
Final == {"saved"}
Settled == {"saved", "cancelled"}
Kinds == {"resume_after_revocation", "new_processing_budget", "permanent_delete",
          "source_confirmation"}

NoWork == [grant |-> Absent, epoch |-> 0, owner |-> Absent, used |-> 0, st |-> "none",
           op |-> Absent, before |-> Absent, marked |-> FALSE, moved |-> Absent,
           terminal |-> FALSE, recovery |-> Absent, processing |-> Absent, purpose |-> "none"]

NoApproval == [kind |-> "none", target |-> Absent, plan |-> << >>, grant |-> Absent,
               epoch |-> 0, used |-> FALSE, late |-> FALSE]

NoPlan == [plan |-> << >>, grant |-> Absent, epoch |-> 0, approved |-> FALSE, done |-> FALSE,
           buried |-> {}]

OnFile(w) == works[w].grant # Absent

(* Ids are new, and a child is never taken for a work that was prepared;   *)
(* what a person writes has none.                                          *)
Named ==
    /\ Absent \notin Grants \cup WorkIds /\ "edited" \notin WorkIds
    /\ Roots \cap Approvals = {}
    /\ Limit \in Nat

Init ==
    /\ grant = [g \in Grants |-> [st |-> "active", epoch |-> 1]]
    /\ approval = [a \in Approvals |-> NoApproval]
    /\ works = [w \in WorkIds |-> NoWork]
    /\ deletion = NoPlan
    /\ mix \in Mixes /\ head = mix.head
    /\ saving = Absent
    /\ edits = 0 /\ changes = 0

(***************************************************************************)
(* Grants.  The lock of the Vault is free exactly when nothing is being    *)
(* saved.                                                                  *)
(***************************************************************************)

Free == saving = Absent

ActiveById(g, epoch) == grant[g].st = "active"     \* mutant: the epoch is not compared

(* _active, with the epoch that a context or a work was frozen with. *)
Active(g, epoch) == grant[g].st = "active" /\ grant[g].epoch = epoch

Change == changes < mix.changes /\ changes' = changes + 1

Context(g) == Free /\ grant[g].st = "active"

FrozenActive(k) == Active(k.grant, k.epoch)

(* By the owner, or by the clock, which takes no lock: a revoked grant and *)
(* an expired one differ in their error message only.                      *)
Revoke(g) ==
    /\ grant[g].st = "active"
    /\ grant' = [grant EXCEPT ![g].st = "revoked"]
    /\ UNCHANGED << approval, works, deletion, head, saving, edits >> /\ Change

Alter(g) ==
    /\ Context(g)
    /\ grant' = [grant EXCEPT ![g].epoch = @ + 1]
    /\ UNCHANGED << approval, works, deletion, head, saving, edits >> /\ Change

(***************************************************************************)
(* Works, as far as authority goes.                                        *)
(***************************************************************************)

Applied(k) == IF head = k.op THEN "yes" ELSE IF head = k.before THEN "no" ELSE "unknown"

Put(w, k) == works' = [works EXCEPT ![w] = k]

Same == UNCHANGED << grant, approval, deletion, saving, edits >>

Prepare(w, g) ==
    /\ Context(g) /\ ~OnFile(w)
    /\ Put(w, [NoWork EXCEPT !.grant = g, !.epoch = grant[g].epoch, !.owner = w,
                             !.purpose = "semantic"])
    /\ Same /\ UNCHANGED head

(* A submission is charged, and defers its item or freezes an operation.   *)
Submit(w, g) ==
    LET k == works[w] IN
    /\ Context(g) /\ OnFile(w) /\ FrozenActive(k)
    /\ ~k.terminal /\ k.st \in {"none", "deferred"}
    /\ works[k.owner].used < Limit
    /\ \E st \in {"deferred", "open"} :
         LET spent == [works EXCEPT ![k.owner].used = @ + 1] IN
         works' = [spent EXCEPT
             ![w].st = st,
             ![w].op = IF st = "open" THEN w ELSE Absent,
             ![w].before = IF st = "open" THEN head ELSE Absent,
             ![w].terminal = st = "deferred" /\ spent[k.owner].used = Limit]
    /\ Same /\ UNCHANGED head

Held(k) == k.st = "open" /\ k.moved = Absent

Saved(k) == [k EXCEPT !.st = "saved", !.marked = TRUE, !.terminal = TRUE]

(* _execute, by a submission or a resume; it may die after the write.      *)
Execute(w, g) ==
    LET k == works[w] IN
    /\ Context(g) /\ OnFile(w) /\ FrozenActive(k) /\ Held(k)
    /\ \/ Applied(k) = "yes" /\ Put(w, Saved(k)) /\ UNCHANGED head
       \/ /\ Applied(k) = "no" /\ ~k.marked
          /\ head' = k.op
          /\ Put(w, Saved(k)) \/ Put(w, [k EXCEPT !.marked = TRUE]) \/ UNCHANGED works
    /\ Same

(* _cancel asks for a current context only, not for the frozen authority.  *)
Cancel(w, g) ==
    LET k == works[w] IN
    /\ Context(g) /\ OnFile(w) /\ k.st \notin Settled
    /\ Put(w, IF k.op # Absent /\ Applied(k) # "no" THEN [k EXCEPT !.st = "open"]
              ELSE [k EXCEPT !.st = "cancelled", !.op = Absent, !.before = Absent,
                             !.terminal = TRUE])
    /\ Same /\ UNCHANGED head

Edit ==
    /\ edits < mix.edits /\ edits' = edits + 1
    /\ head' \in {Absent, "edited"} \ {head}
    /\ UNCHANGED << grant, approval, works, deletion, saving >>

(* account_work: what a revoked or expired work did is found out; what it  *)
(* did not do is cancelled, and kept for a recovery.                       *)
Accounted(k) ==
    IF k.st \in Final THEN k
    ELSE IF k.op = Absent THEN [k EXCEPT !.st = "cancelled", !.terminal = TRUE]
    ELSE CASE Applied(k) = "yes" -> Saved(k)
           [] Applied(k) = "unknown" -> [k EXCEPT !.st = "open", !.terminal = FALSE]
           [] OTHER -> [k EXCEPT !.st = IF k.marked THEN "open" ELSE "cancelled",
                                 !.terminal = ~k.marked]

Account(w) ==
    /\ Free /\ OnFile(w) /\ ~FrozenActive(works[w]) /\ works[w].recovery = Absent
    /\ Accounted(works[w]) # works[w]
    /\ Put(w, Accounted(works[w]))
    /\ Same /\ UNCHANGED head

(***************************************************************************)
(* Plans, and the approvals that are bound to their exact content.         *)
(***************************************************************************)

Material(w) == << w, works[w], head >>

(* _plan *)
Orphan(w) == OnFile(w) /\ ~FrozenActive(works[w]) /\ works[w].recovery = Absent

Recoverable(w) ==
    /\ Orphan(w)
    /\ works[w].st \notin Final /\ works[w].op # Absent /\ works[w].moved = Absent

(* _processing_material *)
Processable(w) ==
    /\ OnFile(w)
    /\ works[w].st \in {"none", "deferred"}
    /\ works[w].processing = Absent /\ works[w].recovery = Absent

(* What a Forget would delete, and what it would cancel. *)
Pending == {w \in WorkIds : works[w].st = "open"}

Preview(g) ==
    /\ Context(g) /\ head # Absent /\ ~deletion.done /\ ~deletion.approved
    /\ deletion' = [NoPlan EXCEPT !.plan = << head, Pending >>, !.grant = g,
                                  !.epoch = grant[g].epoch]
    /\ UNCHANGED << grant, approval, works, head, saving, edits >>

PlanOf(kind, w) ==
    IF kind = "permanent_delete" THEN deletion.plan
    ELSE IF kind = "source_confirmation" THEN << "messages" >> ELSE Material(w)

MayPlan(kind, w) ==
    CASE kind = "resume_after_revocation" -> w # Absent /\ Recoverable(w)
      [] kind = "new_processing_budget" -> w # Absent /\ Processable(w)
      [] kind = "permanent_delete" -> w = Absent /\ deletion.plan # << >>
      [] kind = "source_confirmation" -> w = Absent

(* The owner approves a plan for a grant, as both are now. *)
Approve(a, kind, w, g) ==
    /\ Context(g) /\ approval[a] = NoApproval
    /\ Cardinality({b \in Approvals : approval[b] # NoApproval}) < mix.approvals
    /\ w = Absent \/ w # a
    /\ kind \in mix.kinds /\ MayPlan(kind, w)
    /\ approval' = [approval EXCEPT ![a] =
           [kind |-> kind, target |-> w, plan |-> PlanOf(kind, w), grant |-> g,
            epoch |-> grant[g].epoch, used |-> FALSE, late |-> FALSE]]
    /\ UNCHANGED << grant, works, deletion, head, saving, edits >>

ApprovalExpires(a) ==
    /\ approval[a] # NoApproval /\ ~approval[a].used /\ ~approval[a].late
    /\ approval' = [approval EXCEPT ![a].late = TRUE]
    /\ UNCHANGED << grant, works, deletion, head, saving, edits >> /\ Change

(***************************************************************************)
(* The use of an approval: consumed first, in the file of authority; then  *)
(* what it allows is saved.  Only the same operation, with the same plan,  *)
(* may go on from a consumed approval.                                     *)
(***************************************************************************)

Exact(ap) ==
    \/ ~ap.used /\ ~ap.late
    \/ ap.used /\ ap.kind # "source_confirmation"

Bound(a) ==
    LET ap == approval[a] IN
    /\ ap.kind \in Kinds
    /\ Active(ap.grant, ap.epoch)
    /\ ap.plan = PlanOf(ap.kind, ap.target)
    /\ MayPlan(ap.kind, ap.target)

(* prepare_authorized_recovery, prepare_authorized_processing and _forget  *)
(* refuse more than the plan does.                                         *)
Resources(a) ==
    LET ap == approval[a] IN
    /\ ap.kind = "resume_after_revocation" =>
         Applied(works[ap.target]) # "unknown"
         /\ ~(Applied(works[ap.target]) = "no" /\ works[ap.target].marked)
    /\ ap.kind = "new_processing_budget" => works[ap.target].purpose = "semantic"
    /\ ap.kind = "permanent_delete" =>
         /\ ap.plan = << head, Pending >> /\ ~deletion.approved /\ ~deletion.done
         /\ deletion.grant = ap.grant /\ deletion.epoch = ap.epoch

Usable(a) == Exact(approval[a]) /\ Bound(a) /\ Resources(a)

Consume(a) ==
    /\ Free /\ Usable(a)
    /\ approval[a].kind \in {"resume_after_revocation", "new_processing_budget"} => ~OnFile(a)
    /\ approval' = [approval EXCEPT ![a].used = TRUE]
    /\ saving' = a
    /\ UNCHANGED << grant, works, deletion, head, edits >>

SaveRecovery(a) ==
    LET p == approval[a].target
        parent == works[p]
    IN  /\ approval[a].kind = "resume_after_revocation"
        /\ works' = [works EXCEPT
               ![p].recovery = a, ![p].moved = a, ![p].terminal = TRUE,
               ![a] = [parent EXCEPT !.grant = approval[a].grant, !.epoch = approval[a].epoch,
                       !.used = 0, !.st = "open", !.moved = Absent, !.terminal = FALSE,
                       !.recovery = Absent, !.purpose = "authorized_recovery"]]
        /\ UNCHANGED deletion

OwnBudget(a, p) == a

SaveProcessing(a) ==
    LET p == approval[a].target IN
    /\ approval[a].kind = "new_processing_budget"
    /\ works' = [works EXCEPT
           ![p].processing = a,
           ![a] = [works[p] EXCEPT !.grant = approval[a].grant, !.epoch = approval[a].epoch,
                   !.owner = OwnBudget(a, p), !.used = 0, !.terminal = FALSE]]
    /\ UNCHANGED deletion

Operations == {works[w].op : w \in WorkIds} \ {Absent}

(* Pending operations are cancelled before the file is deleted. *)
Withdrawn ==
    [w \in WorkIds |->
        IF works[w].op = Absent THEN works[w]
        ELSE [works[w] EXCEPT !.op = Absent, !.before = Absent,
                              !.st = IF @ = "open" THEN "cancelled" ELSE @]]

SaveDeletion(a) ==
    /\ approval[a].kind = "permanent_delete"
    /\ deletion' = [deletion EXCEPT !.approved = TRUE, !.buried = Operations]
    /\ works' = Withdrawn

SaveSource(a) ==
    /\ approval[a].kind = "source_confirmation"
    /\ UNCHANGED << works, deletion >>

Save ==
    /\ ~Free
    /\ SaveRecovery(saving) \/ SaveProcessing(saving) \/ SaveDeletion(saving) \/ SaveSource(saving)
    /\ saving' = Absent
    /\ UNCHANGED << grant, approval, head, edits >>

(* The process dies, or the ledger cannot be written. *)
Lose ==
    /\ ~Free /\ saving' = Absent
    /\ UNCHANGED << grant, approval, works, deletion, head, edits >>

(* The rest of an approved deletion, also by a later call. *)
Delete(g) ==
    /\ Context(g) /\ deletion.approved /\ ~deletion.done
    /\ deletion.grant = g /\ deletion.epoch = grant[g].epoch
    /\ head \in {deletion.plan[1], Absent}
    /\ head' = Absent
    /\ deletion' = [deletion EXCEPT !.done = TRUE, !.buried = @ \cup Operations]
    /\ works' = Withdrawn
    /\ UNCHANGED << grant, approval, saving, edits >>

Owner ==
    \/ \E g \in Grants : Revoke(g) \/ Alter(g)
    \/ \E a \in Approvals : ApprovalExpires(a)

Books ==
    \/ \E w \in WorkIds : Account(w)
    \/ \E a \in Approvals, g \in Grants, kind \in Kinds, w \in WorkIds \cup {Absent} :
         Approve(a, kind, w, g)

Client ==
    \/ \E w \in Roots, g \in Grants : Prepare(w, g)
    \/ \E w \in WorkIds, g \in Grants : Submit(w, g) \/ Execute(w, g) \/ Cancel(w, g)
    \/ \E g \in Grants : Preview(g) \/ Delete(g)
    \/ \E a \in Approvals : Consume(a)

Next ==
    \/ Owner /\ UNCHANGED mix
    \/ (Books \/ Client \/ Save \/ Lose \/ Edit) /\ UNCHANGED << mix, changes >>

Spec == Init /\ [][Next]_vars

(***************************************************************************)
(* Properties.                                                             *)
(***************************************************************************)

(* "Recovery creates a new authorized child and retains the original       *)
(* operation IDs": a frozen operation can be executed by one work only.    *)
OneHolder ==
    \A v, w \in WorkIds : v # w /\ works[v].op # Absent /\ works[v].op = works[w].op =>
        ~Held(works[v]) \/ ~Held(works[w])

(* A child carries the authority its approval was bound to, and belongs to *)
(* the parent it was approved for, which knows it.                         *)
ChildrenApproved ==
    \A a \in {b \in Approvals : OnFile(b)} :
        LET ap == approval[a] IN
        /\ ap.used /\ works[a].grant = ap.grant /\ works[a].epoch = ap.epoch
        /\ a \in {works[ap.target].recovery, works[ap.target].processing}

(* "Only the same consumption ID and exact plan can complete the           *)
(* interrupted binding": as long as nothing has changed, it can.           *)
InterruptedGoesOn ==
    \A a \in Approvals :
        /\ approval[a].used /\ saving # a /\ Bound(a) /\ Resources(a)
        /\ approval[a].kind \in {"resume_after_revocation", "new_processing_budget"}
        => Usable(a) /\ ~OnFile(a)

(* "semantic_budget_added": only an approval adds to a budget, and once.   *)
BudgetsApproved ==
    \A w \in WorkIds :
        /\ works[w].used <= Limit
        /\ works[w].used > 0 => w \in Roots \/ approval[w].kind = "new_processing_budget"

(* Nothing that was frozen before a Forget can bring the memory back, not  *)
(* even a recovery that was approved before.                               *)
BuriedForGood ==
    deletion.done =>
        /\ head \notin deletion.buried
        /\ \A w \in WorkIds : works[w].op \notin deletion.buried

(* A frozen operation is written while the grant it was frozen under, or   *)
(* the one its recovery was approved for, is active and unchanged: "a      *)
(* refreshed connection must not turn a changed/replaced grant into        *)
(* renewed authority for a frozen work" (check).                           *)
WrittenUnderAuthority ==
    head' # head => \A w \in WorkIds : works[w].op = head' /\ Held(works[w]) =>
        grant[works[w].grant].st = "active" /\ grant[works[w].grant].epoch = works[w].epoch

StepsRight ==
    /\ (OneHolder /\ ChildrenApproved /\ InterruptedGoesOn)'
    /\ (BudgetsApproved /\ BuriedForGood)'
    /\ WrittenUnderAuthority

(* The authority over frozen work and the approvals of the owner, in every *)
(* step.                                                                   *)
AuthorityHolds == [][StepsRight]_vars
=============================================================================
