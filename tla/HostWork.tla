------------------------------ MODULE HostWork ------------------------------
(***************************************************************************)
(* The host ledger of memleaf (host_v2.py, HostMemory) and the frozen      *)
(* writes it drives (memory_writer.py, write_frozen_unlocked).             *)
(*                                                                         *)
(* An agent asks for memory changes in submissions of a `work'.  A         *)
(* submission is charged against a budget, its items are frozen into       *)
(* groups of file replacements, the ledger is saved, and only then are the *)
(* Markdown heads replaced, one atomic rename each, the old revision being *)
(* archived first.  The process may die, and any write may fail, between   *)
(* any two steps; a person may edit a Markdown file at any time, because   *)
(* editors do not take the Vault lock.                                     *)
(*                                                                         *)
(* One call is in flight at a time: call() holds the Vault lock from       *)
(* authentication to its answer, and the lock dies with the process.       *)
(* `disk' is the ledger file, `live' the copy the call in flight mutates.  *)
(***************************************************************************)
EXTENDS Naturals, Sequences, FiniteSets, Functions

CONSTANTS
    Works,      \* work ids, one per distinct set of sources
    Items,      \* item ids a submission may use
    Mems,       \* memory ids
    Seeded,     \* memories that exist before the first call
    ExtRevs,    \* revisions written by people, never by a frozen operation
    Requests,   \* request ids of the client
    Groups,     \* the memories a proposal may change, in the order it does
    Limit,      \* accepted submissions per work (3 in the code)
    MaxFaults,  \* bound on crashes, failed writes and refusals
    MaxEdits,   \* bound on edits made outside the program
    Absent      \* no such file

ASSUME LimitAssumption == Limit \in Nat \ {0}
ASSUME SeededAssumption == Seeded \subseteq Mems
ASSUME GroupsAssumption ==
    \A g \in Groups : /\ g \in Seq(Mems) /\ g # << >>
                      /\ \A a, b \in 1..Len(g) : g[a] = g[b] => a = b
ASSUME BoundsAssumption == MaxFaults \in Nat /\ MaxEdits \in Nat

VARIABLES
    head,       \* the current revision of each memory file, or Absent
    hist,       \* the revisions archived under history/ for each memory
    disk,       \* the ledger file
    live,       \* the ledger in the memory of the call in flight
    call,       \* where that call is
    sent,       \* the calls the client has issued, by request id
    faults, edits

vars == << head, hist, disk, live, call, sent, faults, edits >>

-----------------------------------------------------------------------------
(* Revisions.  A replacement carries the id of its frozen operation, so the *)
(* revision an item writes is named by work, item and submission.           *)

Ops  == Works \X Items \X (0..Limit)
Revs == ExtRevs \cup Ops
Heads == Revs \cup {Absent}

\* The id of a frozen operation never occurs in a revision a person wrote.
ASSUME RevisionsAssumption == Absent \notin Revs /\ ExtRevs \cap Ops = {}

Settled  == {"saved", "unchanged", "cancelled"}
Unsure   == {"prepared", "recovery_required"}
Outcomes == Settled \cup Unsure \cup {"none", "invalid"}
Statuses == {"absent", "pending", "submitted", "partial", "completed",
             "failed", "cancelled"}
Tools    == {"prepare", "refresh", "submit", "resume", "cancel"}

Nothing == [m \in Mems |-> Absent]

NoItem == [st |-> "none", sub |-> 0, group |-> << >>, before |-> Nothing,
           marked |-> {}, applied |-> "no"]

ItemType ==
    [st: Outcomes, sub: 0..Limit, group: Groups \cup {<< >>},
     before: [Mems -> Heads], marked: SUBSET Mems,
     applied: {"yes", "no", "unknown"}]

NoWork == [status |-> "absent", terminal |-> FALSE, rev |-> 0, used |-> 0,
           latest |-> 0, snap |-> Nothing, items |-> [i \in Items |-> NoItem]]

WorkType ==
    [status: Statuses, terminal: BOOLEAN, rev: Nat, used: 0..Limit,
     latest: 0..Limit, snap: [Mems -> Heads], items: [Items -> ItemType]]

LedgerType ==
    [work: [Works -> WorkType], request: [Requests -> {"none", "open", "answered"}]]

NoCall == [tool |-> "none"]

CallType ==
    [tool: Tools, work: Works, rev: Nat, sub: 1..(Limit + 1)] \cup {NoCall}

Idle == [at |-> "idle"]

Places == {"charge", "compile", "publish", "verify", "select", "guard", "apply",
           "replace", "rename", "confirm", "settle", "block", "finish", "reply", "fail",
           "answer"}

StepType ==
    {Idle} \cup
    [at: Places, req: Requests, todo: SUBSET Items, item: Items \cup {"none"},
     k: Nat, stale: BOOLEAN, error: {"none", "io", "validation"}]

TypeOK ==
    /\ head \in [Mems -> Heads]
    /\ hist \in [Mems -> SUBSET Revs]
    /\ disk \in LedgerType
    /\ live \in LedgerType
    /\ call \in StepType
    /\ sent \in [Requests -> CallType]
    /\ faults \in 0..MaxFaults
    /\ edits \in 0..MaxEdits

Init ==
    /\ head \in {h \in [Mems -> Heads] :
                    \A m \in Mems : IF m \in Seeded THEN h[m] \in ExtRevs
                                                    ELSE h[m] = Absent}
    /\ hist = [m \in Mems |-> {}]
    /\ disk = [work    |-> [w \in Works |-> NoWork],
               request |-> [r \in Requests |-> "none"]]
    /\ live = disk
    /\ call = Idle
    /\ sent = [r \in Requests |-> NoCall]
    /\ faults = 0
    /\ edits = 0

-----------------------------------------------------------------------------
(* Reading the ledger. *)

Unsettled(k) == {i \in Items : k.items[i].st \in Unsure}

\* mutant: a group that was frozen but never executed is forgotten
RecoveryRequiredLate(k) == \E i \in Items : k.items[i].st = "recovery_required"

RecoveryRequired(k) == Unsettled(k) # {}
Focus(k) == {i \in Items : k.items[i].st \notin Settled \cup {"none"}}
HasSettled(k) == \E i \in Items : k.items[i].st \in Settled

\* Blocked: memories held by a group whose outcome is not known yet.
MemsOf(it, states) == IF it.st \in states THEN Range(it.group) ELSE {}

Blocked(L) == UNION {MemsOf(L.work[w].items[i], Unsure) : w \in Works, i \in Items}

SettledMems(k) == UNION {MemsOf(k.items[i], Settled) : i \in Items}

(* _snapshot: every readable head that no unresolved group holds.  A client *)
(* may query for fewer; a proposal about fewer is among those about all.    *)
Snapshot(L) ==
    [m \in Mems |-> IF m \in Blocked(L) THEN Absent ELSE head[m]]

\* The head is one of the two revisions the group knows of, and no third one.
IntactOrNot(w, i, it, m) == TRUE    \* mutant: a third version is written over

Intact(w, i, it, m) == head[m] \in {<<w, i, it.sub>>, it.before[m]}

(* _applied: has the frozen replacement of m become its head?  "yes" needs  *)
(* the archived predecessor too; a third revision is "unknown".             *)
Applied(w, i, it, m) ==
    CASE ~Intact(w, i, it, m) -> "unknown"
      [] head[m] = <<w, i, it.sub>> ->
           IF it.before[m] \in hist[m] \cup {Absent} THEN "yes" ELSE "unknown"
      [] OTHER -> "no"

WhollyApplied(w, i, it) == \A m \in Range(it.group) : Applied(w, i, it, m) = "yes"

(* receipt.applied of a group that did not settle *)
GroupApplied(w, i, it) ==
    LET seen == {Applied(w, i, it, m) : m \in Range(it.group)}
    IN  CASE seen = {"yes"}      -> "yes"
          [] "unknown" \in seen  -> "unknown"
          [] seen = {"yes", "no"} -> "yes"
          [] OTHER -> "no"

(* _derive_status, at the end of every execution *)
Done(k) ==
    LET states == {k.items[i].st : i \in Items} \ {"none"}
    IN  states # {} /\ states \subseteq {"saved", "unchanged"}

Partly(k, other) == IF HasSettled(k) THEN "partial" ELSE other

\* mutant: completed as soon as something was saved and nothing is open
DerivedEarly(k) ==
    IF HasSettled(k) /\ ~RecoveryRequired(k)
    THEN [k EXCEPT !.status = "completed", !.terminal = TRUE]
    ELSE [k EXCEPT !.status = "pending"]

Derived(k) ==
    IF Done(k) THEN [k EXCEPT !.status = "completed", !.terminal = TRUE]
    ELSE IF RecoveryRequired(k) THEN [k EXCEPT !.status = Partly(k, "submitted")]
    ELSE IF k.used = Limit THEN [k EXCEPT !.status = Partly(k, "failed"), !.terminal = TRUE]
    ELSE [k EXCEPT !.status = Partly(k, "pending")]

(* The except clause of call(): what a charged submission that raised       *)
(* anything but an I/O error leaves behind.                                 *)
\* mutant: a submission that was refused is given back
DowngradedRefunded(k) == [k EXCEPT !.used = @ - 1, !.status = Partly(k, "pending")]

Downgraded(k) ==
    [k EXCEPT !.status = Partly(k, IF k.used = Limit THEN "failed" ELSE "pending"),
              !.terminal = @ \/ k.used = Limit]

-----------------------------------------------------------------------------
(* _save: temporary file, fsync, rename.  It may fail at any step before    *)
(* the rename and leaves the old file then; what comes after the rename     *)
(* (the fsync of the directory) cannot fail, the code ignores its errors.   *)
(* The call goes on with what it has in memory, unless it ends (bad = Idle).*)

Save(L, good, bad) ==
    \/ /\ disk' = L
       /\ live' = L
       /\ call' = good
       /\ UNCHANGED faults
    \/ /\ faults < MaxFaults
       /\ faults' = faults + 1
       /\ live' = IF bad = Idle THEN disk ELSE L
       /\ call' = bad
       /\ UNCHANGED disk

\* L with the work w and the retained request r replaced
Put(L, w, k, r, answer) == [L EXCEPT !.work[w] = k, !.request[r] = answer]

Work == sent[call.req].work
Tool == sent[call.req].tool
Charged == Tool = "submit"
Item == live.work[Work].items[call.item]
Member == Item.group[call.k]
Op == <<Work, call.item, Item.sub>>

\* the live ledger with the work, or the item, in hand replaced
PutWork(k) == [live EXCEPT !.work[Work] = k]
PutItem(it) == [live EXCEPT !.work[Work].items[call.item] = it]

Goto(place) == [call EXCEPT !.at = place]
Raise(kind) == IF Charged THEN [call EXCEPT !.at = "fail", !.error = kind] ELSE Idle

Enter(r, place) ==
    [at |-> place, req |-> r, todo |-> {}, item |-> "none", k |-> 0,
     stale |-> FALSE, error |-> "none"]

\* A call is executed once per request id; a repeated one only reads.
Accepted(r, tool) ==
    /\ call = Idle
    /\ sent[r].tool = tool
    /\ disk.request[r] = "none"

\* compare-and-swap on the revision of the work the client last saw
Current(r) ==
    /\ disk.work[sent[r].work].status # "absent"
    /\ sent[r].rev = disk.work[sent[r].work].rev

-----------------------------------------------------------------------------
(* The client and the world outside the lock. *)

\* A client issues a call about the work as it now stands; the call may reach
\* the service later, after others, or more than once.
Send(r, tool, w) ==
    /\ call = Idle
    /\ sent[r] = NoCall
    /\ IF tool = "prepare" THEN TRUE ELSE disk.work[w].status # "absent"
    /\ sent' = [sent EXCEPT ![r] =
                  [tool |-> tool, work |-> w, rev |-> disk.work[w].rev,
                   sub |-> disk.work[w].latest + 1]]
    /\ UNCHANGED << head, hist, disk, live, call, faults, edits >>

\* A person edits, deletes or restores a file.  A scan that was taken before
\* is stale from then on (ensure_scan_current compares it with the files).
ExternalEdit(m, v) ==
    /\ edits < MaxEdits
    /\ head[m] # Absent \/ m \in Seeded
    /\ v # head[m]
    /\ head' = [head EXCEPT ![m] = v]
    /\ edits' = edits + 1
    /\ call' = IF call.at \in {"replace", "rename"} THEN [call EXCEPT !.stale = TRUE] ELSE call
    /\ UNCHANGED << hist, disk, live, sent, faults >>

\* The process dies: the in-memory ledger is lost, the Vault lock is released.
Crash ==
    /\ call # Idle
    /\ faults < MaxFaults
    /\ faults' = faults + 1
    /\ call' = Idle
    /\ live' = disk
    /\ UNCHANGED << head, hist, disk, sent, edits >>

-----------------------------------------------------------------------------
(* prepare_memory.  mode=new creates the work of a set of sources once; the *)
(* same set later returns the existing work.                                *)

PrepareNew(r) ==
    /\ Accepted(r, "prepare")
    /\ disk.work[sent[r].work] = NoWork
    /\ live' = Put(disk, sent[r].work,
                   [NoWork EXCEPT !.status = "pending", !.rev = 1, !.snap = Snapshot(disk)],
                   r, "answered")
    /\ call' = Enter(r, "answer")
    /\ UNCHANGED << head, hist, disk, sent, faults, edits >>

PrepareRefresh(r) ==
    /\ Accepted(r, "refresh")
    /\ Current(r)
    /\ ~disk.work[sent[r].work].terminal
    /\ ~RecoveryRequired(disk.work[sent[r].work])
    /\ live' = Put(disk, sent[r].work,
                   [disk.work[sent[r].work] EXCEPT !.rev = @ + 1, !.snap = Snapshot(disk)],
                   r, "answered")
    /\ call' = Enter(r, "answer")
    /\ UNCHANGED << head, hist, disk, sent, faults, edits >>

AffordableOffByOne(k) == k.used <= Limit    \* mutant: one submission too many

Affordable(k) == k.used < Limit

(* submit_memory, the guards and the charge.  The snapshot id is compared   *)
(* too; refresh, which alone changes it, also advances the work revision.   *)
BeginSubmit(r) ==
    LET w == sent[r].work
        k == disk.work[w]
    IN  /\ Accepted(r, "submit")
        /\ Current(r)
        /\ ~k.terminal
        /\ ~RecoveryRequired(k)
        /\ sent[r].sub = k.latest + 1
        /\ Affordable(k)
        /\ live' = Put(disk, w,
                       [k EXCEPT !.used = @ + 1, !.latest = sent[r].sub, !.rev = @ + 1,
                                 !.status = "submitted"],
                       r, "open")
        /\ call' = Enter(r, "charge")
        /\ UNCHANGED << head, hist, disk, sent, faults, edits >>

SaveCharge ==
    /\ call.at = "charge"
    /\ Save(live, Goto("compile"), Raise("io"))
    /\ UNCHANGED << head, hist, sent, edits >>

-----------------------------------------------------------------------------
(* _submit: compile every item against the snapshot and freeze it.          *)

\* CREATE takes a generated id, so no file, archive or group ever had it.
Fresh(m) ==
    /\ m \notin Seeded
    /\ head[m] = Absent
    /\ hist[m] = {}
    /\ \A w \in Works, i \in Items : m \notin Range(live.work[w].items[i].group)

\* The checks made on the compiled changes of one item before it is frozen.
\* (The memories an unchanged item names are settled too; they are left out,
\* which allows a few freezes the code refuses.)
Freezable(k, g) ==
    /\ Range(g) \cap SettledMems(k) = {}
    /\ \/ /\ Len(g) = 1
          /\ Fresh(g[1])
       \/ \A m \in Range(g) : k.snap[m] # Absent /\ head[m] = k.snap[m]

\* ITEM_ALREADY_SETTLED otherwise
Open(k, i) == k.items[i].st \notin Settled

\* What becomes of one submitted item.  "unchanged" also stands for
\* not_recorded, "invalid" also for deferred.
Decisions(k) ==
    {[st |-> "invalid", group |-> << >>], [st |-> "unchanged", group |-> << >>]}
    \cup {[st |-> "prepared", group |-> g] : g \in {h \in Groups : Freezable(k, h)}}

Frozen(k, d) ==
    [st |-> d.st, sub |-> k.latest, group |-> d.group,
     before |-> [m \in Mems |-> IF m \in Range(d.group) THEN k.snap[m] ELSE Absent],
     marked |-> {}, applied |-> "no"]

\* Items of one submission may not change the same memory: if two do, all the
\* frozen groups of this submission are dropped.
Overlap(plan) ==
    \E i, j \in DOMAIN plan :
        i # j /\ Range(plan[i].group) \cap Range(plan[j].group) # {}

Deconflicted(plan) ==
    IF Overlap(plan)
    THEN [i \in DOMAIN plan |-> IF plan[i].st = "prepared"
                                THEN [st |-> "invalid", group |-> << >>]
                                ELSE plan[i]]
    ELSE plan

WithDecisions(k, plan) ==
    [k EXCEPT !.items = [i \in Items |-> IF i \in DOMAIN plan THEN Frozen(k, plan[i])
                                                              ELSE k.items[i]]]

\* The item set is either the items still open or, when there are none, any.
ItemSets(k) ==
    IF Focus(k) # {} THEN {Focus(k)} ELSE (SUBSET Items) \ {{}}

\* The shape of the whole submission is refused before any item is looked at.
CompileRefuses ==
    /\ call.at = "compile"
    /\ call' = Raise("validation")
    /\ UNCHANGED << head, hist, disk, live, sent, faults, edits >>

CompileAll ==
    LET k == live.work[Work]
    IN  /\ call.at = "compile"
        /\ \E ids \in ItemSets(k) :
             /\ \A i \in ids : Open(k, i)
             /\ \E plan \in [ids -> Decisions(k)] :
                  live' = PutWork(WithDecisions(k, Deconflicted(plan)))
        /\ call' = Goto("publish")
        /\ UNCHANGED << head, hist, disk, sent, faults, edits >>

\* The loop over the items is left half way: by an item that has settled in an
\* earlier submission, or by an I/O error while an item is compiled.  Items
\* before it are already frozen in the live ledger, and stay so.
CompileStops ==
    LET k == live.work[Work]
    IN  /\ call.at = "compile"
        /\ \E ids \in ItemSets(k), stop \in Items :
             /\ stop \in ids
             /\ \E done \in SUBSET (ids \ {stop}) :
                  /\ \A i \in done : Open(k, i)
                  /\ \E plan \in [done -> Decisions(k)] :
                       \/ /\ ~Open(k, stop)
                          /\ live' = PutWork(WithDecisions(k, plan))
                          /\ call' = Raise("validation")
                          /\ UNCHANGED faults
                       \/ /\ Open(k, stop)
                          /\ faults < MaxFaults
                          /\ faults' = faults + 1
                          /\ live' = PutWork(WithDecisions(k,
                                 [i \in done \cup {stop} |->
                                    IF i = stop THEN [st |-> "invalid", group |-> << >>]
                                                ELSE plan[i]]))
                          /\ call' = Raise("io")
        /\ UNCHANGED << head, hist, disk, sent, edits >>

\* mutant: execution starts before the frozen groups are on file
PublishLater ==
    /\ call.at = "publish"
    /\ call' = Goto("verify")
    /\ UNCHANGED << head, hist, disk, live, sent, faults, edits >>

Publish ==
    /\ call.at = "publish"
    /\ Save(live, Goto("verify"), Raise("io"))
    /\ UNCHANGED << head, hist, sent, edits >>

-----------------------------------------------------------------------------
(* _execute: write the frozen groups of one work.                           *)

\* resume_memory asks for nothing but the current revision of the work; a
\* terminal work may be resumed as well.
BeginResume(r) ==
    /\ Accepted(r, "resume")
    /\ Current(r)
    /\ call' = Enter(r, "verify")
    /\ UNCHANGED << head, hist, disk, live, sent, faults, edits >>

\* _verify_source: the sources and the native comparison the work was prepared
\* with must still hold; if not, nothing is executed.
Verify ==
    /\ call.at = "verify"
    /\ \/ /\ call' = [Goto("select") EXCEPT !.todo = Unsettled(live.work[Work])]
          /\ UNCHANGED faults
       \/ /\ faults < MaxFaults
          /\ faults' = faults + 1
          /\ call' = Raise("validation")
    /\ UNCHANGED << head, hist, disk, live, sent, edits >>

Select ==
    /\ call.at = "select"
    /\ \/ \E i \in call.todo :
             call' = [Goto("guard") EXCEPT !.item = i, !.todo = @ \ {i}, !.k = 1]
       \/ /\ call.todo = {}
          /\ call' = Goto("finish")
    /\ UNCHANGED << head, hist, disk, live, sent, faults, edits >>

\* Every member is looked at before the first one is written.
Writable(w, i, it) ==
    \A m \in Range(it.group) :
        \/ Applied(w, i, it, m) = "yes"
        \/ Applied(w, i, it, m) = "no" /\ m \notin it.marked

\* mutant: a group found on disk is settled without confirming its members
GuardSettles ==
    /\ call.at = "guard"
    /\ call' = Goto(IF WhollyApplied(Work, call.item, Item) THEN "settle"
                    ELSE IF Writable(Work, call.item, Item) THEN "apply" ELSE "block")
    /\ UNCHANGED << head, hist, disk, live, sent, faults, edits >>

Guard ==
    /\ call.at = "guard"
    /\ \/ /\ Writable(Work, call.item, Item)
          /\ call' = Goto("apply")
          /\ UNCHANGED faults
       \/ /\ ~Writable(Work, call.item, Item)
          /\ call' = Goto("block")
          /\ UNCHANGED faults
       \/ /\ faults < MaxFaults          \* authorization no longer allows it
          /\ faults' = faults + 1
          /\ call' = Goto("block")
    /\ UNCHANGED << head, hist, disk, live, sent, edits >>

\* write_frozen_unlocked, first half: compare the head, archive it.
ArchivedNothing(m) == hist          \* mutant: the replaced head is not archived

Archived(m) ==
    IF Item.before[m] = Absent THEN hist
    ELSE [hist EXCEPT ![m] = @ \cup {Item.before[m]}]

Replaceable == head[Member] # Op /\ Intact(Work, call.item, Item, Member)

Apply ==
    /\ call.at = "apply"
    /\ \/ /\ head[Member] = Op
          /\ call' = Goto("confirm")
          /\ UNCHANGED << hist, faults >>
       \/ /\ ~Intact(Work, call.item, Item, Member)
          /\ call' = Goto("block")
          /\ UNCHANGED << hist, faults >>
       \/ /\ Replaceable
          /\ hist' = Archived(Member)
          /\ call' = [Goto("replace") EXCEPT !.stale = FALSE]
          /\ UNCHANGED faults
       \/ /\ Replaceable
          /\ faults < MaxFaults
          /\ faults' = faults + 1
          /\ hist' \in {hist, Archived(Member)}
          /\ call' = Goto("block")
    /\ UNCHANGED << head, disk, live, sent, edits >>

\* write_frozen_unlocked, second half: the scan is checked again after the
\* history I/O.
Replace ==
    /\ call.at = "replace"
    /\ call' = IF call.stale THEN [Goto("block") EXCEPT !.stale = FALSE] ELSE Goto("rename")
    /\ UNCHANGED << head, hist, disk, live, sent, faults, edits >>

\* atomic_write_text: the new file is written and synced under another name,
\* then renamed.  Whatever a person saved since the check is overwritten.
Rename ==
    /\ call.at = "rename"
    /\ \/ /\ head' = [head EXCEPT ![Member] = Op]
          /\ call' = [Goto("confirm") EXCEPT !.stale = FALSE]
          /\ UNCHANGED faults
       \/ /\ faults < MaxFaults
          /\ faults' = faults + 1
          /\ call' = [Goto("block") EXCEPT !.stale = FALSE]
          /\ UNCHANGED head
    /\ UNCHANGED << hist, disk, live, sent, edits >>

MarkedForgotten == live             \* mutant: applied members are not marked

Marked == PutItem([Item EXCEPT !.marked = @ \cup {Member}])

NextItem == [Goto("select") EXCEPT !.item = "none", !.k = 0]

\* mutant: a member that is confirmed is taken up again
NextMemberAgain == IF call.k < Len(Item.group) THEN Goto("apply") ELSE Goto("settle")

NextMember ==
    IF call.k < Len(Item.group) THEN [Goto("apply") EXCEPT !.k = @ + 1] ELSE Goto("settle")

\* The head is read back, and the mark saved before the next member is touched.
Confirm ==
    /\ call.at = "confirm"
    /\ \/ /\ Applied(Work, call.item, Item, Member) = "yes"
          /\ Save(Marked, NextMember, Goto("block"))
       \/ /\ Applied(Work, call.item, Item, Member) # "yes"
          /\ call' = Goto("block")
          /\ UNCHANGED << disk, live, faults >>
    /\ UNCHANGED << head, hist, sent, edits >>

Settle ==
    /\ call.at = "settle"
    /\ \/ /\ WhollyApplied(Work, call.item, Item)
          /\ Save(PutItem([Item EXCEPT !.st = "saved", !.applied = "yes"]),
                  NextItem,
                  Goto("block"))
       \/ /\ ~WhollyApplied(Work, call.item, Item)
          /\ call' = Goto("block")
          /\ UNCHANGED << disk, live, faults >>
    /\ UNCHANGED << head, hist, sent, edits >>

\* The except clause of one group: say what is on disk, never guess.
Block ==
    /\ call.at = "block"
    /\ Save(PutItem([Item EXCEPT !.st = "recovery_required",
                                 !.applied = GroupApplied(Work, call.item, Item)]),
            NextItem,
            Raise("io"))
    /\ UNCHANGED << head, hist, sent, edits >>

-----------------------------------------------------------------------------
(* The end of a call. *)

\* Status, revision and answer are saved together.
Finished ==
    Put(live, Work,
        [Derived(live.work[Work]) EXCEPT !.rev = IF Tool = "resume" THEN @ + 1 ELSE @],
        call.req, "answered")

Finish ==
    /\ call.at = "finish"
    /\ Save(Finished, IF Charged THEN Goto("reply") ELSE Idle, Raise("io"))
    /\ UNCHANGED << head, hist, sent, edits >>

\* _authorize_response and the size of the answer: a charged submission whose
\* answer is refused becomes a charged failure.
Reply ==
    /\ call.at = "reply"
    /\ \/ /\ call' = Idle
          /\ UNCHANGED faults
       \/ /\ faults < MaxFaults
          /\ faults' = faults + 1
          /\ call' = Raise("validation")
    /\ UNCHANGED << head, hist, disk, live, sent, edits >>

\* The except clause of call() for a charged submission.
Fail ==
    /\ call.at = "fail"
    /\ LET k == live.work[Work]
       IN  Save(Put(live, Work, IF call.error = "io" THEN k ELSE Downgraded(k),
                    call.req, "answered"),
                Idle, Idle)
    /\ UNCHANGED << head, hist, sent, edits >>

\* cancel_memory: an item whose group shows any trace on disk is kept for
\* recovery, any other unsettled item is closed and its group dropped.
CancelItem(w, i, it) ==
    IF it.st \in Settled \cup {"none"} THEN it
    ELSE IF \E m \in Range(it.group) : Applied(w, i, it, m) # "no"
         THEN [it EXCEPT !.st = "recovery_required", !.applied = GroupApplied(w, i, it)]
         ELSE [it EXCEPT !.st = "cancelled", !.applied = "no", !.marked = {}]

CancelledItems(w, k) == [i \in Items |-> CancelItem(w, i, k.items[i])]

Traced(w, items) ==
    \E i \in Items :
        \/ items[i].st = "saved"
        \/ /\ items[i].st = "recovery_required"
           /\ \E m \in Range(items[i].group) : Applied(w, i, items[i], m) = "yes"

CancelWork(w, k) ==
    LET items     == CancelledItems(w, k)
        uncertain == \E i \in Items : items[i].st = "recovery_required"
    IN  [k EXCEPT !.items = items, !.rev = @ + 1, !.terminal = ~uncertain,
                  !.status = IF Traced(w, items) THEN "partial"
                             ELSE IF uncertain THEN "submitted" ELSE "cancelled"]

Cancel(r) ==
    LET w == sent[r].work
    IN  /\ Accepted(r, "cancel")
        /\ Current(r)
        /\ live' = Put(disk, w, CancelWork(w, disk.work[w]), r, "answered")
        /\ call' = Enter(r, "answer")
        /\ UNCHANGED << head, hist, disk, sent, faults, edits >>

\* The save of a call that is not charged: if it fails, the caller gets an
\* error and the live ledger is dropped.
Answer ==
    /\ call.at = "answer"
    /\ Save(live, Idle, Idle)
    /\ UNCHANGED << head, hist, sent, edits >>

-----------------------------------------------------------------------------
Service ==
    \/ SaveCharge \/ CompileRefuses \/ CompileAll \/ CompileStops \/ Publish
    \/ Verify \/ Select \/ Guard \/ Apply \/ Replace \/ Rename \/ Confirm \/ Settle \/ Block
    \/ Finish \/ Reply \/ Fail \/ Answer

Deliver(r) ==
    \/ PrepareNew(r) \/ PrepareRefresh(r) \/ BeginSubmit(r)
    \/ BeginResume(r) \/ Cancel(r)

Next ==
    \/ \E r \in Requests, t \in Tools, w \in Works : Send(r, t, w)
    \/ \E r \in Requests : Deliver(r)
    \/ Service
    \/ \E m \in Mems, v \in ExtRevs \cup {Absent} : ExternalEdit(m, v)
    \/ Crash

Spec == Init /\ [][Next]_vars

(* A call in flight is a running function: it proceeds to its answer.  What *)
(* clients send, and when, is not assumed.                                  *)
FairSpec == Spec /\ WF_vars(Service)

-----------------------------------------------------------------------------
(* Properties. *)

\* Write-ahead: a head written by the program belongs to a group the ledger
\* file holds, frozen under that very submission, and not given up since
\* (_submit saves before _execute; _cancel looks at the heads first).
Holds(it, m, s) == it.sub = s /\ m \in Range(it.group) /\ it.st \in Unsure \cup {"saved"}

WrittenFrom(L, heads) ==
    \A m \in Mems, w \in Works, i \in Items, s \in 0..Limit :
        heads[m] = <<w, i, s>> => Holds(L.work[w].items[i], m, s)

WrittenFromLedger == WrittenFrom(disk, head)

\* A group is written in its order: a later member (a duplicate retired by a
\* MERGE) is replaced only when every earlier one (the union) is marked as
\* applied in the ledger file.
ItemInOrder(w, i, it, heads) ==
    \A b \in DOMAIN it.group :
        heads[it.group[b]] = <<w, i, it.sub>> => \A a \in 1..(b - 1) : it.group[a] \in it.marked

InOrder(L, heads) == \A w \in Works, i \in Items : ItemInOrder(w, i, L.work[w].items[i], heads)

WrittenInOrder == InOrder(disk, head)

\* A receipt that says saved is true of the whole group: every member was
\* confirmed on disk and every revision it replaced is archived.
ItemWhole(it, archive) ==
    it.st = "saved" =>
        /\ it.applied = "yes"
        /\ it.group # << >>
        /\ Range(it.group) \subseteq it.marked
        /\ \A m \in Range(it.group) : it.before[m] \in archive[m] \cup {Absent}

Whole(L, archive) == \A w \in Works, i \in Items : ItemWhole(L.work[w].items[i], archive)

SavedIsWhole == Whole(disk, hist)

\* The budget: a work is charged once per submission request the ledger
\* retains, never more than the limit, and revisions of submissions count the
\* charges.
Submissions(w) ==
    {r \in Requests : /\ sent[r].tool = "submit" /\ sent[r].work = w
                      /\ disk.request[r] # "none"}

ChargedOncePerRequest ==
    \A w \in Works :
        /\ disk.work[w].used = Cardinality(Submissions(w))
        /\ disk.work[w].latest = disk.work[w].used

\* coverage_complete is reported for completed works only; it is then true.
CompletedIsDone ==
    \A w \in Works :
        disk.work[w].status = "completed" => disk.work[w].terminal /\ Done(disk.work[w])

\* Nothing is lost: a revision the program replaces, whoever wrote it, is in
\* the archive by then (write_frozen_unlocked), unless it was written after the
\* last look at the files, which do not keep editors out.  (An edit made
\* outside bumps `edits'.)
NothingLost ==
    [][\A m \in Mems :
         head'[m] # head[m] /\ edits' = edits /\ ~call.stale
            => head[m] \in hist[m] \cup {Absent}]_vars

\* Without edits from outside, a revision is replaced by one saved group at
\* most: works that were prepared on the same head do not fork it.
NoFork ==
    \A p, q \in Works \X Items :
        LET a == disk.work[p[1]].items[p[2]]
            b == disk.work[q[1]].items[q[2]]
        IN  p # q /\ a.st = "saved" /\ b.st = "saved" =>
              \A m \in Range(a.group) \cap Range(b.group) : a.before[m] # b.before[m]

\* The same request replays the same result: once a work is completed, every
\* submission it was charged for has one (docs/host-v2-contract.md, "Status,
\* identity and budget").  The code keeps the answer of a submission that died
\* after its charge empty for ever, even when a resume completes the work.
CompletedReplays ==
    \A r \in Requests :
        /\ call = Idle /\ sent[r].tool = "submit" /\ disk.request[r] # "none"
        /\ disk.work[sent[r].work].status = "completed"
        => disk.request[r] = "answered"

\* Every call comes to its end.
CallsReturn == call # Idle ~> call = Idle

-----------------------------------------------------------------------------
(* The ledger file implements WorkPromise. *)

OutcomeOf(w, i) ==
    LET st == disk.work[w].items[i].st
    IN  IF st \in Unsure THEN "frozen" ELSE IF st \in Settled THEN st ELSE "open"

UsedMap    == [w \in Works |-> disk.work[w].used]
AttemptMap == [w \in Works |-> [i \in Items |-> disk.work[w].items[i].sub]]
OutcomeMap == [w \in Works |-> [i \in Items |-> OutcomeOf(w, i)]]

Promise == INSTANCE WorkPromise WITH
    used <- UsedMap, attempt <- AttemptMap, outcome <- OutcomeMap

KeepsPromise == Promise!PromiseSpec
=============================================================================
