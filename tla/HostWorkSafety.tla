--------------------------- MODULE HostWorkSafety ---------------------------
(* The inductive invariant of HostWork in two layers, and the safety        *)
(* theorems, for every number of works, items, memories and requests, every *)
(* budget and every bound on faults and edits.  The first layer has types,  *)
(* and where a call in flight can be; the second says that what the program *)
(* wrote comes from the ledger file, in order, whole, and replaces nothing  *)
(* that is not archived.                                                    *)
EXTENDS HostWork, TLAPS

(***************************************************************************)
(* The first layer.                                                        *)
(***************************************************************************)


-----------------------------------------------------------------------------
(* Typing of the operators that build ledgers. *)

LEMMA PutType ==
    ASSUME NEW L \in LedgerType, NEW w \in Works, NEW k \in WorkType, NEW r \in Requests,
           NEW answer \in {"none", "open", "answered"}
    PROVE  Put(L, w, k, r, answer) \in LedgerType
BY DEF Put, LedgerType

LEMMA PutWorkType ==
    ASSUME live \in LedgerType, NEW k \in WorkType
    PROVE  PutWork(k) \in LedgerType
BY DEF PutWork, LedgerType

LEMMA PutItemType ==
    ASSUME live \in LedgerType, NEW it \in ItemType
    PROVE  PutItem(it) \in LedgerType
<1> SUFFICES ASSUME Work \in Works
             PROVE  PutItem(it) \in LedgerType
  BY DEF PutItem, LedgerType
<1>1. live.work[Work] \in WorkType
  BY DEF LedgerType
<1>2. [live.work[Work] EXCEPT !.items[call.item] = it] \in WorkType
  BY <1>1 DEF WorkType
<1>3. QED
  BY <1>2 DEF PutItem, LedgerType

LEMMA SnapshotType ==
    ASSUME NEW L, head \in [Mems -> Heads]
    PROVE  Snapshot(L) \in [Mems -> Heads]
BY DEF Snapshot, Heads

LEMMA NoItemType == NoItem \in ItemType
BY LimitAssumption DEF NoItem, ItemType, Nothing, Outcomes, Heads, Settled, Unsure

LEMMA NoWorkType == NoWork \in WorkType
BY NoItemType, LimitAssumption DEF NoWork, WorkType, Nothing, Heads, Statuses

LEMMA DerivedType ==
    ASSUME NEW k \in WorkType
    PROVE  Derived(k) \in WorkType
BY DEF Derived, WorkType, Partly, Statuses

LEMMA DowngradedType ==
    ASSUME NEW k \in WorkType
    PROVE  Downgraded(k) \in WorkType
BY DEF Downgraded, WorkType, Partly, Statuses

LEMMA CancelItemType ==
    ASSUME NEW w, NEW i, NEW it \in ItemType
    PROVE  CancelItem(w, i, it) \in ItemType
BY DEF CancelItem, ItemType, Outcomes, GroupApplied, Settled, Unsure

LEMMA CancelledItemsType ==
    ASSUME NEW w, NEW k \in WorkType
    PROVE  CancelledItems(w, k) \in [Items -> ItemType]
BY CancelItemType DEF CancelledItems, WorkType

LEMMA CancelWorkType ==
    ASSUME NEW w, NEW k \in WorkType
    PROVE  CancelWork(w, k) \in WorkType
<1> DEFINE items == CancelledItems(w, k)
           uncertain == \E i \in Items : items[i].st = "recovery_required"
           closed == ~uncertain
           rev == k.rev + 1
           status == IF Traced(w, items) THEN "partial"
                     ELSE IF uncertain THEN "submitted" ELSE "cancelled"
<1>1. CancelWork(w, k) = [k EXCEPT !.items = items, !.rev = rev, !.terminal = closed,
                                   !.status = status]
  BY Zenon DEF CancelWork
<1>2. closed \in BOOLEAN /\ status \in Statuses /\ items \in [Items -> ItemType]
  BY CancelledItemsType DEF Statuses
<1>3. rev \in Nat
  BY DEF WorkType
<1> HIDE DEF items, uncertain, closed, status, rev
<1>4. PICK i \in [Items -> ItemType], c \in BOOLEAN, s \in Statuses, n \in Nat :
        CancelWork(w, k) = [k EXCEPT !.items = i, !.rev = n, !.terminal = c, !.status = s]
  BY <1>1, <1>2, <1>3, Zenon
<1>5. QED
  BY <1>4 DEF WorkType

LEMMA DecisionType ==
    ASSUME NEW k, NEW d \in Decisions(k)
    PROVE  /\ d.st \in {"invalid", "unchanged", "prepared"}
           /\ d.group \in Groups \cup {<< >>}
BY DEF Decisions

LEMMA FrozenType ==
    ASSUME NEW k \in WorkType, NEW d,
           d.st \in {"invalid", "unchanged", "prepared"},
           d.group \in Groups \cup {<< >>}
    PROVE  Frozen(k, d) \in ItemType
<1> DEFINE before == [m \in Mems |-> IF m \in Range(d.group) THEN k.snap[m] ELSE Absent]
<1>1. before \in [Mems -> Heads]
  BY DEF WorkType, Heads
<1>2. k.latest \in 0..Limit
  BY DEF WorkType
<1>3. Frozen(k, d) = [st |-> d.st, sub |-> k.latest, group |-> d.group, before |-> before,
                      marked |-> {}, applied |-> "no"]
  BY DEF Frozen
<1> HIDE DEF before
<1>4. QED
  BY <1>1, <1>2, <1>3 DEF ItemType, Outcomes, Settled, Unsure

-----------------------------------------------------------------------------
(* The first layer of the inductive invariant: types, and that a call in    *)
(* flight stands for a call that was sent, with an item and a member in     *)
(* hand where the code has them.                                            *)

ItemPlaces == {"guard", "apply", "replace", "rename", "confirm", "settle", "block"}

\* A group whose outcome is open, or that was saved, has members; and every
\* submission took the next number.
WorkKept(k) ==
    /\ k.latest = k.used
    /\ \A i \in Items : k.items[i].st \in Unsure \cup {"saved"} => k.items[i].group # << >>

Kept(L) == \A w \in Works : WorkKept(L.work[w])

\* Only a charged submission reaches these.
ChargedPlaces == {"charge", "compile", "publish", "reply", "fail"}

CallSent ==
    call # Idle => sent[call.req] # NoCall /\ (call.at \in ChargedPlaces => Charged)

HandHeld ==
    call.at \in ItemPlaces =>
        /\ call.item \in Items
        /\ Item.st \in Unsure \cup {"saved"}
        /\ call.k \in 1..Len(Item.group)

\* The items whose group may be on disk.
Written(k) == {i \in Items : k.items[i].st \in Unsure \cup {"saved"}}

TodoHeld ==
    call.at \in ItemPlaces \cup {"select"} => call.todo \subseteq Written(live.work[Work])

\* Places where the ledger in memory is the one on file.
Synced == {"verify", "reply"}

IdleInStep == call = Idle \/ call.at \in Synced => live = disk

Placed ==
    CallSent /\ HandHeld /\ TodoHeld /\ IdleInStep /\ Kept(disk) /\ Kept(live)

Typed == TypeOK /\ Placed

\* What a call in flight is made of.
LEMMA InFlight ==
    ASSUME Typed, call # Idle
    PROVE  /\ call.req \in Requests /\ Work \in Works /\ Tool \in Tools
           /\ call.todo \in SUBSET Items
           /\ live.work[Work] \in WorkType
           /\ live.work[Work].items \in [Items -> ItemType]
           /\ \A place \in Places : Goto(place) \in StepType /\ Goto(place) # Idle
           /\ \A kind \in {"none", "io", "validation"} : Raise(kind) \in StepType
<1>1. /\ call.req \in Requests /\ call.todo \in SUBSET Items
      /\ \A place \in Places : Goto(place) \in StepType /\ Goto(place) # Idle
      /\ \A kind \in {"none", "io", "validation"} : Raise(kind) \in StepType
  BY DEF Typed, TypeOK, StepType, Goto, Raise, Idle, Places
<1>2. sent[call.req] \in [tool: Tools, work: Works, rev: Nat, sub: 1..(Limit + 1)]
  BY <1>1 DEF Typed, TypeOK, Placed, CallSent, CallType
<1>3. Work \in Works /\ Tool \in Tools
  BY <1>2 DEF Work, Tool
<1>4. live.work[Work] \in WorkType
  BY <1>3 DEF Typed, TypeOK, LedgerType
<1>5. live.work[Work].items \in [Items -> ItemType]
  BY <1>4 DEF WorkType
<1>6. QED
  BY <1>1, <1>3, <1>4, <1>5

\* The item in hand, and the member of its group that is being written.
LEMMA InHandType ==
    ASSUME Typed, call.at \in ItemPlaces
    PROVE  /\ call # Idle /\ call.item \in Items /\ Item \in ItemType
           /\ Item.group \in Groups /\ Member \in Mems
           /\ Item.sub \in 0..Limit
<1>1. call # Idle
  BY DEF Idle, ItemPlaces
<1>2. call.item \in Items /\ Item \in ItemType
  BY <1>1, InFlight DEF Typed, Placed, HandHeld, Item
<1>3. Item.group # << >>
  BY <1>1, <1>2, InFlight DEF Typed, Placed, HandHeld, Kept, WorkKept, Item
<1>4. Item.group \in Groups /\ Item.sub \in 0..Limit
  BY <1>2, <1>3 DEF ItemType
<1>5. Item.group \in Seq(Mems) /\ call.k \in 1..Len(Item.group)
  BY <1>4, GroupsAssumption DEF Typed, Placed, HandHeld
<1>6. Member \in Mems
  BY <1>5 DEF Member
<1>7. QED
  BY <1>1, <1>2, <1>4, <1>6

LEMMA SaveTyped ==
    ASSUME Typed, NEW L \in LedgerType, NEW good \in StepType, NEW bad \in StepType,
           Kept(L), Save(L, good, bad)
    PROVE  /\ disk' \in LedgerType /\ live' \in LedgerType
           /\ call' \in {good, bad} /\ faults' \in 0..MaxFaults
           /\ Kept(disk)' /\ Kept(live)'
           /\ call' = Idle => live' = disk'
           /\ call' # Idle => live' = L
<1>1. disk' \in {disk, L} /\ live' \in {disk', L} /\ call' \in {good, bad}
      /\ (call' = Idle => live' = disk') /\ (call' # Idle => live' = L)
  BY DEF Save
<1>2. faults' \in 0..MaxFaults
  BY BoundsAssumption DEF Save, Typed, TypeOK
<1>3. Kept(disk') /\ Kept(live')
  BY <1>1 DEF Typed, Placed
<1>4. QED
  BY <1>1, <1>2, <1>3 DEF Typed, TypeOK, Kept

\* A step that saves, and leaves the files, the calls sent and the edits alone.
LEMMA SaveStepTyped ==
    ASSUME Typed, NEW L \in LedgerType, NEW good \in StepType, NEW bad \in StepType,
           Kept(L), Save(L, good, bad), UNCHANGED << head, hist, sent, edits >>,
           CallSent', HandHeld', TodoHeld', call'.at \in Synced => live' = disk'
    PROVE  Typed'
<1>1. TypeOK'
  BY SaveTyped DEF Typed, TypeOK
<1>2. QED
  BY <1>1, SaveTyped DEF Typed, Placed, IdleInStep

LEMMA TypedInit == Init => Typed
<1> SUFFICES ASSUME Init PROVE Typed
  OBVIOUS
<1>1. disk \in LedgerType
  BY NoWorkType DEF Init, LedgerType
<1>2. Kept(disk)
  BY DEF Init, Kept, WorkKept, NoWork, NoItem, Unsure
<1>3. TypeOK
  BY <1>1, BoundsAssumption DEF Init, TypeOK, StepType, CallType
<1>4. Placed
  BY <1>2 DEF Init, Placed, CallSent, HandHeld, TodoHeld, IdleInStep, Idle, ItemPlaces, Kept
<1>5. QED
  BY <1>3, <1>4 DEF Typed

-----------------------------------------------------------------------------
(* The first layer is kept by every action. *)

LEMMA EnterType ==
    ASSUME NEW r \in Requests, NEW place \in Places
    PROVE  Enter(r, place) \in StepType /\ Enter(r, place) # Idle
BY DEF Enter, StepType, Idle, Places

\* A call accepted with the ledger L in memory, not yet at an item.
LEMMA EnterTyped ==
    ASSUME Typed, NEW r \in Requests, sent[r] # NoCall, call = Idle,
           NEW place \in Places \ (ItemPlaces \cup {"select"}),
           place \in ChargedPlaces => sent[r].tool = "submit",
           place \in Synced => live' = disk,
           call' = Enter(r, place), live' \in LedgerType, Kept(live'),
           UNCHANGED << head, hist, disk, sent, faults, edits >>
    PROVE  Typed'
<1>1. TypeOK'
  BY EnterType DEF Typed, TypeOK
<1>2. call' # Idle /\ call'.at = place /\ call'.req = r
  BY EnterType DEF Enter
<1>3. Placed'
  BY <1>2 DEF Typed, Placed, CallSent, HandHeld, TodoHeld, IdleInStep, Kept, Charged, Tool
<1>4. QED
  BY <1>1, <1>3 DEF Typed

LEMMA AcceptedType ==
    ASSUME Typed, NEW r \in Requests, NEW tool \in Tools, Accepted(r, tool)
    PROVE  /\ sent[r] # NoCall /\ sent[r].work \in Works /\ sent[r].sub \in 1..(Limit + 1)
           /\ sent[r].rev \in Nat /\ call = Idle
           /\ disk.work[sent[r].work] \in WorkType
           /\ disk \in LedgerType /\ head \in [Mems -> Heads]
<1>1. sent[r] # NoCall /\ call = Idle
  BY DEF Accepted, NoCall, Tools
<1>2. sent[r] \in [tool: Tools, work: Works, rev: Nat, sub: 1..(Limit + 1)]
  BY <1>1 DEF Typed, TypeOK, CallType
<1>3. QED
  BY <1>1, <1>2 DEF Typed, TypeOK, LedgerType

LEMMA SendTyped ==
    ASSUME Typed, NEW r \in Requests, NEW t \in Tools, NEW w \in Works, Send(r, t, w)
    PROVE  Typed'
<1> DEFINE c == [tool |-> t, work |-> w, rev |-> disk.work[w].rev,
                 sub |-> disk.work[w].latest + 1]
<1>1. disk.work[w].rev \in Nat /\ disk.work[w].latest \in 0..Limit
  BY DEF Typed, TypeOK, LedgerType, WorkType
<1>2. c \in CallType
  BY <1>1, LimitAssumption DEF CallType
<1>3. sent' = [sent EXCEPT ![r] = c]
  BY DEF Send
<1> HIDE DEF c
<1>4. TypeOK'
  BY <1>2, <1>3 DEF Typed, TypeOK, Send
<1>5. Placed'
  BY DEF Typed, Placed, CallSent, HandHeld, TodoHeld, IdleInStep, Kept, Send, Idle,
         ItemPlaces
<1>6. QED
  BY <1>4, <1>5 DEF Typed

LEMMA ExternalEditTyped ==
    ASSUME Typed, NEW m \in Mems, NEW v \in ExtRevs \cup {Absent}, ExternalEdit(m, v)
    PROVE  Typed'
<1>1. CASE call.at \in {"replace", "rename"}
  <2>1. call # Idle /\ call' = [call EXCEPT !.stale = TRUE]
    BY <1>1 DEF ExternalEdit, Idle
  <2>2. call \in StepType \ {Idle}
    BY <2>1 DEF Typed, TypeOK
  <2>3. call' \in StepType /\ call'.at = call.at /\ call'.req = call.req
        /\ call'.item = call.item /\ call'.k = call.k
    BY <1>1, <2>1, <2>2 DEF StepType, Idle
  <2>4. Work' = Work /\ Item' = Item
    BY <2>3 DEF ExternalEdit, Work, Item
  <2>5. TypeOK'
    BY <2>3, BoundsAssumption DEF Typed, TypeOK, ExternalEdit, Heads, Revs
  <2>6. Placed'
    BY <1>1, <2>1, <2>3, <2>4 DEF Typed, Placed, CallSent, HandHeld, TodoHeld, IdleInStep,
           Kept, ExternalEdit, Idle, ItemPlaces, Charged, Tool, ChargedPlaces
  <2>7. QED
    BY <2>5, <2>6 DEF Typed
<1>2. CASE call.at \notin {"replace", "rename"}
  <2>1. UNCHANGED << call, hist, disk, live, sent, faults >>
    BY <1>2 DEF ExternalEdit
  <2>2. TypeOK'
    <3>1. head' \in [Mems -> Heads] /\ edits' \in 0..MaxEdits
      BY BoundsAssumption DEF Typed, TypeOK, ExternalEdit, Heads, Revs
    <3>2. QED
      BY <2>1, <3>1 DEF Typed, TypeOK
  <2>3. Placed'
    BY <2>1 DEF Typed, Placed, CallSent, HandHeld, TodoHeld, IdleInStep, Kept,
           Work, Item, Unsettled, Charged, Tool
  <2>4. QED
    BY <2>2, <2>3 DEF Typed
<1>3. QED
  BY <1>1, <1>2

LEMMA CrashTyped ==
    ASSUME Typed, Crash
    PROVE  Typed'
<1>1. TypeOK'
  BY BoundsAssumption DEF Typed, TypeOK, Crash, StepType
<1>2. Placed'
  BY DEF Typed, Placed, CallSent, HandHeld, TodoHeld, IdleInStep, Kept,
         Crash, Idle, ItemPlaces
<1>3. QED
  BY <1>1, <1>2 DEF Typed

LEMMA PutHeld ==
    ASSUME NEW L \in LedgerType, Kept(L), NEW w \in Works, NEW k \in WorkType, WorkKept(k),
           NEW r \in Requests, NEW answer
    PROVE  Kept(Put(L, w, k, r, answer))
BY DEF Kept, Put, LedgerType

LEMMA PrepareNewTyped ==
    ASSUME Typed, NEW r \in Requests, PrepareNew(r)
    PROVE  Typed'
<1> DEFINE k == [NoWork EXCEPT !.status = "pending", !.rev = 1, !.snap = Snapshot(disk)]
<1>1. Accepted(r, "prepare") /\ "prepare" \in Tools
  BY DEF PrepareNew, Tools
<1>2. k \in WorkType
  BY <1>1, AcceptedType, NoWorkType, SnapshotType DEF WorkType, Statuses
<1>3. WorkKept(k)
  BY DEF WorkKept, NoWork, NoItem, Unsure
<1>4. live' = Put(disk, sent[r].work, k, r, "answered")
  BY DEF PrepareNew
<1> HIDE DEF k
<1>5. live' \in LedgerType /\ Kept(live')
  BY <1>1, <1>2, <1>3, <1>4, AcceptedType, PutType, PutHeld DEF Typed, Placed
<1>6. QED
  BY <1>1, <1>5, AcceptedType, EnterTyped DEF Synced, PrepareNew, Places, ItemPlaces, ChargedPlaces

LEMMA PrepareRefreshTyped ==
    ASSUME Typed, NEW r \in Requests, PrepareRefresh(r)
    PROVE  Typed'
<1> DEFINE old == disk.work[sent[r].work]
           n == old.rev + 1
           k == [old EXCEPT !.rev = n, !.snap = Snapshot(disk)]
<1>1. Accepted(r, "refresh") /\ "refresh" \in Tools
  BY DEF PrepareRefresh, Tools
<1>2. n \in Nat
  BY <1>1, AcceptedType DEF WorkType
<1>3. live' = Put(disk, sent[r].work, k, r, "answered")
  BY DEF PrepareRefresh
<1> HIDE DEF n
<1>4. k \in WorkType /\ k.items = old.items /\ k.latest = old.latest /\ k.used = old.used
  BY <1>1, <1>2, AcceptedType, SnapshotType DEF WorkType
<1>5. WorkKept(k)
  BY <1>1, <1>4, AcceptedType DEF WorkKept, Kept, Typed, Placed
<1> HIDE DEF k
<1>6. live' \in LedgerType /\ Kept(live')
  BY <1>1, <1>3, <1>4, <1>5, AcceptedType, PutType, PutHeld DEF Typed, Placed
<1>7. QED
  BY <1>1, <1>6, AcceptedType, EnterTyped DEF Synced, PrepareRefresh, Places, ItemPlaces, ChargedPlaces

LEMMA BeginSubmitTyped ==
    ASSUME Typed, NEW r \in Requests, BeginSubmit(r)
    PROVE  Typed'
<1> DEFINE old == disk.work[sent[r].work]
           n == old.rev + 1
           u == old.used + 1
           s == sent[r].sub
           k == [old EXCEPT !.used = u, !.latest = s, !.rev = n, !.status = "submitted"]
<1>1. Accepted(r, "submit") /\ "submit" \in Tools
  BY DEF BeginSubmit, Tools
<1>2. n \in Nat /\ u \in 0..Limit /\ s \in 0..Limit
  <2>1. old \in WorkType /\ s = old.latest + 1 /\ old.used < Limit
    BY <1>1, AcceptedType DEF BeginSubmit, Affordable
  <2>2. old.rev \in Nat /\ old.used \in 0..Limit /\ old.latest \in 0..Limit
    BY <2>1 DEF WorkType
  <2>3. old.latest = old.used
    BY <1>1, AcceptedType DEF Typed, Placed, Kept, WorkKept
  <2>4. QED
    BY <2>1, <2>2, <2>3, LimitAssumption
<1>3. live' = Put(disk, sent[r].work, k, r, "open")
  BY DEF BeginSubmit
<1>4. u = s
  BY <1>1, AcceptedType DEF BeginSubmit, Typed, Placed, Kept, WorkKept
<1> HIDE DEF n, u, s
<1>5. k \in WorkType /\ k.items = old.items /\ k.latest = s /\ k.used = u
  BY <1>1, <1>2, AcceptedType DEF WorkType, Statuses
<1>6. WorkKept(k)
  BY <1>1, <1>4, <1>5, AcceptedType DEF WorkKept, Kept, Typed, Placed
<1> HIDE DEF k
<1>7. live' \in LedgerType /\ Kept(live')
  BY <1>1, <1>3, <1>5, <1>6, AcceptedType, PutType, PutHeld DEF Typed, Placed
<1>8. QED
  BY <1>1, <1>7, AcceptedType, EnterTyped DEF Synced, BeginSubmit, Accepted, Places, ItemPlaces, ChargedPlaces

LEMMA BeginResumeTyped ==
    ASSUME Typed, NEW r \in Requests, BeginResume(r)
    PROVE  Typed'
<1>1. Accepted(r, "resume") /\ "resume" \in Tools
  BY DEF BeginResume, Tools
<1>2. live' \in LedgerType /\ Kept(live')
  BY DEF BeginResume, Typed, TypeOK, Placed
<1>3. live' = disk
  BY <1>1, AcceptedType DEF BeginResume, Typed, Placed, IdleInStep
<1>4. QED
  BY <1>1, <1>2, <1>3, AcceptedType, EnterTyped DEF BeginResume, Places, ItemPlaces, ChargedPlaces

\* Cancelling touches neither the charges nor the groups.
LEMMA CancelKept ==
    ASSUME NEW w, NEW k \in WorkType, WorkKept(k)
    PROVE  WorkKept(CancelWork(w, k))
<1>1. CancelWork(w, k).items = CancelledItems(w, k)
  BY DEF CancelWork, WorkType
<1>2. CancelWork(w, k).latest = k.latest /\ CancelWork(w, k).used = k.used
  BY DEF CancelWork, WorkType
<1>3. ASSUME NEW i \in Items,
             CancelledItems(w, k)[i].st \in Unsure \cup {"saved"}
      PROVE  CancelledItems(w, k)[i].group # << >>
  <2>1. k.items[i] \in ItemType
    BY DEF WorkType
  <2>2. CASE k.items[i].st \in Settled \cup {"none"}
    BY <1>3, <2>2 DEF CancelledItems, CancelItem, WorkKept
  <2>3. CASE k.items[i].st \notin Settled \cup {"none"}
    <3>1. \E m \in Range(k.items[i].group) : Applied(w, i, k.items[i], m) # "no"
      BY <1>3, <2>3 DEF CancelledItems, CancelItem, Unsure, Settled
    <3>2. k.items[i].group # << >>
      BY <3>1 DEF Range
    <3>3. QED
      BY <2>1, <2>3, <3>1, <3>2 DEF CancelledItems, CancelItem, ItemType
  <2>4. QED
    BY <2>2, <2>3
<1>4. QED
  BY <1>1, <1>2, <1>3 DEF WorkKept

LEMMA CancelTyped ==
    ASSUME Typed, NEW r \in Requests, Cancel(r)
    PROVE  Typed'
<1>1. Accepted(r, "cancel") /\ "cancel" \in Tools
  BY DEF Cancel, Tools
<1> DEFINE k == CancelWork(sent[r].work, disk.work[sent[r].work])
<1>2. k \in WorkType /\ WorkKept(k)
  BY <1>1, AcceptedType, CancelWorkType, CancelKept DEF Typed, Placed, Kept
<1>3. live' = Put(disk, sent[r].work, k, r, "answered")
  BY DEF Cancel
<1> HIDE DEF k
<1>4. live' \in LedgerType /\ Kept(live')
  BY <1>1, <1>2, <1>3, AcceptedType, PutType, PutHeld DEF Typed, Placed
<1>5. QED
  BY <1>1, <1>4, AcceptedType, EnterTyped DEF Synced, Cancel, Places, ItemPlaces, ChargedPlaces

\* A step of the call in flight that touches neither ledger.
LEMMA MoveTyped ==
    ASSUME Typed, call # Idle, NEW c \in StepType, call' = c, c.req = call.req \/ c = Idle,
           c # Idle => (c.at \in ChargedPlaces => Charged),
           UNCHANGED << disk, live, sent, edits >>,
           head' \in [Mems -> Heads], hist' \in [Mems -> SUBSET Revs],
           faults' \in 0..MaxFaults,
           c = Idle \/ c.at \in Synced => live = disk,
           HandHeld', TodoHeld'
    PROVE  Typed'
<1>1. TypeOK'
  BY DEF Typed, TypeOK
<1>2. CallSent'
  BY DEF Typed, Placed, CallSent, Charged, Tool
<1>3. QED
  BY <1>1, <1>2 DEF Typed, Placed, IdleInStep, Kept

\* A place with nothing in hand.
Plain(c) ==
    c # Idle => /\ c.req = call.req
                /\ c.at \notin ItemPlaces \cup {"select"}
                /\ c.at \in ChargedPlaces => Charged

LEMMA PlainHolds ==
    ASSUME Plain(call')
    PROVE  HandHeld' /\ TodoHeld'
BY DEF Plain, HandHeld, TodoHeld, Idle, ItemPlaces

LEMMA GotoFields ==
    ASSUME Typed, call # Idle, NEW place \in Places
    PROVE  /\ Goto(place) \in StepType /\ Goto(place) # Idle
           /\ Goto(place).at = place /\ Goto(place).req = call.req
           /\ Goto(place).item = call.item /\ Goto(place).k = call.k
           /\ Goto(place).todo = call.todo
<1>1. call \in StepType \ {Idle}
  BY DEF Typed, TypeOK
<1>2. QED
  BY <1>1 DEF StepType, Goto, Idle, Places

LEMMA RaiseFields ==
    ASSUME Typed, call # Idle, NEW kind \in {"none", "io", "validation"}
    PROVE  /\ Raise(kind) \in StepType /\ Plain(Raise(kind))
           /\ Raise(kind) # Idle => Raise(kind).at = "fail" /\ Charged
           /\ Raise(kind) # Idle => Raise(kind).req = call.req
           /\ Charged => Raise(kind) # Idle
<1>1. call \in StepType \ {Idle}
  BY DEF Typed, TypeOK
<1>2. Raise(kind) = Idle \/ (Charged /\ Raise(kind) = [call EXCEPT !.at = "fail", !.error = kind])
  BY DEF Raise
<1>3. [call EXCEPT !.at = "fail", !.error = kind] \in StepType \ {Idle}
  BY <1>1 DEF StepType, Idle, Places
<1>4. Raise(kind) # Idle => Raise(kind).at = "fail" /\ Raise(kind).req = call.req
  BY <1>1, <1>2 DEF StepType, Idle
<1>5. Raise(kind) \in StepType /\ (Charged => Raise(kind) # Idle)
  BY <1>2, <1>3 DEF Raise, StepType
<1>6. QED
  BY <1>2, <1>4, <1>5 DEF Plain, ItemPlaces

LEMMA SavePlainTyped ==
    ASSUME Typed, call # Idle, NEW L \in LedgerType, NEW good \in StepType,
           NEW bad \in StepType, Kept(L), Save(L, good, bad),
           Plain(good), Plain(bad), bad # Idle => bad.at \notin Synced,
           UNCHANGED << head, hist, sent, edits >>
    PROVE  Typed'
<1>1. call' \in {good, bad}
  BY DEF Save
<1>2. HandHeld' /\ TodoHeld'
  BY <1>1, PlainHolds
<1>3. CallSent'
  BY <1>1 DEF Plain, Typed, Placed, CallSent, Charged, Tool
<1>4. call'.at \in Synced => live' = disk'
  BY DEF Save, Idle
<1>5. QED
  BY <1>2, <1>3, <1>4, SaveStepTyped

LEMMA SaveChargeTyped ==
    ASSUME Typed, SaveCharge
    PROVE  Typed'
<1>1. call # Idle /\ call.at = "charge"
  BY DEF SaveCharge, Idle
<1>2. Charged
  BY <1>1 DEF Typed, Placed, CallSent, ChargedPlaces
<1>3. Plain(Goto("compile")) /\ Goto("compile") \in StepType
  BY <1>1, <1>2, GotoFields DEF Plain, Places, ItemPlaces
<1>4. QED
  BY <1>1, <1>3, RaiseFields, SavePlainTyped DEF Synced, SaveCharge, Typed, TypeOK, Placed

LEMMA PublishTyped ==
    ASSUME Typed, Publish
    PROVE  Typed'
<1>1. call # Idle /\ call.at = "publish"
  BY DEF Publish, Idle
<1>2. Plain(Goto("verify")) /\ Goto("verify") \in StepType
  BY <1>1, GotoFields DEF Plain, Places, ItemPlaces, ChargedPlaces
<1>3. QED
  BY <1>1, <1>2, RaiseFields, SavePlainTyped DEF Synced, Publish, Typed, TypeOK, Placed

LEMMA CompileRefusesTyped ==
    ASSUME Typed, CompileRefuses
    PROVE  Typed'
<1>1. call # Idle /\ call.at = "compile"
  BY DEF CompileRefuses, Idle
<1>2. Charged
  BY <1>1 DEF Typed, Placed, CallSent, ChargedPlaces
<1>3. HandHeld' /\ TodoHeld'
  BY <1>1, RaiseFields, PlainHolds DEF CompileRefuses
<1>4. QED
  BY <1>1, <1>2, <1>3, RaiseFields, MoveTyped DEF Synced, CompileRefuses, Typed, TypeOK

\* What the loop over the submitted items may decide of one of them.
Decision == [st: {"invalid", "unchanged"}, group: {<< >>}] \cup [st: {"prepared"}, group: Groups]

LEMMA DecisionsType ==
    ASSUME NEW k
    PROVE  Decisions(k) \subseteq Decision
BY DEF Decisions, Decision

LEMMA WithDecisionsType ==
    ASSUME NEW k \in WorkType, WorkKept(k), NEW ids \in SUBSET Items,
           NEW plan \in [ids -> Decision]
    PROVE  WithDecisions(k, plan) \in WorkType /\ WorkKept(WithDecisions(k, plan))
<1> DEFINE items == [i \in Items |-> IF i \in ids THEN Frozen(k, plan[i]) ELSE k.items[i]]
<1>1. ASSUME NEW i \in Items
      PROVE  /\ items[i] \in ItemType
             /\ items[i].st \in Unsure \cup {"saved"} => items[i].group # << >>
  <2>1. CASE i \in ids
    <3>1. plan[i] \in Decision
      BY <2>1
    <3>2. Frozen(k, plan[i]) \in ItemType
      BY <3>1, FrozenType DEF Decision
    <3>3. Frozen(k, plan[i]).st = plan[i].st /\ Frozen(k, plan[i]).group = plan[i].group
      BY DEF Frozen
    <3>4. plan[i].st \in Unsure \cup {"saved"} => plan[i].group # << >>
      BY <3>1, GroupsAssumption DEF Decision, Unsure
    <3>5. QED
      BY <2>1, <3>2, <3>3, <3>4
  <2>2. CASE i \notin ids
    BY <2>2 DEF WorkType, WorkKept
  <2>3. QED
    BY <2>1, <2>2
<1>2. WithDecisions(k, plan) = [k EXCEPT !.items = items]
  BY DEF WithDecisions
<1>3. items \in [Items -> ItemType]
  BY <1>1
<1> HIDE DEF items
<1>4. [k EXCEPT !.items = items] \in WorkType
  BY <1>3 DEF WorkType
<1>5. WorkKept([k EXCEPT !.items = items])
  BY <1>1, <1>3 DEF WorkType, WorkKept
<1>6. QED
  BY <1>2, <1>4, <1>5

LEMMA DeconflictedType ==
    ASSUME NEW ids \in SUBSET Items, NEW plan \in [ids -> Decision]
    PROVE  Deconflicted(plan) \in [ids -> Decision]
BY DEF Deconflicted, Decision

LEMMA ItemSetsType ==
    ASSUME NEW k, NEW ids \in ItemSets(k)
    PROVE  ids \subseteq Items
BY DEF ItemSets, Focus

LEMMA PutWorkKept ==
    ASSUME Typed, NEW k \in WorkType, WorkKept(k)
    PROVE  Kept(PutWork(k))
BY DEF Kept, PutWork, Typed, TypeOK, Placed, LedgerType

\* A step of the compilation, which ends at `c' with the work k in memory.
LEMMA CompiledTyped ==
    ASSUME Typed, call # Idle, call.at = "compile", NEW k \in WorkType, WorkKept(k),
           live' = PutWork(k), NEW c \in StepType, c # Idle, c.req = call.req,
           c.at \in {"publish", "fail"}, call' = c, faults' \in 0..MaxFaults,
           UNCHANGED << head, hist, disk, sent, edits >>
    PROVE  Typed'
<1>1. live' \in LedgerType /\ Kept(live')
  BY PutWorkType, PutWorkKept DEF Typed, TypeOK
<1>2. TypeOK'
  BY <1>1 DEF Typed, TypeOK
<1>3. Charged
  BY DEF Typed, Placed, CallSent, ChargedPlaces
<1>4. Placed'
  BY <1>1, <1>3 DEF Synced, Typed, Placed, CallSent, HandHeld, TodoHeld, IdleInStep, Kept, Charged,
                    Tool, ItemPlaces
<1>5. QED
  BY <1>2, <1>4 DEF Typed

LEMMA CompileAllTyped ==
    ASSUME Typed, CompileAll
    PROVE  Typed'
<1> DEFINE k == live.work[Work]
<1>1. call # Idle /\ call.at = "compile"
  BY DEF CompileAll, Idle
<1>2. k \in WorkType /\ WorkKept(k)
  BY <1>1, InFlight DEF Typed, Placed, Kept
<1>3. PICK ids \in ItemSets(k) : \E plan \in [ids -> Decisions(k)] :
             live' = PutWork(WithDecisions(k, Deconflicted(plan)))
  BY DEF CompileAll
<1>4. PICK plan \in [ids -> Decisions(k)] : live' = PutWork(WithDecisions(k, Deconflicted(plan)))
  BY <1>3
<1>5. ids \subseteq Items /\ plan \in [ids -> Decision]
  BY <1>4, ItemSetsType, DecisionsType
<1> HIDE DEF k
<1>6. /\ WithDecisions(k, Deconflicted(plan)) \in WorkType
      /\ WorkKept(WithDecisions(k, Deconflicted(plan)))
  BY <1>2, <1>5, WithDecisionsType, DeconflictedType
<1>7. UNCHANGED << head, hist, disk, sent, faults, edits >> /\ call' = Goto("publish")
  BY DEF CompileAll
<1>8. QED
  BY <1>1, <1>4, <1>6, <1>7, GotoFields, CompiledTyped DEF Places, Typed, TypeOK

LEMMA CompileStopsTyped ==
    ASSUME Typed, CompileStops
    PROVE  Typed'
<1> DEFINE k == live.work[Work]
           Stopped(done, stop, plan) ==
               [i \in done \cup {stop} |->
                    IF i = stop THEN [st |-> "invalid", group |-> << >>] ELSE plan[i]]
<1>1. call # Idle /\ call.at = "compile"
  BY DEF CompileStops, Idle
<1>2. k \in WorkType /\ WorkKept(k)
  BY <1>1, InFlight DEF Typed, Placed, Kept
<1>3. Charged
  BY <1>1 DEF Typed, Placed, CallSent, ChargedPlaces
<1>4. PICK ids \in ItemSets(k), stop \in Items : stop \in ids /\
         \E done \in SUBSET (ids \ {stop}) : \E plan \in [done -> Decisions(k)] :
            \/ /\ live' = PutWork(WithDecisions(k, plan))
               /\ call' = Raise("validation") /\ UNCHANGED faults
            \/ /\ faults < MaxFaults /\ faults' = faults + 1
               /\ live' = PutWork(WithDecisions(k, Stopped(done, stop, plan)))
               /\ call' = Raise("io")
  BY Zenon DEF CompileStops
<1>5. PICK done \in SUBSET (ids \ {stop}) : \E plan \in [done -> Decisions(k)] :
            \/ /\ live' = PutWork(WithDecisions(k, plan))
               /\ call' = Raise("validation") /\ UNCHANGED faults
            \/ /\ faults < MaxFaults /\ faults' = faults + 1
               /\ live' = PutWork(WithDecisions(k, Stopped(done, stop, plan)))
               /\ call' = Raise("io")
  BY <1>4, Zenon
<1>6. PICK plan \in [done -> Decisions(k)] :
            \/ /\ live' = PutWork(WithDecisions(k, plan))
               /\ call' = Raise("validation") /\ UNCHANGED faults
            \/ /\ faults < MaxFaults /\ faults' = faults + 1
               /\ live' = PutWork(WithDecisions(k, Stopped(done, stop, plan)))
               /\ call' = Raise("io")
  BY <1>5, Zenon
<1>7. done \subseteq Items /\ plan \in [done -> Decision]
  BY <1>6, ItemSetsType, DecisionsType
<1>8. Stopped(done, stop, plan) \in [done \cup {stop} -> Decision]
  BY <1>7 DEF Decision
<1> HIDE DEF k, Stopped
<1>9. PICK n \in WorkType, kind \in {"io", "validation"} :
         WorkKept(n) /\ live' = PutWork(n) /\ call' = Raise(kind)
  BY <1>2, <1>6, <1>7, <1>8, WithDecisionsType
<1>10. UNCHANGED << head, hist, disk, sent, edits >> /\ faults' \in 0..MaxFaults
  BY <1>6, BoundsAssumption DEF CompileStops, Typed, TypeOK
<1>11. QED
  BY <1>1, <1>3, <1>9, <1>10, RaiseFields, CompiledTyped

LEMMA VerifyTyped ==
    ASSUME Typed, Verify
    PROVE  Typed'
<1>1. call # Idle /\ call.at = "verify" /\ live = disk
  BY DEF Synced, Verify, Idle, Typed, Placed, IdleInStep
<1>2. UNCHANGED << head, hist, disk, live, sent, edits >> /\ faults' \in 0..MaxFaults
  BY BoundsAssumption DEF Verify, Typed, TypeOK
<1>3. CASE call' = Raise("validation")
  BY <1>1, <1>2, <1>3, RaiseFields, PlainHolds, MoveTyped DEF Typed, TypeOK, ChargedPlaces
<1>4. CASE call' = [Goto("select") EXCEPT !.todo = Unsettled(live.work[Work])]
  <2> DEFINE c == [Goto("select") EXCEPT !.todo = Unsettled(live.work[Work])]
  <2>1. Unsettled(live.work[Work]) \in SUBSET Items
    BY DEF Unsettled
  <2>2. c \in StepType /\ c # Idle /\ c.at = "select" /\ c.req = call.req
        /\ c.todo = Unsettled(live.work[Work])
    BY <1>1, <2>1, GotoFields DEF StepType, Idle, Places
  <2>3. Work' = Work
    BY <1>2, <1>4, <2>2 DEF Work
  <2>4. HandHeld' /\ TodoHeld'
    BY <1>2, <1>4, <2>2, <2>3 DEF HandHeld, TodoHeld, ItemPlaces, Unsettled, Written
  <2>5. QED
    BY <1>1, <1>2, <1>4, <2>2, <2>4, MoveTyped DEF Typed, TypeOK, ChargedPlaces
<1>5. QED
  BY <1>3, <1>4 DEF Verify

LEMMA SelectTyped ==
    ASSUME Typed, Select
    PROVE  Typed'
<1>1. call # Idle /\ call.at = "select"
  <2>1. call.at = "select"
    BY Zenon DEF Select
  <2>2. QED
    BY <2>1 DEF Idle
<1>2. UNCHANGED << head, hist, disk, live, sent, edits, faults >>
  BY DEF Select
<1>3. CASE call' = Goto("finish")
  <2>1. Plain(Goto("finish"))
    BY <1>1, GotoFields DEF Plain, Places, ItemPlaces, ChargedPlaces
  <2>2. QED
    BY <1>1, <1>2, <1>3, <2>1, GotoFields, PlainHolds, MoveTyped
       DEF Synced, Typed, TypeOK, Places, ChargedPlaces
<1>4. ASSUME NEW i \in call.todo,
             call' = [Goto("guard") EXCEPT !.item = i, !.todo = @ \ {i}, !.k = 1]
      PROVE  Typed'
  <2>1. i \in Items /\ live.work[Work].items[i] \in ItemType
        /\ live.work[Work].items[i].st \in Unsure \cup {"saved"}
    BY <1>1, <1>4, InFlight DEF Typed, Placed, TodoHeld, Written
  <2>2. live.work[Work].items[i].group \in Groups
    BY <1>1, <2>1, InFlight DEF ItemType, Typed, Placed, Kept, WorkKept
  <2>3. 1 \in 1..Len(live.work[Work].items[i].group)
    BY <2>2, GroupsAssumption
  <2>4. call' \in StepType /\ call' # Idle /\ call'.at = "guard" /\ call'.req = call.req
        /\ call'.item = i /\ call'.k = 1
    <3>1. PICK g \in StepType \ {Idle} : g = Goto("guard")
      BY <1>1, GotoFields DEF Places
    <3>2. g.at = "guard" /\ g.req = call.req /\ g.todo \in SUBSET Items
      BY <1>1, <3>1, GotoFields, InFlight DEF Places
    <3>3. call' = [g EXCEPT !.item = i, !.todo = @ \ {i}, !.k = 1]
      BY <1>4, <3>1
    <3>4. QED
      BY <2>1, <3>2, <3>3 DEF StepType, Idle
  <2>5. call'.todo \subseteq call.todo
    BY <1>1, <1>4, GotoFields DEF Places, StepType
  <2>6. Work' = Work
    BY <1>2, <2>4 DEF Work
  <2>7. HandHeld' /\ TodoHeld'
    BY <1>1, <1>2, <2>1, <2>3, <2>4, <2>5, <2>6 DEF HandHeld, TodoHeld, Item, Written, Typed, Placed
  <2>8. QED
    BY <1>1, <1>2, <2>4, <2>7, MoveTyped DEF Synced, Typed, TypeOK, ChargedPlaces
<1>5. QED
  BY <1>3, <1>4 DEF Select

\* Moving between the places of one member.
LEMMA StayAtItem ==
    ASSUME Typed, call.at \in ItemPlaces, NEW c \in StepType, call' = c, c # Idle,
           c.at \in ItemPlaces, c.req = call.req, c.item = call.item, c.k = call.k,
           c.todo = call.todo, UNCHANGED << disk, live, sent, edits >>,
           head' \in [Mems -> Heads], hist' \in [Mems -> SUBSET Revs],
           faults' \in 0..MaxFaults
    PROVE  Typed'
<1>1. call # Idle
  BY DEF Idle, ItemPlaces
<1>2. Work' = Work /\ Item' = Item
  BY DEF Work, Item
<1>3. HandHeld' /\ TodoHeld'
  BY <1>2 DEF Typed, Placed, HandHeld, TodoHeld
<1>4. QED
  BY <1>1, <1>3, MoveTyped DEF Synced, ItemPlaces, ChargedPlaces

\* The record of a call that moved on and forgot what it had seen.
LEMMA FreshFields ==
    ASSUME Typed, call # Idle, NEW place \in Places
    PROVE  LET c == [Goto(place) EXCEPT !.stale = FALSE]
           IN  /\ c \in StepType /\ c # Idle /\ c.at = place /\ c.req = call.req
               /\ c.item = call.item /\ c.k = call.k /\ c.todo = call.todo /\ ~c.stale
<1>1. PICK g \in StepType \ {Idle} : g = Goto(place)
  BY GotoFields
<1>2. g.at = place /\ g.req = call.req /\ g.item = call.item /\ g.k = call.k
      /\ g.todo = call.todo
  BY <1>1, GotoFields
<1>3. QED
  BY <1>1, <1>2 DEF StepType, Idle

LEMMA GuardTyped ==
    ASSUME Typed, Guard
    PROVE  Typed'
<1>1. call # Idle /\ call.at = "guard"
  BY DEF Guard, Idle
<1>2. UNCHANGED << head, hist, disk, live, sent, edits >> /\ faults' \in 0..MaxFaults
  BY BoundsAssumption DEF Guard, Typed, TypeOK
<1>3. call' \in {Goto("apply"), Goto("block")}
  BY DEF Guard
<1>4. QED
  BY <1>1, <1>2, <1>3, GotoFields, StayAtItem DEF Places, ItemPlaces, Typed, TypeOK

LEMMA ApplyTyped ==
    ASSUME Typed, Apply
    PROVE  Typed'
<1>1. call # Idle /\ call.at = "apply"
  BY DEF Apply, Idle
<1>2. UNCHANGED << head, disk, live, sent, edits >> /\ faults' \in 0..MaxFaults
  BY BoundsAssumption DEF Apply, Typed, TypeOK
<1>3. Item \in ItemType /\ Member \in Mems
  BY <1>1, InHandType DEF ItemPlaces
<1>4. Item.before[Member] \in Heads
  BY <1>3 DEF ItemType
<1>5. Archived(Member) \in [Mems -> SUBSET Revs]
  BY <1>3, <1>4 DEF Archived, Heads, Typed, TypeOK
<1>6. hist' \in [Mems -> SUBSET Revs]
  BY <1>5 DEF Apply, Typed, TypeOK
<1>7. call' \in {Goto("confirm"), Goto("block"), [Goto("replace") EXCEPT !.stale = FALSE]}
  BY DEF Apply
<1>8. QED
  BY <1>1, <1>2, <1>6, <1>7, GotoFields, FreshFields, StayAtItem
     DEF Places, ItemPlaces, Typed, TypeOK

LEMMA ReplaceTyped ==
    ASSUME Typed, Replace
    PROVE  Typed'
<1>1. call # Idle /\ call.at = "replace"
  BY DEF Replace, Idle
<1>2. UNCHANGED << head, hist, disk, live, sent, faults, edits >>
  BY DEF Replace
<1>3. call' \in {Goto("rename"), [Goto("block") EXCEPT !.stale = FALSE]}
  BY DEF Replace
<1>4. QED
  BY <1>1, <1>2, <1>3, GotoFields, FreshFields, StayAtItem DEF Places, ItemPlaces, Typed, TypeOK

LEMMA RenameTyped ==
    ASSUME Typed, Rename
    PROVE  Typed'
<1>1. call # Idle /\ call.at = "rename"
  BY DEF Rename, Idle
<1>2. UNCHANGED << hist, disk, live, sent, edits >> /\ faults' \in 0..MaxFaults
  BY BoundsAssumption DEF Rename, Typed, TypeOK
<1>3. head' = head \/ head' = [head EXCEPT ![Member] = Op]
  BY DEF Rename
<1>4. Op \in Revs
  <2>1. Item \in ItemType /\ call.item \in Items /\ Work \in Works
    BY <1>1, InHandType, InFlight DEF ItemPlaces
  <2>2. Item.sub \in 0..Limit
    BY <2>1 DEF ItemType
  <2>3. QED
    BY <2>1, <2>2 DEF Op, Ops, Revs
<1>5. head' \in [Mems -> Heads]
  BY <1>3, <1>4 DEF Heads, Typed, TypeOK
<1>6. call' \in {[Goto("confirm") EXCEPT !.stale = FALSE], [Goto("block") EXCEPT !.stale = FALSE]}
  BY DEF Rename
<1>7. QED
  BY <1>1, <1>2, <1>5, <1>6, FreshFields, StayAtItem DEF Places, ItemPlaces, Typed, TypeOK

\* Saving the ledger with the item in hand changed, its group kept.
LEMMA SaveItemTyped ==
    ASSUME Typed, call.at \in ItemPlaces, NEW it \in ItemType, it.group = Item.group,
           it.st \in Unsure \cup {"saved"}, NEW good \in StepType, NEW bad \in StepType,
           Save(PutItem(it), good, bad), UNCHANGED << head, hist, sent, edits >>,
           \A c \in {good, bad} :
               \/ Plain(c) /\ (c # Idle => c.at \notin Synced)
               \/ /\ c.req = call.req /\ c.todo = call.todo
                  /\ \/ c.at = "select"
                     \/ c.at \in ItemPlaces /\ c.item = call.item /\ c.k \in 1..Len(it.group)
    PROVE  Typed'
<1> DEFINE L == PutItem(it)
           c == call'
<1>1. call # Idle /\ call.item \in Items /\ Item.group \in Groups /\ Work \in Works
  BY InHandType, InFlight
<1>2. L \in LedgerType
  BY PutItemType DEF Typed, TypeOK
<1>3. /\ L.work[Work].items[call.item] = it
      /\ \A w \in Works, i \in Items : <<w, i>> # <<Work, call.item>> =>
             L.work[w].items[i] = live.work[w].items[i]
      /\ \A w \in Works : /\ L.work[w].used = live.work[w].used
                          /\ L.work[w].latest = live.work[w].latest
  BY <1>1 DEF PutItem, Typed, TypeOK, LedgerType, WorkType
<1>4. it.group # << >>
  BY <1>1, GroupsAssumption
<1>5. Kept(L)
  BY <1>3, <1>4 DEF Typed, Placed, Kept, WorkKept
<1>6. Written(live.work[Work]) \subseteq Written(L.work[Work])
  BY <1>1, <1>3 DEF Written
<1>7. c \in {good, bad} /\ (c # Idle => live' = L)
  BY DEF Save
<1> HIDE DEF L
<1>8. CASE Plain(c) /\ (c # Idle => c.at \notin Synced)
  <2>1. HandHeld' /\ TodoHeld' /\ (c.at \in Synced => live' = disk')
    BY <1>8, PlainHolds DEF Synced, Idle
  <2>2. CallSent'
    BY <1>1, <1>8 DEF Plain, Typed, Placed, CallSent, Charged, Tool
  <2>3. QED
    BY <1>2, <1>5, <2>1, <2>2, SaveStepTyped DEF L
<1>9. CASE /\ c.req = call.req /\ c.todo = call.todo
           /\ \/ c.at = "select"
              \/ c.at \in ItemPlaces /\ c.item = call.item /\ c.k \in 1..Len(it.group)
  <2>1. c # Idle /\ c.at \in ItemPlaces \cup {"select"} /\ Work' = Work
    BY <1>9 DEF Idle, ItemPlaces, Work
  <2>2. CallSent' /\ (c.at \in Synced => live' = disk')
    BY <1>1, <1>9, <2>1 DEF Synced, Typed, Placed, CallSent, Charged, Tool, ItemPlaces, ChargedPlaces
  <2>3. TodoHeld'
    BY <1>6, <1>7, <1>9, <2>1 DEF Typed, Placed, TodoHeld
  <2>4. HandHeld'
    <3>1. SUFFICES ASSUME c.at \in ItemPlaces
                   PROVE  /\ call'.item \in Items /\ Item'.st \in Unsure \cup {"saved"}
                          /\ call'.k \in 1..Len(Item'.group)
      BY DEF HandHeld
    <3>2. c.item = call.item /\ c.k \in 1..Len(it.group)
      BY <1>9, <3>1 DEF ItemPlaces
    <3>3. Item' = it
      BY <1>3, <1>7, <2>1, <3>2 DEF Item
    <3>4. QED
      BY <1>1, <3>2, <3>3
  <2>5. QED
    BY <1>2, <1>5, <2>2, <2>3, <2>4, SaveStepTyped DEF L
<1>10. QED
  BY <1>7, <1>8, <1>9

LEMMA ConfirmTyped ==
    ASSUME Typed, Confirm
    PROVE  Typed'
<1>1. call # Idle /\ call.at = "confirm" /\ call.at \in ItemPlaces
  BY DEF Confirm, Idle, ItemPlaces
<1>2. UNCHANGED << head, hist, sent, edits >>
  BY DEF Confirm
<1>3. /\ Goto("block") \in StepType /\ Goto("block") # Idle /\ Goto("block").at = "block"
      /\ Goto("block").req = call.req /\ Goto("block").item = call.item
      /\ Goto("block").k = call.k /\ Goto("block").todo = call.todo
  BY <1>1, GotoFields DEF Places
<1>4. CASE Save(Marked, NextMember, Goto("block"))
  <2> DEFINE it == [Item EXCEPT !.marked = @ \cup {Member}]
  <2>1. Item \in ItemType /\ Member \in Mems /\ Item.group \in Groups
        /\ Item.st \in Unsure \cup {"saved"} /\ call.k \in 1..Len(Item.group)
    BY <1>1, InHandType DEF Typed, Placed, HandHeld
  <2>2. it \in ItemType /\ it.group = Item.group /\ it.st = Item.st
    BY <2>1 DEF ItemType
  <2>3. Len(Item.group) \in Nat
    BY <2>1, GroupsAssumption
  <2>4. /\ NextMember \in StepType /\ NextMember.req = call.req /\ NextMember.item = call.item
        /\ NextMember.todo = call.todo /\ NextMember.at \in ItemPlaces
        /\ NextMember.k \in 1..Len(Item.group)
    <3>1. CASE call.k < Len(Item.group)
      <4> DEFINE n == call.k + 1
      <4>1. PICK g \in StepType \ {Idle} : g = Goto("apply")
        BY <1>1, GotoFields DEF Places
      <4>2. n \in Nat /\ n \in 1..Len(Item.group)
        BY <2>1, <2>3, <3>1
      <4>3. g.k = call.k /\ g.req = call.req /\ g.item = call.item /\ g.todo = call.todo
            /\ g.at = "apply"
        BY <1>1, <4>1, GotoFields DEF Places
      <4>4. NextMember = [g EXCEPT !.k = n]
        BY <3>1, <4>1, <4>3 DEF NextMember, StepType
      <4> HIDE DEF n
      <4>5. QED
        BY <4>2, <4>3, <4>4 DEF StepType, Idle, ItemPlaces
    <3>2. CASE ~(call.k < Len(Item.group))
      BY <1>1, <2>1, <3>2, GotoFields DEF NextMember, Places, ItemPlaces
    <3>3. QED
      BY <3>1, <3>2
  <2>5. Save(PutItem(it), NextMember, Goto("block"))
    BY <1>4 DEF Marked
  <2> HIDE DEF it
  <2>6. QED
    BY <1>1, <1>2, <1>3, <2>1, <2>2, <2>4, <2>5, SaveItemTyped DEF ItemPlaces
<1>5. CASE call' = Goto("block") /\ UNCHANGED << disk, live, faults >>
  BY <1>1, <1>2, <1>3, <1>5, StayAtItem DEF ItemPlaces, Typed, TypeOK
<1>6. QED
  BY <1>4, <1>5 DEF Confirm

\* Leaving an item for the next one.
LEMMA LeaveItem ==
    ASSUME Typed, call # Idle
    PROVE  /\ NextItem \in StepType /\ NextItem.at = "select" /\ NextItem.req = call.req
           /\ NextItem.todo = call.todo
<1>1. PICK g \in StepType \ {Idle} : g = Goto("select")
  BY GotoFields DEF Places
<1>2. g.at = "select" /\ g.req = call.req /\ g.todo = call.todo
  BY <1>1, GotoFields DEF Places
<1>3. QED
  BY <1>1, <1>2 DEF NextItem, StepType, Idle

LEMMA SettleTyped ==
    ASSUME Typed, Settle
    PROVE  Typed'
<1> DEFINE c == NextItem
           it == [Item EXCEPT !.st = "saved", !.applied = "yes"]
<1>1. call # Idle /\ call.at = "settle" /\ call.at \in ItemPlaces
  BY DEF Settle, Idle, ItemPlaces
<1>2. UNCHANGED << head, hist, sent, edits >>
  BY DEF Settle
<1>3. /\ Goto("block") \in StepType /\ Goto("block") # Idle /\ Goto("block").at = "block"
      /\ Goto("block").req = call.req /\ Goto("block").item = call.item
      /\ Goto("block").k = call.k /\ Goto("block").todo = call.todo
  BY <1>1, GotoFields DEF Places
<1>4. Item \in ItemType /\ call.k \in 1..Len(Item.group)
  BY <1>1, InHandType DEF Typed, Placed, HandHeld
<1>5. it \in ItemType /\ it.group = Item.group /\ it.st = "saved"
  BY <1>4 DEF ItemType, Outcomes, Settled
<1>6. c \in StepType /\ c.at = "select" /\ c.req = call.req /\ c.todo = call.todo
  BY <1>1, LeaveItem
<1>7. \/ Save(PutItem(it), c, Goto("block"))
      \/ call' = Goto("block") /\ UNCHANGED << disk, live, faults >>
  BY DEF Settle
<1> HIDE DEF c, it
<1>8. CASE Save(PutItem(it), c, Goto("block"))
  BY <1>1, <1>2, <1>3, <1>4, <1>5, <1>6, <1>8, SaveItemTyped DEF ItemPlaces
<1>9. CASE call' = Goto("block") /\ UNCHANGED << disk, live, faults >>
  BY <1>1, <1>2, <1>3, <1>9, StayAtItem DEF ItemPlaces, Typed, TypeOK
<1>10. QED
  BY <1>7, <1>8, <1>9

LEMMA BlockTyped ==
    ASSUME Typed, Block
    PROVE  Typed'
<1> DEFINE c == NextItem
           seen == GroupApplied(Work, call.item, Item)
           it == [Item EXCEPT !.st = "recovery_required", !.applied = seen]
<1>1. call # Idle /\ call.at \in ItemPlaces
  BY DEF Block, Idle, ItemPlaces
<1>2. UNCHANGED << head, hist, sent, edits >>
  BY DEF Block
<1>3. Raise("io") \in StepType /\ Plain(Raise("io"))
      /\ (Raise("io") # Idle => Raise("io").at \notin Synced)
  BY <1>1, RaiseFields DEF Synced
<1>4. Item \in ItemType /\ seen \in {"yes", "no", "unknown"}
  BY <1>1, InHandType DEF GroupApplied
<1>5. c \in StepType /\ c.at = "select" /\ c.req = call.req /\ c.todo = call.todo
  BY <1>1, LeaveItem
<1>6. Save(PutItem(it), c, Raise("io"))
  BY DEF Block
<1> HIDE DEF c, seen
<1>7. it \in ItemType /\ it.group = Item.group /\ it.st = "recovery_required"
  BY <1>4 DEF ItemType, Outcomes, Unsure
<1> HIDE DEF it
<1>8. QED
  BY <1>1, <1>2, <1>3, <1>5, <1>6, <1>7, SaveItemTyped DEF Unsure

\* The work in hand replaced and the request answered.
LEMMA AnsweredType ==
    ASSUME Typed, call # Idle, NEW k \in WorkType, WorkKept(k)
    PROVE  /\ Put(live, Work, k, call.req, "answered") \in LedgerType
           /\ Kept(Put(live, Work, k, call.req, "answered"))
BY InFlight, PutType, PutHeld DEF Typed, TypeOK, Placed

LEMMA FinishTyped ==
    ASSUME Typed, Finish
    PROVE  Typed'
<1> DEFINE old == live.work[Work]
           d == Derived(old)
           n == IF Tool = "resume" THEN d.rev + 1 ELSE d.rev
           k == [d EXCEPT !.rev = n]
<1>1. call # Idle /\ old \in WorkType /\ WorkKept(old)
  BY InFlight DEF Finish, Idle, Typed, Placed, Kept
<1>2. d \in WorkType /\ d.items = old.items /\ d.used = old.used /\ d.latest = old.latest
  BY <1>1, DerivedType DEF Derived, WorkType
<1>3. Save(Put(live, Work, k, call.req, "answered"),
           IF Charged THEN Goto("reply") ELSE Idle, Raise("io"))
      /\ UNCHANGED << head, hist, sent, edits >>
  BY DEF Finish, Finished
<1> HIDE DEF d
<1>4. n \in Nat
  BY <1>2 DEF WorkType
<1> HIDE DEF n
<1>5. k \in WorkType /\ WorkKept(k)
  BY <1>1, <1>2, <1>4 DEF WorkType, WorkKept
<1> DEFINE good == IF Charged THEN Goto("reply") ELSE Idle
<1>6. good \in StepType /\ Plain(good)
  BY <1>1, GotoFields DEF Plain, Places, ItemPlaces, StepType
<1>7. Raise("io") \in StepType /\ Plain(Raise("io"))
      /\ (Raise("io") # Idle => Raise("io").at \notin Synced)
  BY <1>1, RaiseFields DEF Synced
<1>8. Save(Put(live, Work, k, call.req, "answered"), good, Raise("io"))
  BY <1>3
<1> HIDE DEF k, good
<1>9. QED
  BY <1>1, <1>3, <1>5, <1>6, <1>7, <1>8, AnsweredType, SavePlainTyped

LEMMA ReplyTyped ==
    ASSUME Typed, Reply
    PROVE  Typed'
<1>1. call # Idle /\ call.at = "reply" /\ Charged
  BY DEF Reply, Idle, Typed, Placed, CallSent, ChargedPlaces
<1>2. UNCHANGED << head, hist, disk, live, sent, edits >> /\ faults' \in 0..MaxFaults
  BY BoundsAssumption DEF Reply, Typed, TypeOK
<1>3. CASE call' = Raise("validation")
  BY <1>1, <1>2, <1>3, RaiseFields, PlainHolds, MoveTyped DEF Synced, Typed, TypeOK
<1>4. CASE call' = Idle /\ live = disk
  BY <1>1, <1>2, <1>4, PlainHolds, MoveTyped DEF Typed, TypeOK, Plain, StepType
<1>5. QED
  BY <1>3, <1>4 DEF Synced, Reply, Typed, Placed, IdleInStep

LEMMA FailTyped ==
    ASSUME Typed, Fail
    PROVE  Typed'
<1> DEFINE old == live.work[Work]
           k == IF call.error = "io" THEN old ELSE Downgraded(old)
<1>1. call # Idle /\ old \in WorkType /\ WorkKept(old)
  BY InFlight DEF Fail, Idle, Typed, Placed, Kept
<1>2. k \in WorkType /\ k.items = old.items /\ k.used = old.used /\ k.latest = old.latest
  BY <1>1, DowngradedType DEF Downgraded, WorkType
<1>3. WorkKept(k)
  BY <1>1, <1>2 DEF WorkKept
<1>4. Save(Put(live, Work, k, call.req, "answered"), Idle, Idle)
      /\ UNCHANGED << head, hist, sent, edits >>
  BY DEF Fail
<1> HIDE DEF k
<1>5. QED
  BY <1>1, <1>2, <1>3, <1>4, AnsweredType, SavePlainTyped DEF Plain, StepType

LEMMA AnswerTyped ==
    ASSUME Typed, Answer
    PROVE  Typed'
<1>1. call # Idle
  BY DEF Answer, Idle
<1>2. QED
  BY <1>1, SavePlainTyped DEF Answer, Plain, StepType, Typed, TypeOK, Placed

LEMMA TypedNext == Typed /\ [Next]_vars => Typed'
<1> SUFFICES ASSUME Typed, [Next]_vars PROVE Typed'
  OBVIOUS
<1>1. ASSUME NEW r \in Requests, NEW t \in Tools, NEW w \in Works, Send(r, t, w)
      PROVE  Typed'
  BY <1>1, SendTyped
<1>2. ASSUME NEW r \in Requests, Deliver(r)
      PROVE  Typed'
  BY <1>2, PrepareNewTyped, PrepareRefreshTyped, BeginSubmitTyped, BeginResumeTyped, CancelTyped
     DEF Deliver
<1>3. CASE SaveCharge \/ CompileRefuses \/ CompileAll \/ CompileStops \/ Publish
  BY <1>3, SaveChargeTyped, CompileRefusesTyped, CompileAllTyped, CompileStopsTyped, PublishTyped
<1>4. CASE Verify \/ Select \/ Guard \/ Apply \/ Replace \/ Rename \/ Confirm \/ Settle \/ Block
  BY <1>4, VerifyTyped, SelectTyped, GuardTyped, ApplyTyped, ReplaceTyped, RenameTyped,
     ConfirmTyped, SettleTyped, BlockTyped
<1>5. CASE Finish \/ Reply \/ Fail \/ Answer
  BY <1>5, FinishTyped, ReplyTyped, FailTyped, AnswerTyped
<1>6. ASSUME NEW m \in Mems, NEW v \in ExtRevs \cup {Absent}, ExternalEdit(m, v)
      PROVE  Typed'
  BY <1>6, ExternalEditTyped
<1>7. CASE Crash
  BY <1>7, CrashTyped
<1>8. CASE UNCHANGED vars
  <2>1. UNCHANGED << head, hist, disk, live, call, sent, faults, edits >>
    BY <1>8 DEF vars
  <2>2. TypeOK'
    BY <2>1 DEF Typed, TypeOK
  <2>3. Placed'
    BY <2>1 DEF Typed, Placed, CallSent, HandHeld, TodoHeld, IdleInStep, Kept, Charged, Tool,
                Work, Item, Synced
  <2>4. QED
    BY <2>2, <2>3 DEF Typed
<1>9. QED
  BY <1>1, <1>2, <1>3, <1>4, <1>5, <1>6, <1>7, <1>8 DEF Next, Service

LEMMA AlwaysTyped == Spec => []Typed
BY TypedInit, TypedNext, PTL DEF Spec

\* Every state has its type: heads are revisions of the vault or absent, both
\* copies of the ledger are well formed, and the call in flight is at one of
\* its places with a member of a group in hand where host_v2.py has one.
THEOREM TypeCorrect == Spec => []TypeOK
BY AlwaysTyped, PTL DEF Typed

(***************************************************************************)
(* The second layer.                                                       *)
(***************************************************************************)


-----------------------------------------------------------------------------
(* The ledger L accounts for the heads h and the archive a. *)

Sound(L, h, a) == WrittenFrom(L, h) /\ InOrder(L, h) /\ Whole(L, a)

\* While a work is executed, the file holds the groups the memory holds.
ExecPlaces == ItemPlaces \cup {"select"}

Alike ==
    call.at \in ExecPlaces =>
        \A i \in Written(live.work[Work]) :
            LET old == disk.work[Work].items[i]
                new == live.work[Work].items[i]
            IN  /\ old.sub = new.sub /\ old.group = new.group
                /\ old.st \in Unsure \cup {"saved"}

\* A submission is compiled only when no group of its work is open.
NoneOpen == call.at \in {"charge", "compile"} => Unsettled(live.work[Work]) = {}

\* The members before the one in hand are marked, in memory and on file.
Before(k) == {Item.group[b] : b \in 1..(k - 1)}

Marking ==
    /\ call.at = "guard" => call.k = 1
    /\ call.at \in {"apply", "replace", "rename", "confirm"} =>
          Before(call.k) \subseteq Item.marked \cap disk.work[Work].items[call.item].marked
    /\ call.at = "settle" => Range(Item.group) \subseteq Item.marked

\* What is about to be replaced is what the group was frozen against, archived.
Ready ==
    call.at \in {"replace", "rename"} /\ ~call.stale =>
        /\ head[Member] = Item.before[Member]
        /\ head[Member] \in hist[Member] \cup {Absent}

Ledgers == Sound(disk, head, hist) /\ Sound(live, head, hist)

Steps == Alike /\ NoneOpen /\ Marking /\ Ready

Safe == Typed /\ Ledgers /\ Steps

-----------------------------------------------------------------------------
(* What keeps a ledger sound. *)

LEMMA GroupType ==
    ASSUME NEW g \in Groups \cup {<< >>}
    PROVE  /\ DOMAIN g = 1..Len(g) /\ Len(g) \in Nat
           /\ \A b \in DOMAIN g : g[b] \in Mems
           /\ \A m \in Range(g) : m \in Mems
<1>1. CASE g = << >>
  BY <1>1 DEF Range
<1>2. CASE g \in Groups
  <2>1. g \in Seq(Mems)
    BY <1>2, GroupsAssumption
  <2>2. QED
    BY <2>1 DEF Range
<1>3. QED
  BY <1>1, <1>2

LEMMA LedgerItem ==
    ASSUME NEW L \in LedgerType, NEW w \in Works, NEW i \in Items
    PROVE  /\ L.work[w].items[i] \in ItemType
           /\ L.work[w].items[i].group \in Groups \cup {<< >>}
           /\ L.work[w].items[i].sub \in 0..Limit
<1>1. L.work[w].items[i] \in ItemType
  BY DEF LedgerType, WorkType
<1>2. QED
  BY <1>1 DEF ItemType

\* The same items account for the same files.
LEMMA SameItemsSound ==
    ASSUME NEW L, NEW M, NEW h, NEW a, Sound(L, h, a),
           \A w \in Works : M.work[w].items = L.work[w].items
    PROVE  Sound(M, h, a)
BY DEF Sound, WrittenFrom, InOrder, Whole

\* More in the archive.
LEMMA ArchivedSound ==
    ASSUME NEW L, NEW h, NEW a, NEW b, Sound(L, h, a),
           L \in LedgerType, \A m \in Mems : a[m] \subseteq b[m]
    PROVE  Sound(L, h, b)
<1>1. ASSUME NEW w \in Works, NEW i \in Items
      PROVE  Range(L.work[w].items[i].group) \subseteq Mems
  BY LedgerItem, GroupType
<1>2. ASSUME NEW w \in Works, NEW i \in Items
      PROVE  ItemWhole(L.work[w].items[i], b)
  <2>1. ItemWhole(L.work[w].items[i], a)
    BY DEF Sound, Whole
  <2>2. QED
    BY <1>1, <2>1 DEF ItemWhole
<1>3. QED
  BY <1>2 DEF Sound, Whole

\* A person writes: a revision of the program may only disappear.
LEMMA EditedSound ==
    ASSUME NEW L \in LedgerType, NEW h \in [Mems -> Heads], NEW a, Sound(L, h, a), NEW m \in Mems,
           NEW v \in ExtRevs \cup {Absent}
    PROVE  Sound(L, [h EXCEPT ![m] = v], a)
<1> DEFINE g == [h EXCEPT ![m] = v]
<1>1. ASSUME NEW n \in Mems, NEW w \in Works, NEW i \in Items, NEW s \in 0..Limit,
             g[n] = <<w, i, s>>
      PROVE  h[n] = <<w, i, s>>
  <2>1. <<w, i, s>> \in Ops
    BY DEF Ops
  <2>2. v # <<w, i, s>>
    BY <2>1, RevisionsAssumption DEF Revs
  <2>3. QED
    BY <1>1, <2>2
<1>2. ASSUME NEW w \in Works, NEW i \in Items
      PROVE  /\ L.work[w].items[i].sub \in 0..Limit
             /\ \A b \in DOMAIN L.work[w].items[i].group : L.work[w].items[i].group[b] \in Mems
  BY LedgerItem, GroupType
<1> HIDE DEF g
<1>3. WrittenFrom(L, g)
  BY <1>1 DEF Sound, WrittenFrom
<1>4. ASSUME NEW w \in Works, NEW i \in Items
      PROVE  ItemInOrder(w, i, L.work[w].items[i], g)
  <2>1. ItemInOrder(w, i, L.work[w].items[i], h)
    BY DEF Sound, InOrder
  <2> DEFINE it == L.work[w].items[i]
  <2>2. ASSUME NEW b \in DOMAIN it.group, g[it.group[b]] = <<w, i, it.sub>>
        PROVE  h[it.group[b]] = <<w, i, it.sub>>
    BY <1>1, <1>2, <2>2
  <2>3. QED
    BY <2>1, <2>2 DEF ItemInOrder
<1>5. QED
  BY <1>3, <1>4 DEF Sound, InOrder, g

LEMMA PutSound ==
    ASSUME NEW L \in LedgerType, NEW h, NEW a, Sound(L, h, a), NEW w \in Works, NEW k, NEW r,
           NEW answer, k.items = L.work[w].items
    PROVE  Sound(Put(L, w, k, r, answer), h, a)
<1>1. \A v \in Works : Put(L, w, k, r, answer).work[v].items = L.work[v].items
  BY DEF Put, LedgerType
<1>2. QED
  BY <1>1, SameItemsSound

\* One item changes: its group and submission stay, marks are only added, and
\* it is called saved only when it is.
LEMMA PutItemSound ==
    ASSUME Typed, call.at \in ItemPlaces, NEW h, NEW a, Sound(live, h, a), NEW it \in ItemType,
           it.sub = Item.sub, it.group = Item.group, it.before = Item.before,
           it.st \in Unsure \cup {"saved"}, Item.marked \subseteq it.marked,
           it.st = "saved" =>
               /\ it.applied = "yes" /\ Range(it.group) \subseteq it.marked
               /\ \A m \in Range(it.group) : it.before[m] \in a[m] \cup {Absent}
    PROVE  Sound(PutItem(it), h, a)
<1> DEFINE L == PutItem(it)
<1>1. call # Idle /\ call.item \in Items /\ Item.group \in Groups /\ Work \in Works
  BY InHandType, InFlight
<1>2. /\ L.work[Work].items[call.item] = it
      /\ \A w \in Works, i \in Items : w # Work \/ i # call.item =>
             L.work[w].items[i] = live.work[w].items[i]
  BY <1>1 DEF PutItem, Typed, TypeOK, LedgerType, WorkType
<1> HIDE DEF L
<1>3. it.group # << >>
  BY <1>1, GroupsAssumption
<1>4. ASSUME NEW w \in Works, NEW i \in Items
      PROVE  /\ \A m, s : Holds(live.work[w].items[i], m, s) => Holds(L.work[w].items[i], m, s)
             /\ ItemInOrder(w, i, L.work[w].items[i], h)
             /\ ItemWhole(L.work[w].items[i], a)
  <2>1. ItemInOrder(w, i, live.work[w].items[i], h) /\ ItemWhole(live.work[w].items[i], a)
    BY DEF Sound, InOrder, Whole
  <2>2. CASE w = Work /\ i = call.item
    <3>1. live.work[w].items[i] = Item /\ L.work[w].items[i] = it
      BY <1>2, <2>2 DEF Item
    <3>2. \A m, s : Holds(Item, m, s) => Holds(it, m, s)
      BY DEF Holds
    <3>3. ItemInOrder(w, i, it, h)
      BY <2>1, <3>1 DEF ItemInOrder
    <3>4. ItemWhole(it, a)
      BY <1>3 DEF ItemWhole
    <3>5. QED
      BY <3>1, <3>2, <3>3, <3>4
  <2>3. CASE w # Work \/ i # call.item
    BY <1>2, <2>1, <2>3
  <2>4. QED
    BY <2>2, <2>3
<1>5. QED
  BY <1>4 DEF Sound, WrittenFrom, InOrder, Whole, L

\* Items without a group on disk are replaced by items without one.
LEMMA WithDecisionsSound ==
    ASSUME Typed, call # Idle, NEW h, NEW a, Sound(live, h, a), NEW ids \in SUBSET Items,
           NEW plan \in [ids -> Decision],
           \A i \in ids : live.work[Work].items[i].st \notin Unsure \cup {"saved"},
           h \in [Mems -> Heads]
    PROVE  Sound(PutWork(WithDecisions(live.work[Work], plan)), h, a)
<1> DEFINE k == live.work[Work]
           L == PutWork(WithDecisions(k, plan))
<1>1. Work \in Works /\ k \in WorkType
  BY InFlight
<1>2. /\ \A i \in ids : L.work[Work].items[i] = Frozen(k, plan[i])
      /\ \A w \in Works, i \in Items : w # Work \/ i \notin ids =>
             L.work[w].items[i] = live.work[w].items[i]
  BY <1>1 DEF PutWork, WithDecisions, Typed, TypeOK, LedgerType, WorkType
<1>3. \A m \in Mems, i \in ids, s \in 0..Limit : h[m] # <<Work, i, s>>
  BY <1>1 DEF Sound, WrittenFrom, Holds
<1>4. \A i \in ids : /\ Frozen(k, plan[i]).sub \in 0..Limit
                     /\ Frozen(k, plan[i]).st # "saved"
                     /\ \A b \in DOMAIN Frozen(k, plan[i]).group : Frozen(k, plan[i]).group[b] \in Mems
  <2>1. ASSUME NEW i \in ids
        PROVE  /\ Frozen(k, plan[i]).sub = k.latest
               /\ Frozen(k, plan[i]).st = plan[i].st
               /\ Frozen(k, plan[i]).group = plan[i].group
               /\ plan[i] \in Decision
    BY DEF Frozen
  <2>2. ASSUME NEW d \in Decision
        PROVE  d.st # "saved" /\ d.group \in Groups \cup {<< >>}
    BY DEF Decision
  <2>3. k.latest \in 0..Limit
    BY <1>1 DEF WorkType
  <2> HIDE DEF k
  <2>4. QED
    BY <2>1, <2>2, <2>3, GroupType
<1> HIDE DEF L, k
<1>5. WrittenFrom(L, h)
  BY <1>1, <1>2, <1>3 DEF Sound, WrittenFrom
<1>6. ASSUME NEW w \in Works, NEW i \in Items
      PROVE  ItemInOrder(w, i, L.work[w].items[i], h) /\ ItemWhole(L.work[w].items[i], a)
  <2>1. CASE w = Work /\ i \in ids
    <3>1. L.work[w].items[i] = Frozen(k, plan[i])
      BY <1>2, <2>1
    <3>2. ItemInOrder(w, i, Frozen(k, plan[i]), h)
      BY <1>3, <1>4, <2>1 DEF ItemInOrder
    <3>3. ItemWhole(Frozen(k, plan[i]), a)
      BY <1>4, <2>1 DEF ItemWhole
    <3>4. QED
      BY <3>1, <3>2, <3>3
  <2>2. CASE w # Work \/ i \notin ids
    BY <1>2, <2>2 DEF Sound, InOrder, Whole
  <2>3. QED
    BY <2>1, <2>2
<1>7. QED
  BY <1>5, <1>6 DEF Sound, InOrder, Whole, L, k

\* Cancelling closes only groups that left no trace.
LEMMA CancelSound ==
    ASSUME NEW L \in LedgerType, NEW w \in Works, NEW r, NEW answer, head \in [Mems -> Heads],
           Sound(L, head, hist)
    PROVE  Sound(Put(L, w, CancelWork(w, L.work[w]), r, answer), head, hist)
<1> DEFINE M == Put(L, w, CancelWork(w, L.work[w]), r, answer)
<1>1. /\ \A i \in Items : M.work[w].items[i] = CancelItem(w, i, L.work[w].items[i])
      /\ \A v \in Works, i \in Items : v # w => M.work[v].items[i] = L.work[v].items[i]
  BY DEF Put, CancelWork, CancelledItems, LedgerType, WorkType
<1>2. ASSUME NEW i \in Items
      PROVE  LET old == L.work[w].items[i]
                 new == CancelItem(w, i, old)
             IN  \/ new = old
                 \/ /\ new.st = "recovery_required" /\ new.sub = old.sub /\ new.group = old.group
                    /\ new.marked = old.marked
                 \/ /\ new.st = "cancelled" /\ new.sub = old.sub /\ new.group = old.group
                    /\ \A m \in Range(old.group) : head[m] # <<w, i, old.sub>>
  <2> DEFINE old == L.work[w].items[i]
  <2>1. old \in ItemType
    BY DEF LedgerType, WorkType
  <2>2. ASSUME NEW m, Applied(w, i, old, m) = "no"
        PROVE  head[m] # <<w, i, old.sub>>
    BY <2>2 DEF Applied, Intact
  <2>3. QED
    BY <2>1, <2>2 DEF CancelItem, ItemType
<1> HIDE DEF M
<1>3. ASSUME NEW v \in Works, NEW i \in Items
      PROVE  /\ \A s : \A m \in Mems : head[m] = <<v, i, s>> /\ Holds(L.work[v].items[i], m, s)
                   => Holds(M.work[v].items[i], m, s)
             /\ ItemInOrder(v, i, M.work[v].items[i], head)
             /\ ItemWhole(M.work[v].items[i], hist)
  <2> DEFINE old == L.work[v].items[i]
             new == M.work[v].items[i]
  <2>1. ItemInOrder(v, i, old, head) /\ ItemWhole(old, hist)
    BY DEF Sound, InOrder, Whole
  <2>2. CASE new = old
    BY <2>1, <2>2
  <2>3. CASE /\ new.st = "recovery_required" /\ new.sub = old.sub /\ new.group = old.group
             /\ new.marked = old.marked
    BY <2>1, <2>3 DEF ItemInOrder, ItemWhole, Holds, Unsure
  <2>4. CASE /\ new.st = "cancelled" /\ new.sub = old.sub /\ new.group = old.group
             /\ \A m \in Range(old.group) : head[m] # <<v, i, old.sub>>
    BY <2>4 DEF ItemInOrder, ItemWhole, Holds, Range
  <2>5. QED
    BY <1>1, <1>2, <2>2, <2>3, <2>4
<1>4. WrittenFrom(M, head)
  BY <1>3 DEF Sound, WrittenFrom
<1>5. QED
  BY <1>3, <1>4 DEF Sound, InOrder, Whole, M

-----------------------------------------------------------------------------
(* The second layer is kept by every action. *)

Quiet(c) == c # Idle => c.at \notin ExecPlaces \cup {"charge", "compile"}

LEMMA QuietSteps ==
    ASSUME Quiet(call')
    PROVE  Steps'
BY DEF Quiet, Steps, Alike, NoneOpen, Marking, Ready, ExecPlaces, ItemPlaces, Idle

LEMMA RaiseQuiet ==
    ASSUME Typed, call # Idle, NEW kind \in {"none", "io", "validation"}
    PROVE  Quiet(Raise(kind))
BY RaiseFields DEF Quiet, ExecPlaces, ItemPlaces

LEMMA SaveLedgers ==
    ASSUME Ledgers, NEW L, NEW good, NEW bad, Save(L, good, bad), Sound(L, head, hist),
           UNCHANGED << head, hist >>
    PROVE  Ledgers'
BY DEF Ledgers, Save

LEMMA SafeInit == Init => Ledgers /\ Steps
<1> SUFFICES ASSUME Init PROVE Ledgers /\ Steps
  OBVIOUS
<1>1. \A w \in Works, i \in Items : disk.work[w].items[i] = NoItem
  BY DEF Init, NoWork
<1>2. \A m \in Mems, w \in Works, i \in Items, s \in 0..Limit : head[m] # <<w, i, s>>
  <2>1. \A m \in Mems : head[m] \in ExtRevs \cup {Absent}
    BY DEF Init
  <2>2. \A w \in Works, i \in Items, s \in 0..Limit : <<w, i, s>> \in Ops
    BY DEF Ops
  <2>3. QED
    BY <2>1, <2>2, RevisionsAssumption DEF Revs
<1>3. Sound(disk, head, hist)
  <2>1. \A w, i : ItemInOrder(w, i, NoItem, head)
    BY DEF ItemInOrder, NoItem
  <2>2. ItemWhole(NoItem, hist)
    BY DEF ItemWhole, NoItem
  <2>3. QED
    BY <1>1, <1>2, <2>1, <2>2 DEF Sound, WrittenFrom, InOrder, Whole
<1>4. Quiet(call)
  BY DEF Init, Quiet
<1>5. Steps
  BY <1>4 DEF Quiet, Steps, Alike, NoneOpen, Marking, Ready, ExecPlaces, ItemPlaces, Idle
<1>6. QED
  BY <1>3, <1>5 DEF Init, Ledgers

LEMMA SendSafe ==
    ASSUME Safe, NEW r, NEW t, NEW w, Send(r, t, w)
    PROVE  Ledgers' /\ Steps'
BY QuietSteps DEF Safe, Send, Ledgers, Quiet

LEMMA CrashSafe ==
    ASSUME Safe, Crash
    PROVE  Ledgers' /\ Steps'
BY QuietSteps DEF Safe, Crash, Ledgers, Quiet

LEMMA ExternalEditSafe ==
    ASSUME Safe, NEW m \in Mems, NEW v \in ExtRevs \cup {Absent}, ExternalEdit(m, v)
    PROVE  Ledgers' /\ Steps'
<1>1. Ledgers'
  BY EditedSound DEF Safe, Typed, TypeOK, Ledgers, ExternalEdit
<1>2. CASE call.at \in {"replace", "rename"}
  <2>1. call \in StepType \ {Idle} /\ call' = [call EXCEPT !.stale = TRUE]
    BY <1>2 DEF Safe, Typed, TypeOK, ExternalEdit, Idle
  <2>2. /\ call'.at = call.at /\ call'.req = call.req /\ call'.item = call.item
        /\ call'.k = call.k /\ call'.stale
    BY <1>2, <2>1 DEF StepType, Idle
  <2>3. Work' = Work /\ Item' = Item
    BY <2>2 DEF ExternalEdit, Work, Item
  <2>4. Before(call.k)' = Before(call.k)
    BY <2>2, <2>3 DEF Before
  <2>5. QED
    BY <1>1, <1>2, <2>2, <2>3, <2>4 DEF Safe, Steps, Alike, NoneOpen, Marking, Ready,
       ExternalEdit, ExecPlaces, ItemPlaces
<1>3. CASE call.at \notin {"replace", "rename"}
  <2>1. UNCHANGED << call, hist, disk, live, sent >>
    BY <1>3 DEF ExternalEdit
  <2>2. Work' = Work /\ Item' = Item
    BY <2>1 DEF Work, Item
  <2>3. Before(call.k)' = Before(call.k)
    BY <2>1, <2>2 DEF Before
  <2>4. QED
    BY <1>1, <1>3, <2>1, <2>2, <2>3 DEF Safe, Steps, Alike, NoneOpen, Marking, Ready
<1>4. QED
  BY <1>2, <1>3

\* The calls that only build a ledger in memory.
LEMMA PrepareSafe ==
    ASSUME Safe, NEW r \in Requests, PrepareNew(r) \/ PrepareRefresh(r)
    PROVE  Ledgers' /\ Steps'
<1>1. sent[r].work \in Works /\ disk \in LedgerType
  BY AcceptedType DEF Safe, PrepareNew, PrepareRefresh, Tools
<1>2. Quiet(call')
  BY EnterType DEF PrepareNew, PrepareRefresh, Quiet, Enter, ExecPlaces, ItemPlaces
<1>3. PICK k : k.items = disk.work[sent[r].work].items
               /\ live' = Put(disk, sent[r].work, k, r, "answered")
  BY <1>1 DEF PrepareNew, PrepareRefresh, NoWork, LedgerType, WorkType
<1>4. UNCHANGED << head, hist, disk >>
  BY DEF PrepareNew, PrepareRefresh
<1>5. QED
  BY <1>1, <1>2, <1>3, <1>4, PutSound, QuietSteps DEF Safe, Ledgers

LEMMA CancelSafe ==
    ASSUME Safe, NEW r \in Requests, Cancel(r)
    PROVE  Ledgers' /\ Steps'
<1>1. sent[r].work \in Works /\ disk \in LedgerType /\ head \in [Mems -> Heads]
  BY AcceptedType DEF Safe, Cancel, Tools
<1>2. Quiet(call')
  BY EnterType DEF Cancel, Quiet, Enter, ExecPlaces, ItemPlaces
<1>3. Sound(live', head, hist)
  BY <1>1, CancelSound DEF Cancel, Safe, Ledgers
<1>4. QED
  BY <1>2, <1>3, QuietSteps DEF Safe, Ledgers, Cancel

LEMMA BeginResumeSafe ==
    ASSUME Safe, NEW r \in Requests, BeginResume(r)
    PROVE  Ledgers' /\ Steps'
<1>1. Quiet(call')
  BY EnterType DEF BeginResume, Quiet, Enter, ExecPlaces, ItemPlaces
<1>2. QED
  BY <1>1, QuietSteps DEF Safe, Ledgers, BeginResume

LEMMA BeginSubmitSafe ==
    ASSUME Safe, NEW r \in Requests, BeginSubmit(r)
    PROVE  Ledgers' /\ Steps'
<1> DEFINE w == sent[r].work
           old == disk.work[w]
           n == old.rev + 1
           u == old.used + 1
           k == [old EXCEPT !.used = u, !.latest = sent[r].sub, !.rev = n,
                            !.status = "submitted"]
<1>1. w \in Works /\ disk \in LedgerType /\ old \in WorkType
  BY AcceptedType DEF Safe, BeginSubmit, Tools
<1>2. live' = Put(disk, w, k, r, "open") /\ call' = Enter(r, "charge")
      /\ UNCHANGED << head, hist, disk, sent >> /\ ~RecoveryRequired(old)
  BY DEF BeginSubmit
<1> HIDE DEF n, u
<1>3. k.items = old.items
  BY <1>1 DEF WorkType
<1> HIDE DEF k
<1>4. Ledgers'
  BY <1>1, <1>2, <1>3, PutSound DEF Safe, Ledgers
<1>5. call'.at = "charge" /\ Work' = w
  BY <1>2 DEF Enter, Work
<1>6. live'.work[w].items = old.items
  BY <1>1, <1>2, <1>3 DEF Put, LedgerType
<1>7. Unsettled(live'.work[w]) = {}
  BY <1>2, <1>6 DEF Unsettled, RecoveryRequired
<1>8. Steps'
  BY <1>5, <1>7 DEF Steps, Alike, NoneOpen, Marking, Ready, ExecPlaces, ItemPlaces
<1>9. QED
  BY <1>4, <1>8

LEMMA SaveChargeSafe ==
    ASSUME Safe, SaveCharge
    PROVE  Ledgers' /\ Steps'
<1>1. call # Idle /\ call.at = "charge"
  BY DEF SaveCharge, Idle
<1>2. Ledgers'
  BY SaveLedgers DEF Safe, Ledgers, SaveCharge
<1>3. CASE call' = Raise("io")
  BY <1>1, <1>2, <1>3, RaiseQuiet, QuietSteps DEF Safe
<1>4. CASE call' = Goto("compile") /\ live' = live
  <2>1. call'.at = "compile" /\ Work' = Work
    BY <1>1, <1>4, GotoFields DEF Safe, Places, Work, SaveCharge
  <2>2. Unsettled(live.work[Work])' = Unsettled(live.work[Work])
    BY <1>4, <2>1 DEF Unsettled
  <2>3. QED
    BY <1>1, <1>2, <2>1, <2>2 DEF Safe, Steps, Alike, NoneOpen, Marking, Ready, ExecPlaces,
       ItemPlaces
<1>5. QED
  BY <1>3, <1>4 DEF SaveCharge, Save

LEMMA PublishSafe ==
    ASSUME Safe, Publish
    PROVE  Ledgers' /\ Steps'
<1>1. call # Idle
  BY DEF Publish, Idle
<1>2. Quiet(call')
  BY <1>1, RaiseQuiet, GotoFields DEF Publish, Save, Safe, Quiet, Places, ExecPlaces, ItemPlaces
<1>3. QED
  BY <1>2, QuietSteps, SaveLedgers DEF Safe, Ledgers, Publish

LEMMA CompileRefusesSafe ==
    ASSUME Safe, CompileRefuses
    PROVE  Ledgers' /\ Steps'
<1>1. call # Idle
  BY DEF CompileRefuses, Idle
<1>2. QED
  BY <1>1, RaiseQuiet, QuietSteps DEF Safe, Ledgers, CompileRefuses

\* The items the loop takes up have no group on disk.
LEMMA CompiledItems ==
    ASSUME Safe, call.at = "compile", NEW i \in Items, Open(live.work[Work], i)
    PROVE  live.work[Work].items[i].st \notin Unsure \cup {"saved"}
BY DEF Safe, Steps, NoneOpen, Unsettled, Settled, Open

LEMMA CompileAllSafe ==
    ASSUME Safe, CompileAll
    PROVE  Ledgers' /\ Steps'
<1> DEFINE k == live.work[Work]
<1>1. call # Idle /\ call.at = "compile" /\ head \in [Mems -> Heads]
  BY DEF CompileAll, Idle, Safe, Typed, TypeOK
<1>2. PICK ids \in ItemSets(k) : \E plan \in [ids -> Decisions(k)] :
             /\ \A i \in ids : Open(k, i)
             /\ live' = PutWork(WithDecisions(k, Deconflicted(plan)))
  BY DEF CompileAll
<1>3. PICK plan \in [ids -> Decisions(k)] :
             /\ \A i \in ids : Open(k, i)
             /\ live' = PutWork(WithDecisions(k, Deconflicted(plan)))
  BY <1>2
<1>4. ids \subseteq Items /\ plan \in [ids -> Decision]
  BY <1>3, ItemSetsType, DecisionsType
<1>5. Deconflicted(plan) \in [ids -> Decision]
  BY <1>4, DeconflictedType
<1>6. Sound(live', head, hist)
  BY <1>1, <1>3, <1>4, <1>5, CompiledItems, WithDecisionsSound DEF Safe, Ledgers
<1>7. Quiet(call')
  BY <1>1, GotoFields DEF Safe, CompileAll, Quiet, Places, ExecPlaces, ItemPlaces
<1>8. QED
  BY <1>6, <1>7, QuietSteps DEF Safe, Ledgers, CompileAll

LEMMA CompileStopsSafe ==
    ASSUME Safe, CompileStops
    PROVE  Ledgers' /\ Steps'
<1> DEFINE k == live.work[Work]
           Stopped(done, stop, plan) ==
               [i \in done \cup {stop} |->
                    IF i = stop THEN [st |-> "invalid", group |-> << >>] ELSE plan[i]]
           Taken(done, stop, plan) ==
               /\ \A i \in done : Open(k, i)
               /\ \/ live' = PutWork(WithDecisions(k, plan)) /\ call' = Raise("validation")
                  \/ /\ Open(k, stop)
                     /\ live' = PutWork(WithDecisions(k, Stopped(done, stop, plan)))
                     /\ call' = Raise("io")
<1>1. call # Idle /\ call.at = "compile" /\ head \in [Mems -> Heads]
  BY DEF CompileStops, Idle, Safe, Typed, TypeOK
<1>2. PICK ids \in ItemSets(k), stop \in Items :
         \E done \in SUBSET (ids \ {stop}) : \E plan \in [done -> Decisions(k)] :
            Taken(done, stop, plan)
  BY Zenon DEF CompileStops
<1>3. PICK done \in SUBSET (ids \ {stop}) : \E plan \in [done -> Decisions(k)] :
            Taken(done, stop, plan)
  BY <1>2, Zenon
<1>4. PICK plan \in [done -> Decisions(k)] : Taken(done, stop, plan)
  BY <1>3, Zenon
<1>5. done \subseteq Items /\ plan \in [done -> Decision]
  BY <1>4, ItemSetsType, DecisionsType
<1>6. Stopped(done, stop, plan) \in [done \cup {stop} -> Decision]
  BY <1>5 DEF Decision
<1>7. \A i \in done : k.items[i].st \notin Unsure \cup {"saved"}
  BY <1>1, <1>4, <1>5, CompiledItems
<1>8. CASE live' = PutWork(WithDecisions(k, plan))
  BY <1>1, <1>4, <1>5, <1>7, <1>8, WithDecisionsSound, RaiseQuiet, QuietSteps
     DEF Safe, Ledgers, CompileStops
<1>9. CASE /\ Open(k, stop)
           /\ live' = PutWork(WithDecisions(k, Stopped(done, stop, plan)))
  <2>1. k.items[stop].st \notin Unsure \cup {"saved"}
    BY <1>1, <1>9, CompiledItems
  <2>2. Quiet(call')
    BY <1>1, <1>4, RaiseQuiet DEF Safe
  <2> HIDE DEF Stopped
  <2>3. Sound(live', head, hist)
    BY <1>1, <1>5, <1>6, <1>7, <1>9, <2>1, WithDecisionsSound DEF Safe, Ledgers
  <2>4. QED
    BY <2>2, <2>3, QuietSteps DEF Safe, Ledgers, CompileStops
<1>10. QED
  BY <1>4, <1>8, <1>9

LEMMA VerifySafe ==
    ASSUME Safe, Verify
    PROVE  Ledgers' /\ Steps'
<1>1. call # Idle /\ call.at = "verify" /\ live = disk
  BY DEF Verify, Idle, Safe, Typed, Placed, IdleInStep, Synced
<1>2. Ledgers'
  BY DEF Safe, Ledgers, Verify
<1>3. CASE call' = Raise("validation")
  BY <1>1, <1>2, <1>3, RaiseQuiet, QuietSteps DEF Safe
<1>4. CASE call' = [Goto("select") EXCEPT !.todo = Unsettled(live.work[Work])]
  <2>1. call'.at = "select"
    BY <1>1, <1>4, GotoFields DEF Safe, Places, StepType, Idle
  <2>2. live' = disk'
    BY <1>1 DEF Verify
  <2>3. Alike'
    BY <2>2 DEF Alike, Written
  <2>4. QED
    BY <1>2, <2>1, <2>3 DEF Steps, NoneOpen, Marking, Ready
<1>5. QED
  BY <1>3, <1>4 DEF Verify

LEMMA SelectSafe ==
    ASSUME Safe, Select
    PROVE  Ledgers' /\ Steps'
<1>1. call # Idle /\ call.at = "select"
  <2>1. call.at = "select"
    BY Zenon DEF Select
  <2>2. QED
    BY <2>1 DEF Idle
<1>2. Ledgers'
  BY DEF Safe, Ledgers, Select
<1>3. CASE call' = Goto("finish")
  <2>1. Quiet(call')
    BY <1>1, <1>3, GotoFields DEF Safe, Quiet, Places, ExecPlaces, ItemPlaces
  <2>2. QED
    BY <1>2, <2>1, QuietSteps
<1>4. ASSUME NEW i \in call.todo,
             call' = [Goto("guard") EXCEPT !.item = i, !.todo = @ \ {i}, !.k = 1]
      PROVE  Steps'
  <2>1. PICK g \in StepType \ {Idle} : g = Goto("guard")
    BY <1>1, GotoFields DEF Safe, Places
  <2>2. g.at = "guard" /\ g.req = call.req
    BY <1>1, <2>1, GotoFields DEF Safe, Places
  <2>3. call'.at = "guard" /\ call'.req = call.req /\ call'.k = 1
    BY <1>4, <2>1, <2>2 DEF StepType, Idle
  <2>4. UNCHANGED << disk, live, sent >> /\ Work' = Work
    BY <2>3 DEF Select, Work
  <2>5. Alike'
    BY <1>1, <2>4 DEF Safe, Steps, Alike, ExecPlaces
  <2>6. QED
    BY <2>3, <2>5 DEF Steps, NoneOpen, Marking, Ready
<1>5. QED
  BY <1>2, <1>3, <1>4 DEF Select

\* Moving from place to place with the same member of the same item.
LEMMA SameHand ==
    ASSUME Safe, call.at \in ItemPlaces, call'.at \in ItemPlaces, call'.req = call.req,
           call'.item = call.item, UNCHANGED << disk, live, sent >>
    PROVE  Alike' /\ NoneOpen' /\ Work' = Work /\ Item' = Item
<1>1. Work' = Work
  BY DEF Work
<1>2. QED
  BY <1>1 DEF Safe, Steps, Alike, NoneOpen, Item, ExecPlaces, ItemPlaces

LEMMA ToBlock ==
    ASSUME Safe, call.at \in ItemPlaces, call' = Goto("block"), UNCHANGED << disk, live, sent >>
    PROVE  Steps'
<1>1. call # Idle
  BY DEF Idle, ItemPlaces
<1>2. /\ call'.at = "block" /\ call'.req = call.req /\ call'.item = call.item
  BY <1>1, GotoFields DEF Safe, Places
<1>3. QED
  BY <1>2, SameHand DEF Steps, Marking, Ready, ItemPlaces

LEMMA GuardSafe ==
    ASSUME Safe, Guard
    PROVE  Ledgers' /\ Steps'
<1>1. call # Idle /\ call.at = "guard"
  BY DEF Guard, Idle
<1>2. Ledgers' /\ UNCHANGED << disk, live, sent >>
  BY DEF Safe, Ledgers, Guard
<1>3. CASE call' = Goto("block")
  BY <1>1, <1>2, <1>3, ToBlock DEF ItemPlaces
<1>4. CASE call' = Goto("apply")
  <2>1. /\ call'.at = "apply" /\ call'.req = call.req /\ call'.item = call.item
        /\ call'.k = call.k
    BY <1>1, <1>4, GotoFields DEF Safe, Places
  <2>2. call'.k = 1
    BY <1>1, <2>1 DEF Safe, Steps, Marking
  <2>3. (Before(call.k) = {})'
    BY <2>2 DEF Before
  <2>4. QED
    BY <1>1, <1>2, <2>1, <2>3, SameHand DEF Steps, Marking, Ready, ItemPlaces
<1>5. QED
  BY <1>3, <1>4 DEF Guard

LEMMA ApplySafe ==
    ASSUME Safe, Apply
    PROVE  Ledgers' /\ Steps'
<1>1. call # Idle /\ call.at = "apply" /\ call.at \in ItemPlaces
  BY DEF Apply, Idle, ItemPlaces
<1>2. UNCHANGED << head, disk, live, sent >>
  BY DEF Apply
<1>3. Item \in ItemType /\ Member \in Mems
  BY <1>1, InHandType DEF Safe
<1>4. hist' \in {hist, Archived(Member)}
  BY DEF Apply
<1>5. \A m \in Mems : hist[m] \subseteq hist'[m]
  BY <1>3, <1>4 DEF Archived, Safe, Typed, TypeOK
<1>6. Ledgers'
  BY <1>2, <1>5, ArchivedSound DEF Safe, Ledgers, Typed, TypeOK
<1>7. CASE call' = Goto("block")
  BY <1>1, <1>2, <1>6, <1>7, ToBlock
<1>8. CASE call' = Goto("confirm")
  <2>1. /\ call'.at = "confirm" /\ call'.req = call.req /\ call'.item = call.item
        /\ call'.k = call.k
    BY <1>1, <1>8, GotoFields DEF Safe, Places
  <2>2. Alike' /\ NoneOpen' /\ Work' = Work /\ Item' = Item
    BY <1>1, <1>2, <2>1, SameHand DEF ItemPlaces
  <2>3. Before(call.k)' = Before(call.k)
    BY <2>1, <2>2 DEF Before
  <2>4. QED
    BY <1>1, <1>2, <1>6, <2>1, <2>2, <2>3 DEF Safe, Steps, Marking, Ready
<1>9. CASE /\ head[Member] = Item.before[Member] /\ hist' = Archived(Member)
           /\ call' = [Goto("replace") EXCEPT !.stale = FALSE]
  <2>1. PICK g \in StepType \ {Idle} : g = Goto("replace")
    BY <1>1, GotoFields DEF Safe, Places
  <2>2. g.at = "replace" /\ g.req = call.req /\ g.item = call.item /\ g.k = call.k
    BY <1>1, <2>1, GotoFields DEF Safe, Places
  <2>3. /\ call'.at = "replace" /\ call'.req = call.req /\ call'.item = call.item
        /\ call'.k = call.k
    BY <1>9, <2>1, <2>2 DEF StepType, Idle
  <2>4. Alike' /\ NoneOpen' /\ Work' = Work /\ Item' = Item
    BY <1>1, <1>2, <2>3, SameHand DEF ItemPlaces
  <2>5. Before(call.k)' = Before(call.k) /\ Member' = Member
    BY <2>3, <2>4 DEF Before, Member
  <2>6. head[Member] \in hist'[Member] \cup {Absent}
    BY <1>3, <1>9 DEF Archived, Safe, Typed, TypeOK
  <2>7. QED
    BY <1>1, <1>2, <1>6, <1>9, <2>3, <2>4, <2>5, <2>6 DEF Safe, Steps, Marking, Ready
<1>10. Replaceable => head[Member] = Item.before[Member]
  BY DEF Replaceable, Intact, Op
<1>11. QED
  BY <1>7, <1>8, <1>9, <1>10 DEF Apply

LEMMA SameOp ==
    ASSUME NEW w, NEW i, NEW s, NEW v, NEW j, NEW t, <<w, i, s>> = <<v, j, t>>
    PROVE  w = v /\ i = j /\ s = t
OBVIOUS

\* The head of the member in hand becomes the revision of the operation.
LEMMA ReplacedSound ==
    ASSUME NEW L \in LedgerType, NEW h \in [Mems -> Heads], NEW a, Sound(L, h, a),
           NEW w \in Works, NEW i \in Items, NEW it, it = L.work[w].items[i],
           it.st \in Unsure \cup {"saved"}, it.group \in Groups,
           NEW n \in 1..Len(it.group),
           \A b \in 1..(n - 1) : it.group[b] \in it.marked,
           NEW m, m = it.group[n], NEW op, op = <<w, i, it.sub>>
    PROVE  Sound(L, [h EXCEPT ![m] = op], a)
<1> DEFINE g == [h EXCEPT ![m] = op]
<1>1. /\ it.group \in Seq(Mems)
      /\ \A b, c \in 1..Len(it.group) : it.group[b] = it.group[c] => b = c
  BY GroupsAssumption
<1>2. m \in Mems /\ m \in Range(it.group) /\ n \in DOMAIN it.group
      /\ DOMAIN it.group = 1..Len(it.group)
  BY <1>1 DEF Range
<1>3. g[m] = op /\ \A o \in Mems : o # m => g[o] = h[o]
  BY <1>2
<1> HIDE DEF g
<1>4. WrittenFrom(L, g)
  <2> SUFFICES ASSUME NEW o \in Mems, NEW v \in Works, NEW j \in Items, NEW s \in 0..Limit,
                      g[o] = <<v, j, s>>
               PROVE  Holds(L.work[v].items[j], o, s)
    BY DEF WrittenFrom
  <2>1. CASE o = m
    <3>1. v = w /\ j = i /\ s = it.sub
      <4>1. <<v, j, s>> = <<w, i, it.sub>>
        BY <1>3, <2>1
      <4>2. QED
        BY <4>1, SameOp
    <3>2. QED
      BY <1>2, <2>1, <3>1 DEF Holds
  <2>2. CASE o # m
    BY <1>3, <2>2 DEF Sound, WrittenFrom
  <2>3. QED
    BY <2>1, <2>2
<1>5. ASSUME NEW v \in Works, NEW j \in Items
      PROVE  ItemInOrder(v, j, L.work[v].items[j], g)
  <2> DEFINE x == L.work[v].items[j]
  <2>1. ItemInOrder(v, j, x, h) /\ \A b \in DOMAIN x.group : x.group[b] \in Mems
    BY LedgerItem, GroupType DEF Sound, InOrder
  <2> SUFFICES ASSUME NEW b \in DOMAIN x.group, g[x.group[b]] = <<v, j, x.sub>>
               PROVE  \A c \in 1..(b - 1) : x.group[c] \in x.marked
    BY DEF ItemInOrder
  <2>2. CASE x.group[b] # m
    BY <1>3, <2>1, <2>2 DEF ItemInOrder
  <2>3. CASE x.group[b] = m
    <3>1. v = w /\ j = i
      <4>1. <<v, j, x.sub>> = <<w, i, it.sub>>
        BY <1>3, <2>3
      <4>2. QED
        BY <4>1, SameOp
    <3>2. b = n
      BY <1>1, <1>2, <2>3, <3>1
    <3>3. QED
      BY <3>1, <3>2
  <2>4. QED
    BY <2>2, <2>3
<1>6. QED
  BY <1>4, <1>5 DEF Sound, InOrder, g

LEMMA FreshBlock ==
    ASSUME Safe, call.at \in ItemPlaces, call' = [Goto("block") EXCEPT !.stale = FALSE],
           UNCHANGED << disk, live, sent >>
    PROVE  Steps'
<1>1. call # Idle
  BY DEF Idle, ItemPlaces
<1>2. /\ call'.at = "block" /\ call'.req = call.req /\ call'.item = call.item
  BY <1>1, FreshFields DEF Safe, Places
<1>3. QED
  BY <1>2, SameHand DEF Steps, Marking, Ready, ItemPlaces

LEMMA ReplaceSafe ==
    ASSUME Safe, Replace
    PROVE  Ledgers' /\ Steps'
<1>1. call # Idle /\ call.at = "replace" /\ call.at \in ItemPlaces
  BY DEF Replace, Idle, ItemPlaces
<1>2. UNCHANGED << head, hist, disk, live, sent >>
  BY DEF Replace
<1>3. Ledgers'
  BY <1>2 DEF Safe, Ledgers
<1>4. CASE call' = [Goto("block") EXCEPT !.stale = FALSE]
  BY <1>1, <1>2, <1>3, <1>4, FreshBlock
<1>5. CASE call' = Goto("rename") /\ ~call.stale
  <2>1. /\ call'.at = "rename" /\ call'.req = call.req /\ call'.item = call.item
        /\ call'.k = call.k
    BY <1>1, <1>5, GotoFields DEF Safe, Places
  <2>2. Alike' /\ NoneOpen' /\ Work' = Work /\ Item' = Item
    BY <1>1, <1>2, <2>1, SameHand DEF ItemPlaces
  <2>3. Before(call.k)' = Before(call.k) /\ Member' = Member
    BY <2>1, <2>2 DEF Before, Member
  <2>4. Marking'
    BY <1>1, <1>2, <2>1, <2>2, <2>3 DEF Safe, Steps, Marking
  <2>5. Ready'
    BY <1>1, <1>2, <1>5, <2>1, <2>2, <2>3 DEF Safe, Steps, Ready
  <2>6. QED
    BY <1>3, <2>2, <2>4, <2>5 DEF Steps
<1>6. QED
  BY <1>4, <1>5 DEF Replace

LEMMA RenameSafe ==
    ASSUME Safe, Rename
    PROVE  Ledgers' /\ Steps'
<1>1. call # Idle /\ call.at = "rename" /\ call.at \in ItemPlaces
  BY DEF Rename, Idle, ItemPlaces
<1>2. UNCHANGED << hist, disk, live, sent >>
  BY DEF Rename
<1>3. /\ call.item \in Items /\ Work \in Works /\ Item.group \in Groups
      /\ Item.st \in Unsure \cup {"saved"} /\ call.k \in 1..Len(Item.group)
  BY <1>1, InHandType, InFlight DEF Safe, Typed, Placed, HandHeld
<1> DEFINE old == disk.work[Work].items[call.item]
           new == live.work[Work].items[call.item]
<1>4. new = Item
  BY DEF Item
<1>5. old.sub = new.sub /\ old.group = new.group /\ old.st \in Unsure \cup {"saved"}
  BY <1>1, <1>3, <1>4 DEF Safe, Steps, Alike, ExecPlaces, Written
<1>6. \A b \in 1..(call.k - 1) : Item.group[b] \in Item.marked /\ Item.group[b] \in old.marked
  BY <1>1 DEF Safe, Steps, Marking, Before
<1>7. head' = head \/ head' = [head EXCEPT ![Member] = Op]
  BY DEF Rename
<1>8. disk \in LedgerType /\ live \in LedgerType /\ head \in [Mems -> Heads]
  BY DEF Safe, Typed, TypeOK
<1> HIDE DEF old, new
<1>9. Sound(live, [head EXCEPT ![Member] = Op], hist)
  BY <1>3, <1>4, <1>6, <1>8, ReplacedSound DEF Safe, Ledgers, Member, Op, new
<1>10. Sound(disk, [head EXCEPT ![Member] = Op], hist)
  BY <1>3, <1>4, <1>5, <1>6, <1>8, ReplacedSound DEF Safe, Ledgers, Member, Op, old
<1>11. Ledgers'
  BY <1>2, <1>7, <1>9, <1>10 DEF Safe, Ledgers
<1>12. CASE call' = [Goto("block") EXCEPT !.stale = FALSE]
  BY <1>1, <1>2, <1>11, <1>12, FreshBlock
<1>13. CASE call' = [Goto("confirm") EXCEPT !.stale = FALSE]
  <2>1. /\ call'.at = "confirm" /\ call'.req = call.req /\ call'.item = call.item
        /\ call'.k = call.k
    BY <1>1, <1>13, FreshFields DEF Safe, Places
  <2>2. Alike' /\ NoneOpen' /\ Work' = Work /\ Item' = Item
    BY <1>1, <1>2, <2>1, SameHand DEF ItemPlaces
  <2>3. Before(call.k)' = Before(call.k)
    BY <2>1, <2>2 DEF Before
  <2>4. QED
    BY <1>1, <1>2, <1>11, <2>1, <2>2, <2>3 DEF Safe, Steps, Marking, Ready
<1>14. QED
  BY <1>11, <1>12, <1>13 DEF Rename

\* Saving the item in hand, its group kept and its marks added to.
LEMMA SaveItemSafe ==
    ASSUME Safe, call.at \in ItemPlaces, NEW it \in ItemType,
           it.sub = Item.sub, it.group = Item.group, it.before = Item.before,
           it.st \in Unsure \cup {"saved"}, Item.marked \subseteq it.marked,
           it.st = "saved" =>
               /\ it.applied = "yes" /\ Range(it.group) \subseteq it.marked
               /\ \A m \in Range(it.group) : it.before[m] \in hist[m] \cup {Absent},
           NEW good, NEW bad, Save(PutItem(it), good, bad), UNCHANGED << head, hist, sent >>
    PROVE  /\ Ledgers'
           /\ call' # Idle /\ call'.req = call.req /\ call'.at \in ExecPlaces =>
                  Alike' /\ NoneOpen' /\ Work' = Work
<1> DEFINE L == PutItem(it)
<1>1. call # Idle /\ call.item \in Items /\ Work \in Works /\ Item.st \in Unsure \cup {"saved"}
  BY InHandType, InFlight DEF Safe, Typed, Placed, HandHeld
<1>2. Ledgers'
  BY PutItemSound, SaveLedgers DEF Safe, Ledgers
<1>3. /\ L.work[Work].items[call.item] = it
      /\ \A i \in Items : i # call.item =>
             L.work[Work].items[i] = live.work[Work].items[i]
  BY <1>1 DEF PutItem, Safe, Typed, TypeOK, LedgerType, WorkType
<1>4. disk' \in {disk, L} /\ (call' # Idle => live' = L)
  BY DEF Save
<1> HIDE DEF L
<1>5. ASSUME call' # Idle, call'.req = call.req, call'.at \in ExecPlaces
      PROVE  Alike' /\ NoneOpen' /\ Work' = Work
  <2>1. Work' = Work /\ live' = L
    BY <1>4, <1>5 DEF Work
  <2>2. NoneOpen'
    BY <1>5 DEF NoneOpen, ExecPlaces, ItemPlaces
  <2>3. ASSUME NEW i \in Items, L.work[Work].items[i].st \in Unsure \cup {"saved"}
        PROVE  /\ disk'.work[Work].items[i].sub = L.work[Work].items[i].sub
               /\ disk'.work[Work].items[i].group = L.work[Work].items[i].group
               /\ disk'.work[Work].items[i].st \in Unsure \cup {"saved"}
    <3>1. CASE disk' = L
      BY <2>3, <3>1
    <3>2. CASE disk' = disk
      <4>1. i \in Written(live.work[Work])
        BY <1>1, <1>3, <2>3 DEF Written, Item
      <4>2. /\ disk.work[Work].items[i].sub = live.work[Work].items[i].sub
            /\ disk.work[Work].items[i].group = live.work[Work].items[i].group
            /\ disk.work[Work].items[i].st \in Unsure \cup {"saved"}
        BY <4>1 DEF Safe, Steps, Alike, ExecPlaces
      <4>3. QED
        BY <1>3, <3>2, <4>2 DEF Item
    <3>3. QED
      BY <1>4, <3>1, <3>2
  <2>4. Alike'
    BY <2>1, <2>3 DEF Alike, Written
  <2>5. QED
    BY <2>1, <2>2, <2>4
<1>6. QED
  BY <1>2, <1>5

LEMMA ConfirmSafe ==
    ASSUME Safe, Confirm
    PROVE  Ledgers' /\ Steps'
<1>1. call # Idle /\ call.at = "confirm" /\ call.at \in ItemPlaces
  BY DEF Confirm, Idle, ItemPlaces
<1>2. UNCHANGED << head, hist, sent >>
  BY DEF Confirm
<1>3. /\ Item \in ItemType /\ Item.group \in Groups /\ Member \in Mems /\ call.item \in Items
      /\ Work \in Works /\ Item.st \in Unsure \cup {"saved"} /\ call.k \in 1..Len(Item.group)
  BY <1>1, InHandType, InFlight DEF Safe, Typed, Placed, HandHeld
<1>4. CASE call' = Goto("block") /\ UNCHANGED << disk, live >>
  BY <1>1, <1>2, <1>4, ToBlock DEF Safe, Ledgers
<1>5. CASE Save(Marked, NextMember, Goto("block"))
  <2> DEFINE it == [Item EXCEPT !.marked = @ \cup {Member}]
  <2>1. /\ it \in ItemType /\ it.sub = Item.sub /\ it.group = Item.group
        /\ it.before = Item.before /\ it.st = Item.st /\ it.applied = Item.applied
        /\ it.marked = Item.marked \cup {Member}
    BY <1>3 DEF ItemType
  <2>2. Save(PutItem(it), NextMember, Goto("block"))
    BY <1>5 DEF Marked
  <2>3. ItemWhole(Item, hist)
    BY <1>3 DEF Safe, Ledgers, Sound, Whole, Item
  <2>4. it.st = "saved" =>
           /\ it.applied = "yes" /\ Range(it.group) \subseteq it.marked
           /\ \A m \in Range(it.group) : it.before[m] \in hist[m] \cup {Absent}
    BY <2>1, <2>3 DEF ItemWhole
  <2>5. PutItem(it).work[Work].items[call.item] = it
    BY <1>3 DEF PutItem, Safe, Typed, TypeOK, LedgerType, WorkType
  <2> HIDE DEF it
  <2>6. /\ Ledgers'
        /\ call' # Idle /\ call'.req = call.req /\ call'.at \in ExecPlaces =>
               Alike' /\ NoneOpen' /\ Work' = Work
    BY <1>1, <1>2, <1>3, <2>1, <2>2, <2>4, SaveItemSafe
  <2>7. CASE call' = Goto("block")
    <3>1. call' # Idle /\ call'.req = call.req /\ call'.at = "block"
      BY <1>1, <2>7, GotoFields DEF Safe, Places
    <3>2. QED
      BY <2>6, <3>1 DEF Steps, Marking, Ready, ExecPlaces, ItemPlaces
  <2>8. CASE call' = NextMember /\ disk' = PutItem(it) /\ live' = PutItem(it)
    <3>1. CASE call.k < Len(Item.group)
      <4> DEFINE n == call.k + 1
      <4>1. PICK g \in StepType \ {Idle} : g = Goto("apply")
        BY <1>1, GotoFields DEF Safe, Places
      <4>2. g.k = call.k /\ g.req = call.req /\ g.item = call.item /\ g.at = "apply"
        BY <1>1, <4>1, GotoFields DEF Safe, Places
      <4>3. call' = [g EXCEPT !.k = n]
        BY <2>8, <3>1, <4>1, <4>2 DEF NextMember, StepType
      <4>4. n \in Nat /\ 1..(n - 1) = 1..call.k
        BY <1>3
      <4> HIDE DEF n
      <4>5. call' # Idle /\ call'.req = call.req /\ call'.at = "apply" /\ call'.item = call.item
            /\ call'.k = n
        BY <4>2, <4>3, <4>4 DEF StepType, Idle
      <4>6. Work' = Work
        BY <2>6, <4>5 DEF ExecPlaces, ItemPlaces
      <4>7. Item' = it /\ (disk.work[Work].items[call.item])' = it
        BY <2>5, <2>8, <4>5, <4>6 DEF Item
      <4>8. \A b \in 1..call.k : it.group[b] \in it.marked
        <5>1. \A b \in 1..(call.k - 1) : Item.group[b] \in Item.marked
          BY <1>1 DEF Safe, Steps, Marking, Before
        <5>2. \A b \in 1..call.k : b \in 1..(call.k - 1) \/ b = call.k
          BY <1>3
        <5>3. QED
          BY <2>1, <5>1, <5>2 DEF Member
      <4>9. Before(call.k)' \subseteq it.marked
        BY <4>4, <4>5, <4>7, <4>8 DEF Before
      <4>10. Marking'
        BY <4>5, <4>7, <4>9 DEF Marking
      <4>11. QED
        BY <2>6, <4>5, <4>10 DEF Steps, Ready, ExecPlaces, ItemPlaces
    <3>2. CASE ~(call.k < Len(Item.group))
      <4>1. call' # Idle /\ call'.req = call.req /\ call'.at = "settle" /\ call'.item = call.item
        BY <1>1, <2>8, <3>2, GotoFields DEF NextMember, Safe, Places
      <4>2. Item' = it
        BY <2>5, <2>6, <2>8, <4>1 DEF Item, ExecPlaces, ItemPlaces
      <4>3. \A b \in 1..(call.k - 1) : Item.group[b] \in Item.marked
        BY <1>1 DEF Safe, Steps, Marking, Before
      <4>4. DOMAIN Item.group = 1..Len(Item.group) /\ Len(Item.group) \in Nat
        BY <1>3, GroupsAssumption
      <4>5. \A b \in DOMAIN Item.group : b \in 1..(call.k - 1) \/ b = call.k
        BY <1>3, <3>2, <4>4
      <4>6. Range(it.group) \subseteq it.marked
        BY <2>1, <4>3, <4>5 DEF Member, Range
      <4>7. QED
        BY <2>6, <4>1, <4>2, <4>6 DEF Steps, Marking, Ready, ExecPlaces, ItemPlaces
    <3>3. QED
      BY <3>1, <3>2
  <2>9. QED
    BY <2>2, <2>7, <2>8 DEF Save
<1>6. QED
  BY <1>4, <1>5 DEF Confirm

\* After an item is left, or given up, nothing is claimed of the member.
LEMMA LeftSteps ==
    ASSUME Safe, call # Idle, call'.at \in {"select", "block"}, Alike', NoneOpen'
    PROVE  Steps'
BY DEF Steps, Marking, Ready

LEMMA SettleSafe ==
    ASSUME Safe, Settle
    PROVE  Ledgers' /\ Steps'
<1> DEFINE c == NextItem
           it == [Item EXCEPT !.st = "saved", !.applied = "yes"]
<1>1. call # Idle /\ call.at = "settle" /\ call.at \in ItemPlaces
  BY DEF Settle, Idle, ItemPlaces
<1>2. UNCHANGED << head, hist, sent >>
  BY DEF Settle
<1>3. Item \in ItemType
  BY <1>1, InHandType DEF Safe
<1>4. CASE call' = Goto("block") /\ UNCHANGED << disk, live >>
  BY <1>1, <1>2, <1>4, ToBlock DEF Safe, Ledgers
<1>5. CASE WhollyApplied(Work, call.item, Item) /\ Save(PutItem(it), c, Goto("block"))
  <2>1. /\ it \in ItemType /\ it.sub = Item.sub /\ it.group = Item.group
        /\ it.before = Item.before /\ it.st = "saved" /\ it.applied = "yes"
        /\ it.marked = Item.marked
    BY <1>3 DEF ItemType, Outcomes, Settled
  <2>2. Range(Item.group) \subseteq Item.marked
    BY <1>1 DEF Safe, Steps, Marking
  <2>3. \A m \in Range(Item.group) : Item.before[m] \in hist[m] \cup {Absent}
    BY <1>5 DEF WhollyApplied, Applied
  <2>4. c.at = "select" /\ c.req = call.req
    BY <1>1, LeaveItem DEF Safe
  <2>5. Goto("block").at = "block" /\ Goto("block").req = call.req
    BY <1>1, GotoFields DEF Safe, Places
  <2> HIDE DEF it, c
  <2>6. /\ Ledgers'
        /\ call' # Idle /\ call'.req = call.req /\ call'.at \in ExecPlaces =>
               Alike' /\ NoneOpen' /\ Work' = Work
    BY <1>1, <1>2, <1>5, <2>1, <2>2, <2>3, SaveItemSafe
  <2>7. call' \in {c, Goto("block")}
    BY <1>5 DEF Save
  <2>8. QED
    BY <1>1, <2>4, <2>5, <2>6, <2>7, LeftSteps DEF ExecPlaces, ItemPlaces, Idle
<1>6. QED
  BY <1>4, <1>5 DEF Settle

LEMMA BlockSafe ==
    ASSUME Safe, Block
    PROVE  Ledgers' /\ Steps'
<1> DEFINE c == NextItem
           seen == GroupApplied(Work, call.item, Item)
           it == [Item EXCEPT !.st = "recovery_required", !.applied = seen]
<1>1. call # Idle /\ call.at \in ItemPlaces
  BY DEF Block, Idle, ItemPlaces
<1>2. UNCHANGED << head, hist, sent >>
  BY DEF Block
<1>3. Item \in ItemType /\ seen \in {"yes", "no", "unknown"}
  BY <1>1, InHandType DEF Safe, GroupApplied
<1>4. Save(PutItem(it), c, Raise("io"))
  BY DEF Block
<1> HIDE DEF seen
<1>5. /\ it \in ItemType /\ it.sub = Item.sub /\ it.group = Item.group
      /\ it.before = Item.before /\ it.st = "recovery_required" /\ it.marked = Item.marked
  BY <1>3 DEF ItemType, Outcomes, Unsure
<1>6. c.at = "select" /\ c.req = call.req
  BY <1>1, LeaveItem DEF Safe
<1> HIDE DEF it, c
<1>7. /\ Ledgers'
      /\ call' # Idle /\ call'.req = call.req /\ call'.at \in ExecPlaces =>
             Alike' /\ NoneOpen' /\ Work' = Work
  BY <1>1, <1>2, <1>4, <1>5, SaveItemSafe DEF Unsure
<1>8. CASE call' = c
  BY <1>1, <1>6, <1>7, <1>8, LeftSteps DEF ExecPlaces, Idle
<1>9. CASE call' = Raise("io")
  BY <1>1, <1>7, <1>9, RaiseQuiet, QuietSteps DEF Safe
<1>10. QED
  BY <1>4, <1>8, <1>9 DEF Save

\* The end of a call changes statuses, revisions and answers, never an item.
LEMMA EndSafe ==
    ASSUME Safe, Finish \/ Reply \/ Fail \/ Answer
    PROVE  Ledgers' /\ Steps'
<1>1. call # Idle /\ UNCHANGED << head, hist >>
  BY DEF Finish, Reply, Fail, Answer, Idle
<1>2. Work \in Works /\ live.work[Work] \in WorkType /\ live \in LedgerType
  BY <1>1, InFlight DEF Safe, Typed, TypeOK
<1>3. Quiet(call')
  BY <1>1, RaiseQuiet, GotoFields
     DEF Finish, Reply, Fail, Answer, Save, Safe, Quiet, Places, ExecPlaces, ItemPlaces
<1>4. Steps'
  BY <1>3, QuietSteps
<1>5. CASE Reply
  BY <1>4, <1>5 DEF Reply, Safe, Ledgers
<1>6. CASE Answer
  BY <1>1, <1>4, <1>6, SaveLedgers DEF Answer, Safe, Ledgers
<1>7. CASE Finish
  <2>1. PICK k : k.items = live.work[Work].items /\ Finished = Put(live, Work, k, call.req, "answered")
    <3> DEFINE d == Derived(live.work[Work])
               n == IF Tool = "resume" THEN d.rev + 1 ELSE d.rev
    <3>1. d \in WorkType /\ d.items = live.work[Work].items
      BY <1>2, DerivedType DEF Derived, WorkType
    <3>2. Finished = Put(live, Work, [d EXCEPT !.rev = n], call.req, "answered")
      BY DEF Finished
    <3> HIDE DEF d, n
    <3>3. [d EXCEPT !.rev = n].items = live.work[Work].items
      BY <3>1 DEF WorkType
    <3>4. QED
      BY <3>2, <3>3
  <2>2. Sound(Finished, head, hist)
    BY <1>2, <2>1, PutSound DEF Safe, Ledgers
  <2>3. QED
    BY <1>1, <1>4, <1>7, <2>2, SaveLedgers DEF Finish, Safe
<1>8. CASE Fail
  <2> DEFINE k == IF call.error = "io" THEN live.work[Work] ELSE Downgraded(live.work[Work])
  <2>1. k.items = live.work[Work].items
    BY <1>2 DEF Downgraded, WorkType
  <2>2. Save(Put(live, Work, k, call.req, "answered"), Idle, Idle)
    BY <1>8 DEF Fail
  <2> HIDE DEF k
  <2>3. Sound(Put(live, Work, k, call.req, "answered"), head, hist)
    BY <1>2, <2>1, PutSound DEF Safe, Ledgers
  <2>4. QED
    BY <1>1, <1>4, <2>2, <2>3, SaveLedgers DEF Safe
<1>9. QED
  BY <1>5, <1>6, <1>7, <1>8

LEMMA SafeNext == Safe /\ [Next]_vars => Safe'
<1> SUFFICES ASSUME Safe, [Next]_vars PROVE Ledgers' /\ Steps'
  BY TypedNext DEF Safe
<1>1. ASSUME NEW r \in Requests, NEW t \in Tools, NEW w \in Works, Send(r, t, w)
      PROVE  Ledgers' /\ Steps'
  BY <1>1, SendSafe
<1>2. ASSUME NEW r \in Requests, Deliver(r)
      PROVE  Ledgers' /\ Steps'
  BY <1>2, PrepareSafe, BeginSubmitSafe, BeginResumeSafe, CancelSafe DEF Deliver
<1>3. CASE SaveCharge \/ CompileRefuses \/ CompileAll \/ CompileStops \/ Publish
  BY <1>3, SaveChargeSafe, CompileRefusesSafe, CompileAllSafe, CompileStopsSafe, PublishSafe
<1>4. CASE \/ Verify \/ Select \/ Guard \/ Apply \/ Replace \/ Rename \/ Confirm
           \/ Settle \/ Block
  BY <1>4, VerifySafe, SelectSafe, GuardSafe, ApplySafe, ReplaceSafe, RenameSafe,
     ConfirmSafe, SettleSafe, BlockSafe
<1>5. CASE Finish \/ Reply \/ Fail \/ Answer
  BY <1>5, EndSafe
<1>6. ASSUME NEW m \in Mems, NEW v \in ExtRevs \cup {Absent}, ExternalEdit(m, v)
      PROVE  Ledgers' /\ Steps'
  BY <1>6, ExternalEditSafe
<1>7. CASE Crash
  BY <1>7, CrashSafe
<1>8. CASE UNCHANGED vars
  <2>1. UNCHANGED << head, hist, disk, live, call, sent, faults, edits >>
    BY <1>8 DEF vars
  <2>2. Ledgers' /\ Work' = Work /\ Item' = Item /\ Before(call.k)' = Before(call.k)
    BY <2>1 DEF Safe, Ledgers, Work, Item, Before
  <2>3. QED
    BY <2>1, <2>2 DEF Safe, Steps, Alike, NoneOpen, Marking, Ready, Member
<1>9. QED
  BY <1>1, <1>2, <1>3, <1>4, <1>5, <1>6, <1>7, <1>8 DEF Next, Service

LEMMA AlwaysSafe == Spec => []Safe
BY TypedInit, SafeInit, SafeNext, PTL DEF Spec, Safe

-----------------------------------------------------------------------------
(* Theorems. *)

\* Write-ahead: whatever the program wrote into a memory file, the ledger file
\* holds the group it was frozen in, not given up since (host_v2.py saves the
\* ledger before _execute, and _cancel looks at the heads first).
THEOREM LedgerBeforeHead == Spec => []WrittenFromLedger
<1>1. Safe => WrittenFromLedger
  BY DEF Safe, Ledgers, Sound, WrittenFromLedger
<1>2. QED
  BY <1>1, AlwaysSafe, PTL

\* The members of a group are replaced in the order of the group, each only
\* when the ledger file marks the earlier ones (the second loop of _execute).
THEOREM MembersInOrder == Spec => []WrittenInOrder
<1>1. Safe => WrittenInOrder
  BY DEF Safe, Ledgers, Sound, WrittenInOrder
<1>2. QED
  BY <1>1, AlwaysSafe, PTL

\* Only what was applied and archived as a whole is ever called saved.
THEOREM SavedMeansWhole == Spec => []SavedIsWhole
<1>1. Safe => SavedIsWhole
  BY DEF Safe, Ledgers, Sound, SavedIsWhole
<1>2. QED
  BY <1>1, AlwaysSafe, PTL

\* A revision the program replaces was archived before (write_frozen_unlocked).
THEOREM ArchivedBeforeReplaced == Spec => NothingLost
<1> DEFINE Kept1 == \A m \in Mems :
                (head'[m] # head[m] /\ edits' = edits /\ ~call.stale) => head[m] \in hist[m] \cup {Absent}
<1>1. ASSUME Safe, [Next]_vars
      PROVE  [Kept1]_vars
  <2>1. CASE Rename
    <3>1. head' = head \/ head' = [head EXCEPT ![Member] = Op]
      BY <2>1 DEF Rename
    <3>2. ~call.stale => head[Member] \in hist[Member] \cup {Absent}
      BY <1>1, <2>1 DEF Rename, Safe, Steps, Ready
    <3>3. head \in [Mems -> Heads]
      BY <1>1 DEF Safe, Typed, TypeOK
    <3>4. QED
      BY <3>1, <3>2, <3>3
  <2>2. ASSUME NEW m \in Mems, NEW v \in ExtRevs \cup {Absent}, ExternalEdit(m, v)
        PROVE  Kept1
    <3>1. edits' # edits
      BY <1>1, <2>2, BoundsAssumption DEF ExternalEdit, Safe, Typed, TypeOK
    <3>2. QED
      BY <3>1
  <2>3. CASE UNCHANGED head
    BY <2>3
  <2>4. CASE Service \/ Crash \/ (\E r \in Requests : Deliver(r))
             \/ (\E r \in Requests, t \in Tools, w \in Works : Send(r, t, w))
    <3>1. Rename \/ UNCHANGED head
      BY <2>4 DEF Service, Crash, Deliver, Send, PrepareNew, PrepareRefresh, BeginSubmit,
         BeginResume, Cancel, SaveCharge, CompileRefuses, CompileAll, CompileStops, Publish,
         Verify, Select, Guard, Apply, Replace, Confirm, Settle, Block, Finish, Reply, Fail, Answer
    <3>2. QED
      BY <2>1, <2>3, <3>1
  <2>5. QED
    BY <1>1, <2>2, <2>3, <2>4 DEF Next, vars
<1>2. QED
  BY <1>1, AlwaysSafe, PTL DEF Spec, NothingLost
=============================================================================
